--------------------------- MODULE BufferPoolProofs ---------------------------
(***************************************************************************)
(* Proof that IInv is an inductive invariant of BufferPool, and what       *)
(* follows from it, for every number of frames, pages and clients.         *)
(***************************************************************************)
EXTENDS BufferPoolInv, FiniteSetTheorems, WellFoundedInduction, TLAPS

(* Page ids, and the ids that are none, are told apart. *)
LEMMA PageIds ==
  /\ Page \subseteq Nat
  /\ INVALID_PAGE_ID \notin Page
  /\ INVALID_PAGE_ID \in PageRef
  /\ INVALID_PAGE_ID \in Nat
  /\ 0 \notin Page
  /\ Page \subseteq PageRef
  /\ NoFrame \notin Frame
  /\ Data \cap Link = {}
BY DiskConstants, DataIsNotALink, PoolConstants
   DEF Page, INVALID_PAGE_ID, PageRef, MagicAsPage, Frame, NoFrame

(* Writing a page in use leaves the disk's bookkeeping as it was. *)
LEMMA WriteKeeps ==
  ASSUME NEW d, NEW A, DiskKeeps(d, A), NEW p \in A, NEW c \in Content
  PROVE  /\ DiskKeeps(Write(d, p, c), A)
         /\ Write(d, p, c).size = d.size
         /\ Write(d, p, c).pages[p] = c
         /\ \A q \in Page \ {p} : Write(d, p, c).pages[q] = d.pages[q]
<1> DEFINE e == Write(d, p, c)
<1>1. d \in Disk /\ p \in Page /\ p < d.next /\ d.size = d.next
  BY DEF DiskKeeps
<1>2. e = [d EXCEPT !.pages = [@ EXCEPT ![p] = c]]
  <2>1. p # d.size
    BY <1>1, PageIds DEF Disk
  <2> QED
    BY <1>1, <2>1 DEF Write, Disk
<1>3. e \in Disk /\ \A q \in Page : e.pages[q] = IF q = p THEN c ELSE d.pages[q]
  BY <1>1, <1>2 DEF Disk
<1>4. /\ e.size = d.size /\ e.next = d.next /\ e.free = d.free
      /\ e.header = d.header
  BY <1>1, <1>2 DEF Disk
<1>5. ASSUME NEW F \in SUBSET Page, IsFreeList(d, F), F \cap A = {}
      PROVE  IsFreeList(e, F)
  <2>1. \A q \in F : e.pages[q] = d.pages[q]
    BY <1>3, <1>5
  <2> QED
    BY <1>4, <1>5, <2>1 DEF IsFreeList
<1> QED
  BY <1>1, <1>3, <1>4, <1>5 DEF DiskKeeps

(* With a reliable header, persisting it makes it agree with memory. *)
LEMMA HeaderPersists ==
  ASSUME OrderlyUse
  PROVE  HeaderEnds = {TRUE}
BY DEF OrderlyUse, HeaderEnds

(* The files of disks d and e have the same content on the pages in A. *)
Agree(d, e, A) == \A q \in A : e.pages[q] = d.pages[q]

(* The page AllocatePage hands out is in nobody's use. *)
LEMMA AllocateKeeps ==
  ASSUME OrderlyUse, NEW d, NEW A, DiskKeeps(d, A), NEW a \in AllocatePage(d)
  PROVE  /\ DiskKeeps(a.disk, A)
         /\ a.page # INVALID_PAGE_ID =>
              a.page \in Page \ A /\ DiskKeeps(a.disk, A \cup {a.page})
         /\ Agree(d, a.disk, A)
<1> USE DEF Agree
<1>0. d \in Disk /\ d.size = d.next /\ A \subseteq {p \in Page : p < d.next}
  BY DEF DiskKeeps
<1> PICK F \in SUBSET Page : IsFreeList(d, F) /\ F \cap A = {}
  BY DEF DiskKeeps
<1>1. CASE a = AllocateFailed(d)
  BY <1>1 DEF AllocateFailed, Allocated
<1>2. CASE d.free # INVALID_PAGE_ID /\ a \in RecycleHead(d)
  <2> DEFINE h == d.free
             popped == [d EXCEPT !.free = NextFree(d, h)]
             e == PersistHeader(popped, TRUE)
  <2>1. h \in F /\ h \in Page /\ h < d.next /\ d.pages[h] \in Link
    BY <1>2 DEF IsFreeList
  <2>2. NextFree(d, h) = d.pages[h].nextFree
    BY <2>1, PageIds DEF NextFree
  <2>3. NextFree(d, h) \in (F \ {h}) \cup {INVALID_PAGE_ID}
    BY <2>1, <2>2 DEF IsFreeList
  <2>4. NextFree(d, h) \in PageRef
    BY <2>3, PageIds
  <2>5. popped \in Disk
    BY <1>0, <2>4 DEF Disk
  <2>6. e \in Disk
    BY <2>5 DEF PersistHeader, Disk, Header
  <2>7. /\ e.pages = d.pages /\ e.size = d.size /\ e.next = d.next
        /\ e.free = NextFree(d, h)
        /\ e.header.next = e.next /\ e.header.free = e.free
    BY <1>0, <2>5 DEF PersistHeader, Disk, Header
  <2>8. a.disk = e /\ a.page = h
    <3>1. PICK ok \in HeaderEnds : a = IF ok THEN Allocated(e, h)
                                             ELSE AllocateFailed(popped)
      BY <1>2 DEF RecycleHead
    <3>2. ok = TRUE
      BY HeaderPersists
    <3> HIDE DEF e, popped
    <3>3. a = Allocated(e, h)
      BY <3>1, <3>2
    <3> QED
      BY <3>3 DEF Allocated
  <2>9. IsFreeList(e, F \ {h})
    <3>1. \A q \in F \ {h} : d.pages[q].nextFree # h
      BY <2>1, PageIds DEF IsFreeList
    <3>2. \A q \in F \ {h} :
            d.pages[q].nextFree # INVALID_PAGE_ID =>
              d.pages[q].nextFree # NextFree(d, h)
      BY <2>1, <2>2 DEF IsFreeList
    <3> HIDE DEF e
    <3>3. \A q \in F \ {h} :
            e.pages[q].nextFree \in ((F \ {h}) \ {e.free}) \cup {INVALID_PAGE_ID}
      BY <2>3, <2>7, <3>1, <3>2 DEF IsFreeList
    <3> QED
      BY <2>3, <2>7, <3>3 DEF IsFreeList
  <2>10. h \notin A
    BY <2>1
  <2>11. DiskKeeps(e, A \cup {h})
    <3> HIDE DEF e
    <3>1. (F \ {h}) \cap (A \cup {h}) = {} /\ F \ {h} \in SUBSET Page
      OBVIOUS
    <3>2. A \cup {h} \subseteq {q \in Page : q < e.next}
      BY <1>0, <2>1, <2>7
    <3> QED
      BY <1>0, <2>6, <2>7, <2>9, <3>1, <3>2 DEF DiskKeeps
  <2>12. DiskKeeps(e, A)
    BY <2>11 DEF DiskKeeps
  <2> QED
    BY <1>0, <2>1, <2>7, <2>8, <2>10, <2>11, <2>12
<1>3. CASE /\ d.free = INVALID_PAGE_ID
           /\ TRUE \in WriteEnds(d, d.next)
           /\ a \in AppendPage(d)
  <2> DEFINE n == d.next
             grown == [Write(d, n, Zero) EXCEPT !.next = n + 1]
             e == PersistHeader(grown, TRUE)
  <2>1. n \in Page /\ n + 1 \in PageRef /\ n + 1 \in 1 .. MaxPage + 1
    BY <1>3, DiskConstants DEF WriteEnds, Page, PageRef, MagicAsPage
  <2>2. grown = [d EXCEPT !.pages = [@ EXCEPT ![n] = Zero],
                          !.size = n + 1, !.next = n + 1]
    BY <1>0, <2>1 DEF Write, Disk
  <2>3. grown \in Disk
    <3>1. [d.pages EXCEPT ![n] = Zero] \in [Page -> Content]
      BY <1>0, DiskConstants DEF Disk, Content
    <3> HIDE DEF grown
    <3> QED
      BY <1>0, <2>1, <2>2, <3>1 DEF Disk
  <2>4. e \in Disk
    BY <2>3 DEF PersistHeader, Disk, Header
  <2>5. /\ \A q \in Page : e.pages[q] = IF q = n THEN Zero ELSE d.pages[q]
        /\ e.size = n + 1 /\ e.next = n + 1 /\ e.free = d.free
        /\ e.header.next = e.next /\ e.header.free = e.free
    <3>1. /\ \A q \in Page : grown.pages[q] = IF q = n THEN Zero ELSE d.pages[q]
          /\ grown.size = n + 1 /\ grown.next = n + 1 /\ grown.free = d.free
      BY <1>0, <2>1, <2>2 DEF Disk
    <3> HIDE DEF grown
    <3>2. /\ e.pages = grown.pages /\ e.size = grown.size
          /\ e.next = grown.next /\ e.free = grown.free
          /\ e.header.next = grown.next /\ e.header.free = grown.free
      BY <2>3 DEF PersistHeader, Disk, Header
    <3> QED
      BY <3>1, <3>2
  <2>6. a.disk = e /\ a.page = n
    <3>1. PICK ok \in HeaderEnds : a = IF ok THEN Allocated(e, n)
                                             ELSE AllocateFailed(grown)
      BY <1>3 DEF AppendPage
    <3>2. ok = TRUE
      BY HeaderPersists
    <3> HIDE DEF e, grown
    <3>3. a = Allocated(e, n)
      BY <3>1, <3>2
    <3> QED
      BY <3>3 DEF Allocated
  <2>7. F \cap {n} = {} /\ n \notin A
    <3>1. n \in Nat /\ \A q \in F \cup A : q \in Nat /\ q < d.next
      BY <1>0, <2>1, PageIds DEF IsFreeList
    <3>2. ASSUME NEW q \in F \cup A PROVE q # n
      BY <3>1
    <3> QED
      BY <3>2
  <2>8. IsFreeList(e, F)
    <3> HIDE DEF e
    <3>1. \A q \in F : q < e.next
      <4>1. \A q \in F : q \in Nat /\ q < n
        BY PageIds DEF IsFreeList
      <4>2. n \in Nat /\ e.next = n + 1
        BY <2>1, <2>5, PageIds
      <4> HIDE DEF n
      <4> QED
        BY <4>1, <4>2
    <3>2. \A q \in F : e.pages[q] = d.pages[q]
      BY <2>5, <2>7
    <3> QED
      BY <2>5, <3>1, <3>2 DEF IsFreeList
  <2>9. DiskKeeps(e, A \cup {n})
    <3>1. A \cup {n} \subseteq {p \in Page : p < e.next}
      <4>1. \A q \in A : q \in Page /\ q < n
        BY <1>0
      <4>2. \A q \in A \cup {n} : q \in Nat /\ q \in Page
        BY <1>0, <2>1, PageIds
      <4>3. n \in Nat /\ e.next = n + 1
        BY <2>1, <2>5, PageIds
      <4> HIDE DEF e, n
      <4> QED
        BY <4>1, <4>2, <4>3
    <3> QED
      BY <2>4, <2>5, <2>7, <2>8, <3>1 DEF DiskKeeps
  <2>10. DiskKeeps(e, A)
    BY <2>9 DEF DiskKeeps
  <2> QED
    BY <1>0, <2>1, <2>5, <2>6, <2>7, <2>9, <2>10
<1>4. CASE d.free # INVALID_PAGE_ID
  <2>1. a = AllocateFailed(d) \/ a \in RecycleHead(d)
    BY <1>4 DEF AllocatePage
  <2> QED
    BY <1>1, <1>2, <1>4, <2>1
<1>5. CASE d.free = INVALID_PAGE_ID
  <2>1. \/ a = AllocateFailed(d)
        \/ TRUE \in WriteEnds(d, d.next) /\ a \in AppendPage(d)
    <3>1. PICK ok \in WriteEnds(d, d.next) :
            a \in IF ok THEN AppendPage(d) ELSE {AllocateFailed(d)}
      BY <1>5 DEF AllocatePage
    <3>2. ok \in BOOLEAN
      BY DEF WriteEnds
    <3> QED
      BY <3>1, <3>2
  <2> QED
    BY <1>1, <1>3, <1>5, <2>1
<1> QED
  BY <1>4, <1>5

(* A page in use that is freed leaves use; a deallocation that reports an  *)
(* error has done nothing.                                                 *)
LEMMA DeallocateKeeps ==
  ASSUME OrderlyUse, NEW d, NEW A, DiskKeeps(d, A), NEW p \in A,
         NEW r \in DeallocatePage(d, p)
  PROVE  /\ r.ok \in BOOLEAN
         /\ r.ok => DiskKeeps(r.disk, A \ {p})
         /\ ~r.ok => r.disk = d
         /\ Agree(d, r.disk, A \ {p})
<1> USE DEF Agree
<1>0. d \in Disk /\ d.size = d.next /\ A \subseteq {q \in Page : q < d.next}
  BY DEF DiskKeeps
<1> PICK F \in SUBSET Page : IsFreeList(d, F) /\ F \cap A = {}
  BY DEF DiskKeeps
<1>1. CASE r = Deallocated(d, FALSE)
  BY <1>1 DEF Deallocated
<1>2. CASE r \in PushFree(d, p)
  <2> DEFINE w == Write(d, p, LinkTo(d.free))
             pushed == [w EXCEPT !.free = p]
             e == PersistHeader(pushed, TRUE)
  <2>1. p \in Page /\ p < d.next /\ p \notin F
    BY <1>0
  <2>2. LinkTo(d.free) \in Link /\ LinkTo(d.free).nextFree = d.free
    BY <1>0 DEF LinkTo, Link, Disk
  <2>3. w = [d EXCEPT !.pages = [@ EXCEPT ![p] = LinkTo(d.free)]]
    <3>1. p # d.size
      BY <1>0, <2>1, PageIds DEF Disk
    <3> QED
      BY <1>0, <2>1, <3>1 DEF Write, Disk
  <2>4. pushed \in Disk
    <3>1. [d.pages EXCEPT ![p] = LinkTo(d.free)] \in [Page -> Content]
      BY <1>0, <2>2 DEF Disk, Content
    <3>2. pushed = [d EXCEPT !.pages = [@ EXCEPT ![p] = LinkTo(d.free)],
                             !.free = p]
      BY <2>3
    <3> HIDE DEF pushed
    <3> QED
      BY <1>0, <2>1, <3>1, <3>2, PageIds DEF Disk
  <2>5. e \in Disk
    BY <2>4 DEF PersistHeader, Disk, Header
  <2>6. /\ \A q \in Page : e.pages[q] = IF q = p THEN LinkTo(d.free)
                                                 ELSE d.pages[q]
        /\ e.size = d.size /\ e.next = d.next /\ e.free = p
        /\ e.header.next = e.next /\ e.header.free = e.free
    BY <1>0, <2>1, <2>3, <2>4 DEF PersistHeader, Disk, Header
  <2>7. r.disk = e /\ r.ok = TRUE
    <3>1. PICK ok \in HeaderEnds : r = Deallocated(PersistHeader(pushed, ok), ok)
      BY <1>2 DEF PushFree
    <3>2. r = Deallocated(e, TRUE)
      BY <3>1, HeaderPersists
    <3> HIDE DEF e
    <3> QED
      BY <3>2 DEF Deallocated
  <2>8. IsFreeList(e, F \cup {p})
    <3>1. \A q \in F : e.pages[q] = d.pages[q]
      BY <2>1, <2>6
    <3>2. e.pages[p].nextFree = d.free /\ e.pages[p] \in Link
      BY <2>1, <2>2, <2>6
    <3>3. d.free \in F \cup {INVALID_PAGE_ID}
      BY DEF IsFreeList
    <3>4. \A q \in F : /\ q < d.next
                       /\ d.pages[q] \in Link
                       /\ d.pages[q].nextFree \in
                            (F \ {d.free}) \cup {INVALID_PAGE_ID}
      BY DEF IsFreeList
    <3>5. \A q \in F : d.pages[q].nextFree = d.free =>
                         d.free = INVALID_PAGE_ID
      BY <3>4
    <3>6. \A q, s \in F \cup {p} :
            e.pages[q].nextFree = e.pages[s].nextFree =>
              q = s \/ e.pages[q].nextFree = INVALID_PAGE_ID
      BY <3>1, <3>2, <3>5 DEF IsFreeList
    <3>7. \A q \in F \cup {p} :
            e.pages[q].nextFree \in ((F \cup {p}) \ {p}) \cup {INVALID_PAGE_ID}
      BY <2>1, <3>1, <3>2, <3>3, <3>4
    <3> QED
      BY <2>1, <2>6, <3>1, <3>2, <3>4, <3>6, <3>7 DEF IsFreeList
  <2>9. DiskKeeps(e, A \ {p})
    <3>1. F \cup {p} \in SUBSET Page /\ (F \cup {p}) \cap (A \ {p}) = {}
      BY <2>1
    <3> QED
      BY <1>0, <2>5, <2>6, <2>8, <3>1 DEF DiskKeeps
  <2> QED
    BY <1>0, <2>6, <2>7, <2>9
<1>3. r = Deallocated(d, FALSE) \/ r \in PushFree(d, p)
  BY DEF DeallocatePage
<1> QED
  BY <1>1, <1>2, <1>3

-------------------------------------------------------------------------------
(* Changing a frame's pin count keeps the rest of it. *)
LEMMA PinField ==
  ASSUME NEW r \in FrameState, NEW n \in Nat
  PROVE  /\ [r EXCEPT !.pin = n] \in FrameState
         /\ [r EXCEPT !.pin = n].page = r.page
         /\ [r EXCEPT !.pin = n].data = r.data
         /\ [r EXCEPT !.pin = n].pin = n
         /\ [r EXCEPT !.pin = n].dirty = r.dirty
BY DEF FrameState

(* Changing its dirty flag keeps the rest of it. *)
LEMMA DirtyField ==
  ASSUME NEW r \in FrameState, NEW b \in BOOLEAN
  PROVE  /\ [r EXCEPT !.dirty = b] \in FrameState
         /\ [r EXCEPT !.dirty = b].page = r.page
         /\ [r EXCEPT !.dirty = b].data = r.data
         /\ [r EXCEPT !.dirty = b].pin = r.pin
         /\ [r EXCEPT !.dirty = b].dirty = b
BY DEF FrameState

(* Writing into a page marks it dirty and changes its content alone. *)
LEMMA DataField ==
  ASSUME NEW r \in FrameState, NEW u \in Content
  PROVE  /\ [r EXCEPT !.data = u, !.dirty = TRUE] \in FrameState
         /\ [r EXCEPT !.data = u, !.dirty = TRUE].page = r.page
         /\ [r EXCEPT !.data = u, !.dirty = TRUE].data = u
         /\ [r EXCEPT !.data = u, !.dirty = TRUE].pin = r.pin
         /\ [r EXCEPT !.data = u, !.dirty = TRUE].dirty = TRUE
BY DEF FrameState

(* A frame without pins is in no client's hands. *)
LEMMA NobodyHolds ==
  ASSUME PinsCountHolders, NEW f \in Frame, frames[f].pin = 0
  PROVE  \A c \in Client, p \in Page : held[c][p] # f
<1>1. IsFiniteSet(Holders(f)) /\ Cardinality(Holders(f)) = 0
  <2>1. Holders(f) \subseteq Client
    BY DEF Holders
  <2> QED
    BY <2>1, PoolConstants, FS_Subset DEF PinsCountHolders, Holders
<1>2. Holders(f) = {}
  BY <1>1, FS_EmptySet
<1> QED
  BY <1>2 DEF Holders

(* The frame GetVictimFrame takes is idle, and not among those left. *)
LEMMA VictimIsIdle ==
  ASSUME PoolInv, NEW v \in Victims
  PROVE  /\ v.frame \in Frame
         /\ frames[v.frame].pin = 0
         /\ frames[v.frame].dirty => frames[v.frame].page # INVALID_PAGE_ID
         /\ v.evictable \subseteq evictable \ {v.frame}
         /\ v.rest \in Seq(Frame)
         /\ \A i \in 1 .. Len(v.rest) :
              /\ v.rest[i] # v.frame
              /\ \E j \in 1 .. Len(frame_list) : v.rest[i] = frame_list[j]
         /\ \A i, j \in 1 .. Len(v.rest) : v.rest[i] = v.rest[j] => i = j
<1> USE DEF PoolInv, PoolTypeOK
<1>1. CASE frame_list # <<>>
  <2>1. v = [frame |-> Head(frame_list), rest |-> Tail(frame_list),
             evictable |-> evictable]
    BY <1>1 DEF Victims
  <2>2. /\ Len(frame_list) \in Nat /\ Len(frame_list) > 0
        /\ Head(frame_list) = frame_list[1]
        /\ 1 \in 1 .. Len(frame_list)
        /\ Tail(frame_list) \in Seq(Frame)
        /\ Len(Tail(frame_list)) = Len(frame_list) - 1
        /\ \A i \in 1 .. Len(Tail(frame_list)) :
             /\ i + 1 \in 1 .. Len(frame_list)
             /\ Tail(frame_list)[i] = frame_list[i + 1]
    BY <1>1
  <2>3. Head(frame_list) \in Frame /\ Head(frame_list) \notin evictable
    BY <2>2 DEF OfferedFramesAreIdle
  <2>4. \A i \in 1 .. Len(Tail(frame_list)) :
          /\ Tail(frame_list)[i] # Head(frame_list)
          /\ \E j \in 1 .. Len(frame_list) : Tail(frame_list)[i] = frame_list[j]
    BY <2>2 DEF OfferedFramesAreIdle
  <2>5. \A i, j \in 1 .. Len(Tail(frame_list)) :
          Tail(frame_list)[i] = Tail(frame_list)[j] => i = j
    BY <2>2 DEF OfferedFramesAreIdle
  <2>6. frames[Head(frame_list)].pin = 0 /\ ~frames[Head(frame_list)].dirty
    BY <2>2 DEF OfferedFramesAreIdle
  <2> QED
    BY <2>1, <2>2, <2>3, <2>4, <2>5, <2>6
<1>2. CASE frame_list = <<>>
  <2>1. PICK f \in evictable : v = [frame |-> f, rest |-> frame_list,
                                    evictable |-> evictable \ {f}]
    BY <1>2 DEF Victims
  <2>2. f \in Frame /\ frames[f].pin = 0 /\ frames[f].page # INVALID_PAGE_ID
    BY DEF OfferedFramesAreIdle
  <2>3. Len(frame_list) = 0 /\ frame_list \in Seq(Frame)
    BY <1>2
  <2> QED
    BY <2>1, <2>2, <2>3
<1> QED
  BY <1>1, <1>2

(* Whatever page moves into the victim's frame, the pool stays sound. *)
LEMMA InstallKeepsPool ==
  ASSUME PoolInv, NEW v \in Victims, TakeVictim(v),
         NEW c \in Client, NEW p \in Page, p \notin Cached,
         NEW data \in Content, Install(v.frame, p, data),
         GrantPin(c, p, v.frame)
  PROVE  PoolInv'
<1> DEFINE f == v.frame
           old == frames[f].page
<1> USE DEF PoolInv, PoolTypeOK
<1>1. /\ f \in Frame /\ frames[f].pin = 0
      /\ v.evictable \subseteq evictable \ {f}
      /\ v.rest \in Seq(Frame)
      /\ \A i \in 1 .. Len(v.rest) :
           /\ v.rest[i] # f
           /\ \E j \in 1 .. Len(frame_list) : v.rest[i] = frame_list[j]
      /\ \A i, j \in 1 .. Len(v.rest) : v.rest[i] = v.rest[j] => i = j
  BY VictimIsIdle
<1>2. \A d \in Client, q \in Page : held[d][q] # f
  BY <1>1, NobodyHolds
<1>3. ~Holds(c, p)
  BY DEF PinnedPageStays
<1>4. /\ frames' \in [Frame -> FrameState]
      /\ frames'[f] = [page |-> p, data |-> data, pin |-> 1, dirty |-> FALSE]
      /\ \A g \in Frame \ {f} : frames'[g] = frames[g]
  BY <1>1 DEF Install, FrameState
<1>5. /\ Cached' = (Cached \ {old}) \cup {p}
      /\ Cached' \subseteq Page
      /\ page_table' \in [Cached' -> Frame]
      /\ page_table'[p] = f
      /\ \A q \in Cached \ {old} : page_table'[q] = page_table[q]
  BY <1>1 DEF Install, Cached
<1>6. /\ held' \in [Client -> [Page -> Frame \cup {NoFrame}]]
      /\ held'[c][p] = f
      /\ \A d \in Client, q \in Page :
           d # c \/ q # p => held'[d][q] = held[d][q]
  BY <1>1 DEF GrantPin
<1>7. PoolTypeOK'
  BY <1>1, <1>4, <1>5, <1>6 DEF TakeVictim
<1>8. \A q \in Cached \ {old} : page_table[q] \in Frame \ {f}
  BY <1>1 DEF PageHasOneFrame, TableLeadsToPage
<1>9. PageHasOneFrame'
  <2>1. \A q \in Cached' : frames'[page_table'[q]].page = q
    BY <1>4, <1>5, <1>8 DEF PageHasOneFrame, TableLeadsToPage
  <2>2. ASSUME NEW g \in Frame, frames'[g].page # INVALID_PAGE_ID
        PROVE  frames'[g].page \in Cached' /\ page_table'[frames'[g].page] = g
    <3>1. CASE g = f
      BY <1>4, <1>5, <3>1
    <3>2. CASE g # f
      <4>1. frames[g].page \in Cached /\ page_table[frames[g].page] = g
        BY <1>4, <2>2, <3>2 DEF PageHasOneFrame
      <4>2. frames[g].page # old
        BY <1>1, <2>2, <1>4, <3>2, <4>1 DEF PageHasOneFrame
      <4> QED
        BY <1>4, <1>5, <3>2, <4>1, <4>2
    <3> QED
      BY <3>1, <3>2
  <2> QED
    BY <2>1, <2>2 DEF PageHasOneFrame, TableLeadsToPage
<1>10. PinnedPageStays'
  <2> SUFFICES ASSUME NEW d \in Client, NEW q \in Page, held'[d][q] # NoFrame
               PROVE  q \in Cached' /\ page_table'[q] = held'[d][q]
    BY DEF PinnedPageStays, Holds
  <2>1. CASE d = c /\ q = p
    BY <1>5, <1>6, <2>1
  <2>2. CASE d # c \/ q # p
    <3>1. held'[d][q] = held[d][q] /\ q \in Cached /\ page_table[q] = held[d][q]
      BY <1>6, <2>2 DEF PinnedPageStays, Holds
    <3>2. q # old
      BY <1>1, <1>2, <3>1, PageIds DEF PageHasOneFrame
    <3> QED
      BY <1>5, <3>1, <3>2
  <2> QED
    BY <2>1, <2>2
<1>11. PinsCountHolders'
  <2> SUFFICES ASSUME NEW g \in Frame
               PROVE  frames'[g].pin = Cardinality(Holders(g)')
    BY DEF PinsCountHolders, Holders
  <2>1. CASE g = f
    <3>1. Holders(g)' = {c}
      BY <1>2, <1>6, <2>1 DEF Holders
    <3>2. Cardinality({c}) = 1
      BY FS_Singleton
    <3>3. frames'[g].pin = 1
      BY <1>4, <2>1
    <3> QED
      BY <3>1, <3>2, <3>3
  <2>2. CASE g # f
    <3>1. Holders(g)' = Holders(g)
      <4>1. held[c][p] # g
        BY <1>3, PageIds DEF Holds
      <4> QED
        BY <1>6, <2>2, <4>1 DEF Holders
    <3>2. frames[g].pin = Cardinality(Holders(g))
      BY DEF PinsCountHolders, Holders
    <3> QED
      BY <1>4, <2>2, <3>1, <3>2
  <2> QED
    BY <2>1, <2>2
<1>12. OfferedFramesAreIdle'
  BY <1>1, <1>4 DEF OfferedFramesAreIdle, TakeVictim
<1> QED
  BY <1>7, <1>9, <1>10, <1>11, <1>12

(* A step that keeps pages, pins and mapping where they are keeps the pool *)
(* sound, also when it takes a victim and does not use it.                 *)
LEMMA ContentsKeepPool ==
  ASSUME PoolInv,
         frames' \in [Frame -> FrameState],
         \A f \in Frame :
           /\ frames'[f].page = frames[f].page
           /\ frames'[f].pin = frames[f].pin
           /\ frames'[f].dirty => \/ frames[f].dirty
                                  \/ frames[f].page # INVALID_PAGE_ID,
         UNCHANGED <<page_table, held>>,
         \/ UNCHANGED <<frame_list, evictable>>
         \/ \E v \in Victims : TakeVictim(v)
  PROVE  PoolInv'
<1> USE DEF PoolInv, PoolTypeOK
<1>1. /\ frame_list' \in Seq(Frame)
      /\ evictable' \subseteq evictable
      /\ \A i \in 1 .. Len(frame_list') :
           \E j \in 1 .. Len(frame_list) : frame_list'[i] = frame_list[j]
      /\ \A i, j \in 1 .. Len(frame_list') :
           frame_list'[i] = frame_list'[j] => i = j
  <2>1. CASE UNCHANGED <<frame_list, evictable>>
    BY <2>1 DEF OfferedFramesAreIdle
  <2>2. ASSUME NEW v \in Victims, TakeVictim(v)
        PROVE  <1>1!1 /\ <1>1!2 /\ <1>1!3 /\ <1>1!4
    <3>1. frame_list' = v.rest /\ evictable' = v.evictable
      BY <2>2 DEF TakeVictim
    <3>2. /\ v.rest \in Seq(Frame) /\ v.evictable \subseteq evictable
          /\ \A i \in 1 .. Len(v.rest) :
               \E j \in 1 .. Len(frame_list) : v.rest[i] = frame_list[j]
          /\ \A i, j \in 1 .. Len(v.rest) : v.rest[i] = v.rest[j] => i = j
      BY VictimIsIdle
    <3> QED
      BY <3>1, <3>2
  <2> QED
    BY <2>1, <2>2
<1>2. PoolTypeOK'
  BY <1>1 DEF Cached
<1>3. PageHasOneFrame'
  BY DEF PageHasOneFrame, TableLeadsToPage, Cached
<1>4. PinnedPageStays'
  BY DEF PinnedPageStays, Holds, Cached
<1>5. PinsCountHolders'
  BY DEF PinsCountHolders
<1>6. OfferedFramesAreIdle'
  <2>1. ASSUME NEW i \in 1 .. Len(frame_list')
        PROVE  /\ frames'[frame_list'[i]].page = INVALID_PAGE_ID
               /\ frames'[frame_list'[i]].pin = 0
               /\ ~frames'[frame_list'[i]].dirty
    <3>1. PICK j \in 1 .. Len(frame_list) : frame_list'[i] = frame_list[j]
      BY <1>1
    <3>2. frame_list[j] \in Frame
      OBVIOUS
    <3> QED
      BY <3>1, <3>2 DEF OfferedFramesAreIdle
  <2>2. \A f \in evictable' :
          frames'[f].pin = 0 /\ frames'[f].page # INVALID_PAGE_ID
    BY <1>1 DEF OfferedFramesAreIdle
  <2> QED
    BY <1>1, <2>1, <2>2 DEF OfferedFramesAreIdle
<1> QED
  BY <1>2, <1>3, <1>4, <1>5, <1>6

(* Writing the victim back changes the file's copy of its page only. *)
LEMMA VictimFlushKeeps ==
  ASSUME PoolInv, NEW v \in Victims, NEW d, NEW A, DiskKeeps(d, A),
         Cached \subseteq A
  PROVE  /\ DiskKeeps(FlushVictim(v, d), A)
         /\ FlushVictim(v, d).size = d.size
         /\ \A q \in Page :
              FlushVictim(v, d).pages[q] = d.pages[q] \/ q = frames[v.frame].page
         /\ IF frames[v.frame].dirty
            THEN FlushVictim(v, d).pages[frames[v.frame].page] =
                   frames[v.frame].data
            ELSE FlushVictim(v, d) = d
<1> DEFINE page == frames[v.frame].page
           data == frames[v.frame].data
<1>1. CASE frames[v.frame].dirty
  <2>1. v.frame \in Frame /\ page \in A
    BY <1>1, VictimIsIdle DEF PoolInv, PageHasOneFrame
  <2>2. data \in Content
    BY <2>1 DEF PoolInv, PoolTypeOK, FrameState
  <2>3. FlushVictim(v, d) = Write(d, page, data)
    BY <1>1 DEF FlushVictim
  <2> HIDE DEF page, data
  <2>4. /\ DiskKeeps(FlushVictim(v, d), A)
        /\ FlushVictim(v, d).size = d.size
        /\ FlushVictim(v, d).pages[page] = data
        /\ \A q \in Page \ {page} : FlushVictim(v, d).pages[q] = d.pages[q]
    BY <2>1, <2>2, <2>3, WriteKeeps
  <2> QED
    BY <1>1, <2>4 DEF page, data
<1>2. CASE ~frames[v.frame].dirty
  BY <1>2 DEF FlushVictim
<1> QED
  BY <1>1, <1>2

(* What Install leaves of the other cached pages. *)
LEMMA InstallFacts ==
  ASSUME PoolInv, NEW v \in Victims,
         NEW c \in Client, NEW p \in Page, p \notin Cached,
         NEW data \in Content, Install(v.frame, p, data),
         GrantPin(c, p, v.frame)
  PROVE  /\ Cached' \subseteq Cached \cup {p}
         /\ p \in Cached'
         /\ frames'[page_table'[p]].data = data
         /\ \A q \in Cached' \ {p} :
              /\ q \in Cached
              /\ q # frames[v.frame].page
              /\ frames'[page_table'[q]] = frames[page_table[q]]
         /\ held'[c][p] = v.frame
         /\ \A d \in Client, q \in Page :
              held[d][q] # NoFrame => held'[d][q] # NoFrame
<1> DEFINE f == v.frame
           old == frames[f].page
<1> USE DEF PoolInv, PoolTypeOK
<1>1. f \in Frame
  BY VictimIsIdle
<1>2. \A g \in Frame \ {f} : frames'[g] = frames[g]
  BY <1>1 DEF Install
<1>3. frames'[f] = [page |-> p, data |-> data, pin |-> 1, dirty |-> FALSE]
  BY <1>1 DEF Install
<1>4. /\ Cached' = (Cached \ {old}) \cup {p}
      /\ page_table'[p] = f
      /\ \A q \in Cached \ {old} : page_table'[q] = page_table[q]
  BY <1>1 DEF Install, Cached
<1>5. \A q \in Cached \ {old} : page_table[q] \in Frame \ {f}
  BY <1>1 DEF PageHasOneFrame, TableLeadsToPage
<1>6. /\ held'[c][p] = v.frame
      /\ \A d \in Client, q \in Page :
           held[d][q] # NoFrame => held'[d][q] # NoFrame
  BY <1>1, PageIds DEF GrantPin
<1> QED
  BY <1>2, <1>3, <1>4, <1>5, <1>6

(* No flush is under way while the latch is free. *)
LEMMA IdleFlushKeeps ==
  ASSUME FlushIsTracked, LatchFree, UNCHANGED flush
  PROVE  FlushIsTracked'
BY PageIds DEF FlushIsTracked, LatchFree, NoFlush

-------------------------------------------------------------------------------
(* From here on, one lemma for each action. *)
LEMMA FetchHitKeeps ==
  ASSUME IInv, NEW c \in Client, NEW p \in Page, FetchHit(c, p)
  PROVE  IInv'
<1> DEFINE f == page_table[p]
<1> USE DEF IInv, PoolInv, PoolTypeOK
<1>0. f \in Frame /\ p \in Cached /\ frames[f].page = p /\ held[c][p] = NoFrame
  BY DEF FetchHit, MayAskFor, Holds, PageHasOneFrame, TableLeadsToPage
<1>1. /\ frames' \in [Frame -> FrameState]
      /\ frames'[f] = [frames[f] EXCEPT !.pin = @ + 1]
      /\ \A g \in Frame \ {f} : frames'[g] = frames[g]
  <2> DEFINE pinned == [frames[f] EXCEPT !.pin = @ + 1]
  <2>1. frames' = [frames EXCEPT ![f] = pinned]
    BY DEF FetchHit
  <2>2. frames[f] \in FrameState /\ frames[f].pin + 1 \in Nat
    BY <1>0 DEF FrameState
  <2>3. pinned \in FrameState
    BY <2>2, PinField
  <2> HIDE DEF f, pinned
  <2>4. /\ frames' \in [Frame -> FrameState]
        /\ frames'[f] = pinned
        /\ \A g \in Frame \ {f} : frames'[g] = frames[g]
    BY <1>0, <2>1, <2>3
  <2> QED
    BY <2>4 DEF pinned
<1>2. /\ \A g \in Frame : /\ frames'[g].page = frames[g].page
                          /\ frames'[g].data = frames[g].data
                          /\ frames'[g].dirty = frames[g].dirty
      /\ frames'[f].pin = frames[f].pin + 1
  BY <1>0, <1>1 DEF FrameState
<1>3. /\ held' \in [Client -> [Page -> Frame \cup {NoFrame}]]
      /\ held'[c][p] = f
      /\ \A d \in Client, q \in Page :
           d # c \/ q # p => held'[d][q] = held[d][q]
  BY <1>0 DEF FetchHit, GrantPin
<1>4. /\ evictable' = evictable \ {f}
      /\ UNCHANGED <<disk, page_table, frame_list, flush, wrote, allocated>>
      /\ Cached' = Cached
  BY DEF FetchHit, Cached
<1>5. PoolInv'
  <2>1. PoolTypeOK'
    BY <1>0, <1>1, <1>3, <1>4
  <2>2. PageHasOneFrame'
    BY <1>2, <1>4 DEF PageHasOneFrame, TableLeadsToPage
  <2>3. PinnedPageStays'
    BY <1>0, <1>3, <1>4 DEF PinnedPageStays, Holds
  <2>4. PinsCountHolders'
    <3> SUFFICES ASSUME NEW g \in Frame
                 PROVE  frames'[g].pin = Cardinality(Holders(g)')
      BY DEF PinsCountHolders, Holders
    <3>1. frames[g].pin = Cardinality(Holders(g)) /\ IsFiniteSet(Holders(g))
      <4>1. Holders(g) \subseteq Client
        BY DEF Holders
      <4> QED
        BY <4>1, PoolConstants, FS_Subset DEF PinsCountHolders, Holders
    <3>2. CASE g = f
      <4>1. c \notin Holders(g)
        BY <1>0, <3>2, PageIds
           DEF Holders, PinnedPageStays, PageHasOneFrame, TableLeadsToPage, Holds
      <4>2. Holders(g)' = Holders(g) \cup {c}
        BY <1>0, <1>3, <3>2 DEF Holders
      <4>3. Cardinality(Holders(g) \cup {c}) = Cardinality(Holders(g)) + 1
        BY <3>1, <4>1, FS_AddElement
      <4>4. frames'[g].pin = frames[g].pin + 1
        BY <1>2, <3>2
      <4> QED
        BY <3>1, <4>2, <4>3, <4>4
    <3>3. CASE g # f
      <4>1. Holders(g)' = Holders(g)
        <5>1. held[c][p] # g
          BY <1>0, PageIds
        <5> QED
          BY <1>3, <3>3, <5>1 DEF Holders
      <4>2. frames'[g] = frames[g]
        BY <1>1, <3>3
      <4> QED
        BY <3>1, <4>1, <4>2
    <3> QED
      BY <3>2, <3>3
  <2>5. OfferedFramesAreIdle'
    <3>1. \A i \in 1 .. Len(frame_list) : frame_list[i] \in Frame \ {f}
      BY <1>0, PageIds DEF OfferedFramesAreIdle
    <3> QED
      BY <1>0, <1>1, <1>4, <3>1 DEF OfferedFramesAreIdle
  <2> QED
    BY <2>1, <2>2, <2>3, <2>4, <2>5
<1>6. WrittenPagesAreHeld'
  <2>1. \A d \in Client, q \in Page : held[d][q] # NoFrame => held'[d][q] # NoFrame
    BY <1>0, <1>3, PageIds
  <2> QED
    BY <1>4, <2>1 DEF WrittenPagesAreHeld, Holds
<1>7. \A q \in Cached : PageIsSaved(q)' <=> PageIsSaved(q)
  BY <1>2, <1>4 DEF PageIsSaved
<1>8. FlushIsTracked'
  BY <1>4, <1>7 DEF FlushIsTracked, LatchFree
<1>9. CleanPagesAreSaved'
  BY <1>2, <1>4, <1>7 DEF CleanPagesAreSaved, PageIsSaved
<1> QED
  BY <1>4, <1>5, <1>6, <1>8, <1>9

LEMMA FetchMissKeeps ==
  ASSUME OrderlyUse, IInv, NEW c \in Client, NEW p \in Page, FetchMiss(c, p)
  PROVE  IInv'
<1> USE DEF IInv
<1>0. LatchFree /\ p \notin Cached /\ UNCHANGED <<flush, wrote, allocated>>
  BY DEF FetchMiss, MayAskFor
<1>1. PICK v \in Victims :
        /\ TRUE \in ReadEnds(FlushVictim(v, disk), p)
        /\ TakeVictim(v)
        /\ disk' = FlushVictim(v, disk)
        /\ Install(v.frame, p, disk'.pages[p])
        /\ GrantPin(c, p, v.frame)
  BY DEF FetchMiss
<1>2. /\ DiskKeeps(disk', allocated)
      /\ disk'.size = disk.size
      /\ \A q \in Page : disk'.pages[q] = disk.pages[q]
                         \/ q = frames[v.frame].page
  BY <1>1, VictimFlushKeeps
<1>3. p \in allocated
  BY <1>1, <1>2 DEF ReadEnds, FetchMiss, MayAskFor, OrderlyUse, DiskKeeps, Disk,
     Page
<1>4. disk'.pages[p] \in Content
  BY <1>2 DEF DiskKeeps, Disk
<1>5. PoolInv'
  BY <1>0, <1>1, <1>4, InstallKeepsPool
<1>6. /\ Cached' \subseteq Cached \cup {p}
      /\ p \in Cached'
      /\ frames'[page_table'[p]].data = disk'.pages[p]
      /\ \A q \in Cached' \ {p} :
           /\ q \in Cached
           /\ q # frames[v.frame].page
           /\ frames'[page_table'[q]] = frames[page_table[q]]
      /\ \A d \in Client, q \in Page :
           held[d][q] # NoFrame => held'[d][q] # NoFrame
  BY <1>0, <1>1, <1>4, InstallFacts
<1>7. WrittenPagesAreHeld'
  BY <1>0, <1>6 DEF WrittenPagesAreHeld, Holds
<1>8. CleanPagesAreSaved'
  <2> SUFFICES ASSUME NEW q \in Cached', ~frames'[page_table'[q]].dirty
               PROVE  \/ frames'[page_table'[q]].data = disk'.pages[q]
                      \/ \E d \in Client : q \in wrote'[d]
    BY DEF CleanPagesAreSaved
  <2>1. CASE q = p
    BY <1>6, <2>1
  <2>2. CASE q # p
    <3>1. /\ q \in Cached /\ q \in Page
          /\ frames'[page_table'[q]] = frames[page_table[q]]
          /\ disk'.pages[q] = disk.pages[q]
      BY <1>2, <1>6, <2>2 DEF PoolInv, PoolTypeOK
    <3> QED
      BY <1>0, <3>1 DEF CleanPagesAreSaved
  <2> QED
    BY <2>1, <2>2
<1> QED
  BY <1>0, <1>2, <1>3, <1>5, <1>6, <1>7, <1>8, IdleFlushKeeps

(* A fetch or a creation that fails after it took a victim, and leaves the *)
(* frame's content alone.                                                  *)
LEMMA LostVictimKeeps ==
  ASSUME IInv, LatchFree, NEW v \in Victims, TakeVictim(v),
         UNCHANGED <<page_table, held, flush, wrote, allocated>>,
         DiskKeeps(disk', allocated),
         \A q \in Cached : disk'.pages[q] = disk.pages[q],
         UNCHANGED frames
  PROVE  IInv'
<1> USE DEF IInv
<1>1. PoolInv'
  BY ContentsKeepPool DEF PoolInv, PoolTypeOK
<1>2. WrittenPagesAreHeld'
  BY DEF WrittenPagesAreHeld, Holds
<1>3. CleanPagesAreSaved'
  BY DEF CleanPagesAreSaved, Cached
<1>4. Cached' = Cached
  BY DEF Cached
<1> QED
  BY <1>1, <1>2, <1>3, <1>4, IdleFlushKeeps

LEMMA FetchFlushFailsKeeps ==
  ASSUME IInv, NEW c \in Client, NEW p \in Page, FetchFlushFails(c, p)
  PROVE  IInv'
<1>1. PICK v \in Victims : TakeVictim(v)
  BY DEF FetchFlushFails
<1> QED
  BY <1>1, LostVictimKeeps DEF FetchFlushFails, MayAskFor, IInv

LEMMA FetchReadFailsKeeps ==
  ASSUME OrderlyUse, IInv, NEW c \in Client, NEW p \in Page,
         FetchReadFails(c, p)
  PROVE  IInv'
<1> USE DEF IInv
<1>0. LatchFree /\ UNCHANGED <<page_table, flush, held, wrote, allocated>>
  BY DEF FetchReadFails, MayAskFor
<1>1. PICK v \in Victims :
        /\ TakeVictim(v)
        /\ disk' = FlushVictim(v, disk)
        /\ \E left \in LeftByRead(disk', p,
                                  [frames[v.frame] EXCEPT !.dirty = FALSE]) :
             frames' = [frames EXCEPT ![v.frame] = left]
  BY DEF FetchReadFails
<1> DEFINE f == v.frame
<1>2. f \in Frame /\ frames[f] \in FrameState
  BY VictimIsIdle DEF PoolInv, PoolTypeOK
<1>3. /\ frames' \in [Frame -> FrameState]
      /\ frames'[f].page = frames[f].page /\ frames'[f].data = frames[f].data
      /\ frames'[f].pin = frames[f].pin /\ ~frames'[f].dirty
      /\ \A g \in Frame \ {f} : frames'[g] = frames[g]
  <2> DEFINE clean == [frames[f] EXCEPT !.dirty = FALSE]
  <2>1. frames' = [frames EXCEPT ![f] = clean]
    BY <1>1 DEF LeftByRead, OrderlyUse
  <2>2. /\ clean \in FrameState /\ ~clean.dirty
        /\ clean.page = frames[f].page /\ clean.data = frames[f].data
        /\ clean.pin = frames[f].pin
    BY <1>2, DirtyField
  <2> HIDE DEF clean, f
  <2> QED
    BY <1>2, <2>1, <2>2 DEF PoolInv, PoolTypeOK
<1>4. PoolInv'
  BY <1>0, <1>1, <1>3, ContentsKeepPool
<1>5. /\ DiskKeeps(disk', allocated)
      /\ \A q \in Page : disk'.pages[q] = disk.pages[q] \/ q = frames[f].page
      /\ IF frames[f].dirty THEN disk'.pages[frames[f].page] = frames[f].data
                            ELSE disk' = disk
  BY <1>1, VictimFlushKeeps
<1>6. WrittenPagesAreHeld'
  BY <1>0 DEF WrittenPagesAreHeld, Holds
<1>7. CleanPagesAreSaved'
  <2> SUFFICES ASSUME NEW q \in Cached, ~frames'[page_table[q]].dirty
               PROVE  \/ frames'[page_table[q]].data = disk'.pages[q]
                      \/ \E d \in Client : q \in wrote[d]
    BY <1>0 DEF CleanPagesAreSaved, Cached
  <2>1. /\ q \in Page /\ page_table[q] \in Frame
        /\ frames[page_table[q]].page = q
    BY DEF PoolInv, PoolTypeOK, PageHasOneFrame, TableLeadsToPage
  <2>2. CASE page_table[q] = f
    BY <1>3, <1>5, <2>1, <2>2 DEF CleanPagesAreSaved
  <2>3. CASE page_table[q] # f
    <3>1. q # frames[f].page
      BY <1>2, <2>1, <2>3, PageIds DEF PoolInv, PageHasOneFrame
    <3> QED
      BY <1>3, <1>5, <2>1, <2>3, <3>1 DEF CleanPagesAreSaved
  <2> QED
    BY <2>2, <2>3
<1>8. Cached' = Cached
  BY <1>0 DEF Cached
<1> QED
  BY <1>0, <1>4, <1>5, <1>6, <1>7, <1>8, IdleFlushKeeps

LEMMA NewPageKeeps ==
  ASSUME OrderlyUse, IInv, NEW c \in Client, NewPage(c)
  PROVE  IInv'
<1> USE DEF IInv
<1>0. LatchFree /\ UNCHANGED flush
  BY DEF NewPage
<1>1. PICK a \in AllocatePage(disk), v \in Victims :
        /\ a.page # INVALID_PAGE_ID
        /\ TakeVictim(v)
        /\ disk' = FlushVictim(v, a.disk)
        /\ Install(v.frame, a.page, Blank)
        /\ GrantPin(c, a.page, v.frame)
        /\ wrote' = [wrote EXCEPT ![c] = @ \cup {a.page}]
        /\ allocated' = allocated \cup {a.page}
  BY DEF NewPage
<1> DEFINE p == a.page
<1>2. /\ DiskKeeps(a.disk, allocated \cup {p})
      /\ p \in Page \ allocated
      /\ Agree(disk, a.disk, allocated)
  BY <1>1, AllocateKeeps
<1>3. /\ DiskKeeps(disk', allocated')
      /\ \A q \in Page : disk'.pages[q] = a.disk.pages[q]
                         \/ q = frames[v.frame].page
  BY <1>1, <1>2, VictimFlushKeeps
<1>4. p \notin Cached /\ Blank \in Content
  BY <1>2, PoolConstants DEF Content
<1>5. PoolInv'
  BY <1>1, <1>2, <1>4, InstallKeepsPool
<1>6. /\ Cached' \subseteq Cached \cup {p}
      /\ p \in Cached'
      /\ \A q \in Cached' \ {p} :
           /\ q \in Cached
           /\ q # frames[v.frame].page
           /\ frames'[page_table'[q]] = frames[page_table[q]]
      /\ held'[c][p] = v.frame
      /\ \A d \in Client, q \in Page :
           held[d][q] # NoFrame => held'[d][q] # NoFrame
  BY <1>1, <1>2, <1>4, InstallFacts
<1>7. v.frame # NoFrame
  BY VictimIsIdle, PageIds
<1>8. /\ wrote' \in [Client -> SUBSET Page]
      /\ wrote'[c] = wrote[c] \cup {p}
      /\ \A d \in Client \ {c} : wrote'[d] = wrote[d]
  BY <1>1, <1>2 DEF WrittenPagesAreHeld
<1>9. WrittenPagesAreHeld'
  BY <1>6, <1>7, <1>8 DEF WrittenPagesAreHeld, Holds
<1>10. CleanPagesAreSaved'
  <2> SUFFICES ASSUME NEW q \in Cached', ~frames'[page_table'[q]].dirty
               PROVE  \/ frames'[page_table'[q]].data = disk'.pages[q]
                      \/ \E d \in Client : q \in wrote'[d]
    BY DEF CleanPagesAreSaved
  <2>1. CASE q = p
    BY <1>8, <2>1
  <2>2. CASE q # p
    <3>1. /\ q \in Cached /\ q \in Page
          /\ frames'[page_table'[q]] = frames[page_table[q]]
          /\ disk'.pages[q] = disk.pages[q]
      <4>1. q \in Cached /\ q \in Page /\ q # frames[v.frame].page
        BY <1>6, <2>2 DEF PoolInv, PoolTypeOK
      <4>2. disk'.pages[q] = a.disk.pages[q]
        BY <1>3, <4>1
      <4>3. a.disk.pages[q] = disk.pages[q]
        BY <1>2, <4>1 DEF Agree
      <4> QED
        BY <1>6, <2>2, <4>1, <4>2, <4>3
    <3> QED
      BY <1>8, <3>1 DEF CleanPagesAreSaved
  <2> QED
    BY <2>1, <2>2
<1>11. Cached' \subseteq allocated'
  BY <1>1, <1>6
<1> QED
  BY <1>0, <1>3, <1>5, <1>9, <1>10, <1>11, IdleFlushKeeps

(* Failing to create a page moves the disk only: the page id it got, if    *)
(* any, is given back.                                                     *)
LEMMA DiskOnlyKeeps ==
  ASSUME IInv, LatchFree,
         UNCHANGED <<frames, page_table, frame_list, evictable, flush, held,
                     wrote, allocated>>,
         DiskKeeps(disk', allocated),
         Agree(disk, disk', allocated)
  PROVE  IInv'
<1> USE DEF IInv, Agree
<1>1. PoolInv'
  BY ContentsKeepPool DEF PoolInv, PoolTypeOK
<1>2. WrittenPagesAreHeld'
  BY DEF WrittenPagesAreHeld, Holds
<1>3. CleanPagesAreSaved'
  BY DEF CleanPagesAreSaved, Cached
<1>4. Cached' = Cached
  BY DEF Cached
<1> QED
  BY <1>1, <1>2, <1>3, <1>4, IdleFlushKeeps

LEMMA RollbackKeeps ==
  ASSUME OrderlyUse, NEW d, NEW A, DiskKeeps(d, A),
         NEW a \in AllocatePage(d), a.page # INVALID_PAGE_ID,
         NEW rollback \in DeallocatePage(a.disk, a.page)
  PROVE  DiskKeeps(rollback.disk, A) /\ Agree(d, rollback.disk, A)
<1> DEFINE B == A \cup {a.page}
<1>1. /\ DiskKeeps(a.disk, A) /\ DiskKeeps(a.disk, B)
      /\ Agree(d, a.disk, A) /\ a.page \notin A
  BY AllocateKeeps
<1>2. a.page \in B /\ B \ {a.page} = A
  BY <1>1
<1> HIDE DEF B
<1>3. /\ rollback.ok \in BOOLEAN
      /\ rollback.ok => DiskKeeps(rollback.disk, B \ {a.page})
      /\ ~rollback.ok => rollback.disk = a.disk
      /\ Agree(a.disk, rollback.disk, B \ {a.page})
  BY <1>1, <1>2, DeallocateKeeps
<1>4. DiskKeeps(rollback.disk, A)
  BY <1>1, <1>2, <1>3
<1>5. Agree(a.disk, rollback.disk, A)
  BY <1>2, <1>3
<1>6. Agree(d, rollback.disk, A)
  BY <1>1, <1>5 DEF Agree
<1> QED
  BY <1>4, <1>6

LEMMA NewPageAllocationFailsKeeps ==
  ASSUME OrderlyUse, IInv, NewPageAllocationFails
  PROVE  IInv'
<1>1. PICK a \in AllocatePage(disk) : disk' = a.disk
  BY DEF NewPageAllocationFails
<1>2. DiskKeeps(disk, allocated)
  BY DEF IInv
<1>3. DiskKeeps(a.disk, allocated) /\ Agree(disk, a.disk, allocated)
  BY <1>2, AllocateKeeps
<1>4. DiskKeeps(disk', allocated) /\ Agree(disk, disk', allocated)
  BY <1>1, <1>3
<1> QED
  BY <1>4, DiskOnlyKeeps DEF NewPageAllocationFails

LEMMA NewPageNoFrameKeeps ==
  ASSUME OrderlyUse, IInv, NewPageNoFrame
  PROVE  IInv'
<1>1. PICK a \in AllocatePage(disk) :
        /\ a.page # INVALID_PAGE_ID
        /\ \E rollback \in DeallocatePage(a.disk, a.page) :
             disk' = rollback.disk
  BY DEF NewPageNoFrame
<1>2. PICK rollback \in DeallocatePage(a.disk, a.page) : disk' = rollback.disk
  BY <1>1
<1>3. DiskKeeps(disk', allocated) /\ Agree(disk, disk', allocated)
  BY <1>1, <1>2, RollbackKeeps DEF IInv
<1> QED
  BY <1>3, DiskOnlyKeeps DEF NewPageNoFrame

LEMMA NewPageFlushFailsKeeps ==
  ASSUME OrderlyUse, IInv, NewPageFlushFails
  PROVE  IInv'
<1>1. PICK a \in AllocatePage(disk), v \in Victims :
        /\ a.page # INVALID_PAGE_ID
        /\ TakeVictim(v)
        /\ \E rollback \in DeallocatePage(a.disk, a.page) :
             disk' = rollback.disk
  BY DEF NewPageFlushFails
<1>2. PICK rollback \in DeallocatePage(a.disk, a.page) : disk' = rollback.disk
  BY <1>1
<1>3. /\ DiskKeeps(disk', allocated)
      /\ Agree(disk, disk', allocated)
  BY <1>1, <1>2, RollbackKeeps DEF IInv
<1>4. \A q \in Cached : disk'.pages[q] = disk.pages[q]
  BY <1>3 DEF IInv, Agree
<1> QED
  BY <1>1, <1>3, <1>4, LostVictimKeeps DEF NewPageFlushFails

LEMMA ChangePageKeeps ==
  ASSUME IInv, NEW c \in Client, NEW p \in Page, NEW u \in Update,
         ChangePage(c, p, u)
  PROVE  IInv'
<1> DEFINE f == held[c][p]
<1> USE DEF IInv
<1>0. /\ f \in Frame /\ p \in Cached /\ page_table[p] = f /\ frames[f].page = p
      /\ frames[f] \in FrameState /\ held[c][p] # NoFrame /\ u \in Content
  BY PoolConstants DEF ChangePage, Holds, PoolInv, PoolTypeOK, PinnedPageStays,
     PageHasOneFrame, TableLeadsToPage, Content
<1>1. /\ frames' \in [Frame -> FrameState]
      /\ frames'[f].page = frames[f].page /\ frames'[f].pin = frames[f].pin
      /\ frames'[f].dirty
      /\ \A g \in Frame \ {f} : frames'[g] = frames[g]
  <2> DEFINE changed == [frames[f] EXCEPT !.data = u, !.dirty = TRUE]
  <2>1. frames' = [frames EXCEPT ![f] = changed]
    BY <1>0 DEF ChangePage, PoolInv, PoolTypeOK
  <2>2. /\ changed \in FrameState /\ changed.dirty = TRUE
        /\ changed.page = frames[f].page /\ changed.pin = frames[f].pin
    BY <1>0, DataField
  <2> HIDE DEF f, changed
  <2> QED
    BY <1>0, <2>1, <2>2 DEF PoolInv, PoolTypeOK
<1>2. /\ wrote' \in [Client -> SUBSET Page]
      /\ wrote'[c] = wrote[c] \cup {p}
      /\ \A d \in Client \ {c} : wrote'[d] = wrote[d]
  BY DEF ChangePage, WrittenPagesAreHeld
<1>3. /\ UNCHANGED <<disk, page_table, frame_list, evictable, flush, held,
                     allocated>>
      /\ Cached' = Cached
  BY DEF ChangePage, Cached
<1>4. PoolInv'
  BY <1>0, <1>1, <1>3, PageIds, ContentsKeepPool
<1>5. WrittenPagesAreHeld'
  BY <1>0, <1>2, <1>3 DEF WrittenPagesAreHeld, Holds
<1>6. \A q \in Cached : q # p => frames'[page_table[q]] = frames[page_table[q]]
  BY <1>0, <1>1 DEF PoolInv, PoolTypeOK, PageHasOneFrame, TableLeadsToPage
<1>7. \A q \in Cached : PageIsSaved(q) => PageIsSaved(q)'
  BY <1>2, <1>3, <1>6 DEF PageIsSaved
<1>8. FlushIsTracked'
  BY <1>3, <1>7 DEF FlushIsTracked, LatchFree
<1>9. CleanPagesAreSaved'
  <2> SUFFICES ASSUME NEW q \in Cached, ~frames'[page_table[q]].dirty
               PROVE  PageIsSaved(q)'
    BY <1>3 DEF CleanPagesAreSaved, PageIsSaved
  <2>1. q # p
    BY <1>0, <1>1
  <2> QED
    BY <1>6, <1>7, <2>1 DEF CleanPagesAreSaved, PageIsSaved
<1> QED
  BY <1>3, <1>4, <1>5, <1>8, <1>9

LEMMA UnpinPageKeeps ==
  ASSUME IInv, NEW c \in Client, NEW p \in Page, NEW is_dirty \in BOOLEAN,
         UnpinPage(c, p, is_dirty)
  PROVE  IInv'
<1> DEFINE f == page_table[p]
<1> USE DEF IInv
<1>0. /\ LatchFree /\ p \in Cached /\ held[c][p] = f /\ f \in Frame
      /\ frames[f].page = p /\ frames[f] \in FrameState
      /\ frames[f].pin > 0 /\ (p \in wrote[c] => is_dirty)
  BY DEF UnpinPage, Holds, PoolInv, PoolTypeOK, PinnedPageStays,
     PageHasOneFrame, TableLeadsToPage
<1>1. /\ frames' \in [Frame -> FrameState]
      /\ frames'[f].page = p /\ frames'[f].data = frames[f].data
      /\ frames'[f].pin = frames[f].pin - 1
      /\ frames'[f].dirty = (frames[f].dirty \/ is_dirty)
      /\ \A g \in Frame \ {f} : frames'[g] = frames[g]
  <2> DEFINE b == frames[f].dirty \/ is_dirty
             n == frames[f].pin - 1
             released == [frames[f] EXCEPT !.dirty = b, !.pin = n]
  <2>1. frames' = [frames EXCEPT ![f] = released]
    BY <1>0 DEF UnpinPage, PoolInv, PoolTypeOK
  <2>2. n \in Nat /\ b \in BOOLEAN
    BY <1>0 DEF FrameState
  <2> HIDE DEF b, n
  <2>3. /\ released \in FrameState
        /\ released.dirty = b /\ released.pin = n
        /\ released.page = frames[f].page /\ released.data = frames[f].data
    BY <1>0, <2>2 DEF FrameState
  <2> HIDE DEF f, released
  <2>4. /\ frames' \in [Frame -> FrameState]
        /\ frames'[f] = released
        /\ \A g \in Frame \ {f} : frames'[g] = frames[g]
    BY <1>0, <2>1, <2>3 DEF PoolInv, PoolTypeOK
  <2> QED
    BY <1>0, <2>3, <2>4 DEF b, n
<1>2. /\ wrote' \in [Client -> SUBSET Page]
      /\ wrote'[c] = wrote[c] \ {p}
      /\ \A d \in Client \ {c} : wrote'[d] = wrote[d]
  BY DEF UnpinPage, WrittenPagesAreHeld
<1>3. /\ held' \in [Client -> [Page -> Frame \cup {NoFrame}]]
      /\ held'[c][p] = NoFrame
      /\ \A d \in Client, q \in Page :
           d # c \/ q # p => held'[d][q] = held[d][q]
  BY DEF UnpinPage, PoolInv, PoolTypeOK
<1>4. /\ UNCHANGED <<disk, page_table, frame_list, flush, allocated>>
      /\ Cached' = Cached
      /\ evictable' = IF frames[f].pin = 1 THEN evictable \cup {f} ELSE evictable
  BY DEF UnpinPage, Cached
<1>5. PoolInv'
  <2> USE DEF PoolInv, PoolTypeOK
  <2>1. PoolTypeOK'
    BY <1>0, <1>1, <1>3, <1>4
  <2>2. PageHasOneFrame'
    BY <1>0, <1>1, <1>4 DEF PageHasOneFrame, TableLeadsToPage
  <2>3. PinnedPageStays'
    BY <1>3, <1>4 DEF PinnedPageStays, Holds
  <2>4. PinsCountHolders'
    <3> SUFFICES ASSUME NEW g \in Frame
                 PROVE  frames'[g].pin = Cardinality(Holders(g)')
      BY DEF PinsCountHolders, Holders
    <3>1. frames[g].pin = Cardinality(Holders(g)) /\ IsFiniteSet(Holders(g))
      <4>1. Holders(g) \subseteq Client
        BY DEF Holders
      <4> QED
        BY <4>1, PoolConstants, FS_Subset DEF PinsCountHolders, Holders
    <3>2. CASE g = f
      <4>1. \A q \in Page : held[c][q] = f => q = p
        BY <1>0, PageIds
           DEF PinnedPageStays, PageHasOneFrame, TableLeadsToPage, Holds
      <4>2. Holders(g)' = Holders(g) \ {c}
        <5>1. \A q \in Page : held'[c][q] # f
          BY <1>0, <1>3, <4>1, PageIds
        <5>2. \A d \in Client \ {c}, q \in Page : held'[d][q] = held[d][q]
          BY <1>3
        <5> QED
          BY <3>2, <5>1, <5>2 DEF Holders
      <4>3. c \in Holders(g)
        BY <1>0, <3>2 DEF Holders
      <4>4. Cardinality(Holders(g) \ {c}) = Cardinality(Holders(g)) - 1
        BY <3>1, <4>3, FS_RemoveElement
      <4>5. frames'[g].pin = frames[g].pin - 1
        BY <1>1, <3>2
      <4> QED
        BY <3>1, <4>2, <4>4, <4>5
    <3>3. CASE g # f
      <4>1. \A d \in Client, q \in Page : held'[d][q] = g <=> held[d][q] = g
        <5>1. g # NoFrame /\ held'[c][p] # g /\ held[c][p] # g
          BY <1>0, <1>3, <3>3, PageIds
        <5> QED
          BY <1>3, <5>1
      <4>2. Holders(g)' = Holders(g)
        BY <4>1 DEF Holders
      <4>3. frames'[g] = frames[g]
        BY <1>1, <3>3
      <4> QED
        BY <3>1, <4>2, <4>3
    <3> QED
      BY <3>2, <3>3
  <2>5. OfferedFramesAreIdle'
    <3>1. \A i \in 1 .. Len(frame_list) : frame_list[i] \in Frame \ {f}
      BY <1>0, PageIds DEF OfferedFramesAreIdle
    <3>2. \A g \in evictable : g # f
      BY <1>0 DEF OfferedFramesAreIdle
    <3>3. \A g \in evictable' :
            frames'[g].pin = 0 /\ frames'[g].page # INVALID_PAGE_ID
      BY <1>0, <1>1, <1>4, <3>2, PageIds DEF OfferedFramesAreIdle
    <3> QED
      BY <1>1, <1>4, <3>1, <3>3 DEF OfferedFramesAreIdle
  <2> QED
    BY <2>1, <2>2, <2>3, <2>4, <2>5
<1>6. WrittenPagesAreHeld'
  BY <1>2, <1>3 DEF WrittenPagesAreHeld, Holds
<1>7. CleanPagesAreSaved'
  <2> SUFFICES ASSUME NEW q \in Cached, ~frames'[page_table[q]].dirty
               PROVE  \/ frames'[page_table[q]].data = disk.pages[q]
                      \/ \E d \in Client : q \in wrote'[d]
    BY <1>4 DEF CleanPagesAreSaved
  <2>1. CASE q = p
    BY <1>0, <1>1, <1>2, <2>1 DEF CleanPagesAreSaved
  <2>2. CASE q # p
    <3>1. frames'[page_table[q]] = frames[page_table[q]]
      BY <1>0, <1>1, <2>2 DEF PoolInv, PoolTypeOK, PageHasOneFrame, TableLeadsToPage
    <3> QED
      BY <1>2, <2>2, <3>1 DEF CleanPagesAreSaved
  <2> QED
    BY <2>1, <2>2
<1> QED
  BY <1>0, <1>4, <1>5, <1>6, <1>7, IdleFlushKeeps

(* Deleting a cached page empties its frame and gives it back. *)
LEMMA DeletePageKeeps ==
  ASSUME OrderlyUse, IInv, NEW p \in Page, DeletePage(p)
  PROVE  IInv'
<1> USE DEF IInv
<1>0. /\ LatchFree /\ p \in allocated
      /\ p \in Cached => frames[page_table[p]].pin = 0
      /\ UNCHANGED <<flush, held, wrote>>
  BY DEF DeletePage
<1>1. PICK r \in DeallocatePage(disk, p) :
        /\ disk' = r.disk
        /\ allocated' = IF r.ok THEN allocated \ {p} ELSE allocated
        /\ IF r.ok /\ p \in Cached
           THEN /\ page_table' = [q \in Cached \ {p} |-> page_table[q]]
                /\ frames' = [frames EXCEPT ![page_table[p]] =
                                [@ EXCEPT !.page = INVALID_PAGE_ID, !.pin = 0,
                                          !.dirty = FALSE]]
                /\ frame_list' = Append(frame_list, page_table[p])
                /\ evictable' = evictable \ {page_table[p]}
           ELSE UNCHANGED <<page_table, frames, frame_list, evictable>>
  BY DEF DeletePage, Deallocate
<1>2. /\ r.ok \in BOOLEAN
      /\ r.ok => DiskKeeps(r.disk, allocated \ {p})
      /\ ~r.ok => r.disk = disk
      /\ Agree(disk, r.disk, allocated \ {p})
  BY <1>0, DeallocateKeeps
<1>3. /\ DiskKeeps(disk', allocated')
      /\ \A q \in Cached \ {p} : disk'.pages[q] = disk.pages[q]
  BY <1>1, <1>2 DEF Agree
<1>4. CASE ~(r.ok /\ p \in Cached)
  <2>1. UNCHANGED <<page_table, frames, frame_list, evictable>> /\ Cached' = Cached
    BY <1>1, <1>4 DEF Cached
  <2>2. PoolInv'
    BY <1>0, <2>1, ContentsKeepPool DEF PoolInv, PoolTypeOK
  <2>3. Cached \subseteq allocated'
    BY <1>1, <1>4
  <2>4. \A q \in Cached : disk'.pages[q] = disk.pages[q]
    BY <1>1, <1>2, <1>3, <1>4
  <2>5. WrittenPagesAreHeld'
    BY <1>0 DEF WrittenPagesAreHeld, Holds
  <2>6. CleanPagesAreSaved'
    BY <1>0, <2>1, <2>4 DEF CleanPagesAreSaved
  <2> QED
    BY <1>0, <1>3, <2>1, <2>2, <2>3, <2>5, <2>6, IdleFlushKeeps
<1>5. CASE r.ok /\ p \in Cached
  <2> DEFINE f == page_table[p]
             empty == [frames[f] EXCEPT !.page = INVALID_PAGE_ID, !.pin = 0,
                                        !.dirty = FALSE]
  <2>1. /\ f \in Frame /\ frames[f] \in FrameState
        /\ frames[f].page = p /\ frames[f].pin = 0
    BY <1>0, <1>5 DEF PoolInv, PoolTypeOK, PageHasOneFrame, TableLeadsToPage
  <2>2. /\ empty \in FrameState /\ ~empty.dirty /\ empty.pin = 0
        /\ empty.page = INVALID_PAGE_ID
    BY <2>1 DEF FrameState
  <2>3. /\ page_table' = [q \in Cached \ {p} |-> page_table[q]]
        /\ frames' = [frames EXCEPT ![f] = empty]
        /\ frame_list' = Append(frame_list, f)
        /\ evictable' = evictable \ {f}
    BY <1>1, <1>5
  <2> HIDE DEF empty, f
  <2>4. /\ frames' \in [Frame -> FrameState]
        /\ frames'[f] = empty
        /\ \A g \in Frame \ {f} : frames'[g] = frames[g]
    BY <2>1, <2>2, <2>3 DEF PoolInv, PoolTypeOK
  <2>5. /\ Cached' = Cached \ {p}
        /\ \A q \in Cached' : page_table'[q] = page_table[q]
    BY <2>3 DEF Cached
  <2>6. \A q \in Cached' : page_table[q] \in Frame \ {f}
    BY <2>1, <2>5 DEF PoolInv, PoolTypeOK, PageHasOneFrame, TableLeadsToPage
  <2>7. \A d \in Client, q \in Page : held[d][q] # f
    BY <2>1, NobodyHolds DEF PoolInv
  <2>8. PoolInv'
    <3> USE DEF PoolInv, PoolTypeOK
    <3>1. PoolTypeOK'
      BY <1>0, <2>1, <2>3, <2>4, <2>5, <2>6
    <3>2. PageHasOneFrame'
      <4>1. \A q \in Cached' : frames'[page_table'[q]].page = q
        BY <2>4, <2>5, <2>6 DEF PageHasOneFrame, TableLeadsToPage
      <4>2. ASSUME NEW g \in Frame, frames'[g].page # INVALID_PAGE_ID
            PROVE  frames'[g].page \in Cached' /\ page_table'[frames'[g].page] = g
        <5>1. g # f /\ frames'[g] = frames[g]
          BY <2>2, <2>4, <4>2
        <5>2. frames[g].page \in Cached /\ page_table[frames[g].page] = g
          BY <4>2, <5>1 DEF PageHasOneFrame
        <5>3. frames[g].page # p
          BY <5>1, <5>2 DEF f
        <5> QED
          BY <2>5, <5>1, <5>2, <5>3
      <4> QED
        BY <4>1, <4>2 DEF PageHasOneFrame, TableLeadsToPage
    <3>3. PinnedPageStays'
      <4> SUFFICES ASSUME NEW d \in Client, NEW q \in Page, held[d][q] # NoFrame
                   PROVE  q \in Cached' /\ page_table'[q] = held[d][q]
        BY <1>0 DEF PinnedPageStays, Holds
      <4>1. q \in Cached /\ page_table[q] = held[d][q]
        BY DEF PinnedPageStays, Holds
      <4>2. q # p
        BY <2>7, <4>1 DEF f
      <4> QED
        BY <2>5, <4>1, <4>2
    <3>4. PinsCountHolders'
      <4> SUFFICES ASSUME NEW g \in Frame
                   PROVE  frames'[g].pin = Cardinality(Holders(g)')
        BY DEF PinsCountHolders, Holders
      <4>1. Holders(g)' = Holders(g)
        BY <1>0 DEF Holders
      <4>2. frames'[g].pin = frames[g].pin
        BY <2>1, <2>2, <2>4
      <4>3. frames[g].pin = Cardinality(Holders(g))
        BY DEF PinsCountHolders, Holders
      <4> QED
        BY <4>1, <4>2, <4>3
    <3>5. OfferedFramesAreIdle'
      <4> DEFINE n == Len(frame_list)
      <4>1. \A i \in 1 .. n : frame_list[i] \in Frame \ {f}
        BY <2>1, PageIds DEF OfferedFramesAreIdle
      <4>2. /\ n \in Nat /\ Len(frame_list') = n + 1
            /\ \A i \in 1 .. n : frame_list'[i] = frame_list[i]
            /\ frame_list'[n + 1] = f
        BY <2>1, <2>3
      <4>3. ASSUME NEW i \in 1 .. n + 1
            PROVE  /\ frames'[frame_list'[i]].page = INVALID_PAGE_ID
                   /\ frames'[frame_list'[i]].pin = 0
                   /\ ~frames'[frame_list'[i]].dirty
        <5>1. CASE i = n + 1
          BY <2>2, <2>4, <4>2, <5>1
        <5>2. CASE i \in 1 .. n
          BY <2>4, <4>1, <4>2, <5>2 DEF OfferedFramesAreIdle
        <5> QED
          BY <4>2, <5>1, <5>2
      <4>4. ASSUME NEW i \in 1 .. n + 1, NEW j \in 1 .. n + 1,
                   frame_list'[i] = frame_list'[j]
            PROVE  i = j
        <5>1. CASE i \in 1 .. n /\ j \in 1 .. n
          BY <4>2, <4>4, <5>1 DEF OfferedFramesAreIdle
        <5>2. CASE i = n + 1 \/ j = n + 1
          BY <4>1, <4>2, <4>4, <5>2
        <5> QED
          BY <4>2, <5>1, <5>2
      <4>5. \A g \in evictable' :
              frames'[g].pin = 0 /\ frames'[g].page # INVALID_PAGE_ID
        BY <2>3, <2>4 DEF OfferedFramesAreIdle
      <4> QED
        BY <4>2, <4>3, <4>4, <4>5 DEF OfferedFramesAreIdle
    <3> QED
      BY <3>1, <3>2, <3>3, <3>4, <3>5
  <2>9. Cached' \subseteq allocated'
    BY <1>1, <1>5, <2>5
  <2>10. WrittenPagesAreHeld'
    BY <1>0 DEF WrittenPagesAreHeld, Holds
  <2>11. CleanPagesAreSaved'
    <3> SUFFICES ASSUME NEW q \in Cached', ~frames'[page_table'[q]].dirty
                 PROVE  \/ frames'[page_table'[q]].data = disk'.pages[q]
                        \/ \E d \in Client : q \in wrote'[d]
      BY DEF CleanPagesAreSaved
    <3>1. /\ q \in Cached /\ frames'[page_table'[q]] = frames[page_table[q]]
          /\ disk'.pages[q] = disk.pages[q]
      BY <1>3, <2>4, <2>5, <2>6
    <3> QED
      BY <1>0, <3>1 DEF CleanPagesAreSaved
  <2> QED
    BY <1>0, <1>3, <2>8, <2>9, <2>10, <2>11, IdleFlushKeeps
<1> QED
  BY <1>4, <1>5

-------------------------------------------------------------------------------
(* A flush that has written page p: the file has what p's frame has. *)
LEMMA SavePageKeeps ==
  ASSUME IInv, NEW p \in Cached, SavePage(p),
         UNCHANGED <<frames, page_table, frame_list, evictable, held, wrote,
                     allocated>>
  PROVE  /\ DiskKeeps(disk', allocated')
         /\ (Cached \subseteq allocated)'
         /\ PoolInv'
         /\ WrittenPagesAreHeld'
         /\ CleanPagesAreSaved'
         /\ PageIsSaved(p)'
         /\ \A q \in Cached : PageIsSaved(q) => PageIsSaved(q)'
         /\ Cached' = Cached
<1> DEFINE f == page_table[p]
<1> USE DEF IInv
<1>1. /\ p \in allocated /\ f \in Frame /\ frames[f].page = p
      /\ frames[f].data \in Content
  BY DEF PoolInv, PoolTypeOK, PageHasOneFrame, TableLeadsToPage, FrameState
<1>2. disk' = Write(disk, p, frames[f].data)
  BY <1>1 DEF SavePage
<1>3. /\ DiskKeeps(disk', allocated)
      /\ disk'.pages[p] = frames[f].data
      /\ \A q \in Page \ {p} : disk'.pages[q] = disk.pages[q]
  BY <1>1, <1>2, WriteKeeps
<1>4. Cached' = Cached /\ Cached \subseteq Page
  BY DEF Cached, PoolInv, PoolTypeOK
<1>5. PoolInv'
  BY <1>4, ContentsKeepPool DEF PoolInv, PoolTypeOK
<1>6. WrittenPagesAreHeld'
  BY DEF WrittenPagesAreHeld, Holds
<1>7. PageIsSaved(p)'
  BY <1>3 DEF PageIsSaved
<1>8. \A q \in Cached : PageIsSaved(q) => PageIsSaved(q)'
  BY <1>3, <1>4, <1>7 DEF PageIsSaved
<1>9. CleanPagesAreSaved'
  BY <1>4, <1>8 DEF CleanPagesAreSaved, PageIsSaved
<1> QED
  BY <1>3, <1>4, <1>5, <1>6, <1>7, <1>8, <1>9

(* A step that changes the flush alone. *)
LEMMA FlushOnlyKeeps ==
  ASSUME IInv, FlushIsTracked',
         UNCHANGED <<disk, frames, page_table, frame_list, evictable, held,
                     wrote, allocated>>
  PROVE  IInv'
<1> USE DEF IInv
<1>1. PoolInv'
  BY ContentsKeepPool DEF PoolInv, PoolTypeOK
<1>2. WrittenPagesAreHeld' /\ CleanPagesAreSaved' /\ Cached' = Cached
  BY DEF WrittenPagesAreHeld, Holds, CleanPagesAreSaved, Cached
<1> QED
  BY <1>1, <1>2

LEMMA FlushPageKeeps ==
  ASSUME IInv, NEW p \in Page, FlushPage(p)
  PROVE  IInv'
<1>1. /\ p \in Cached /\ SavePage(p)
      /\ UNCHANGED <<frames, page_table, frame_list, evictable, held, wrote,
                     allocated>>
      /\ flush' = [op |-> "page", todo |-> {}, written |-> p]
  BY DEF FlushPage
<1>2. flush' \in Flush /\ ~LatchFree' /\ flush'.op # "all"
  BY <1>1 DEF Flush, LatchFree
<1>3. PageIsSaved(p)' /\ Cached' = Cached
  BY <1>1, SavePageKeeps
<1>4. FlushIsTracked'
  BY <1>1, <1>2, <1>3 DEF FlushIsTracked
<1> QED
  BY <1>1, <1>4, SavePageKeeps DEF IInv

LEMMA FlushAllPagesKeeps ==
  ASSUME IInv, FlushAllPages
  PROVE  IInv'
<1>1. flush' \in Flush /\ ~LatchFree' /\ flush'.todo = Cached
      /\ flush'.written = INVALID_PAGE_ID /\ Cached' = Cached
  BY DEF FlushAllPages, Flush, LatchFree, IInv, PoolInv, PoolTypeOK, Cached
<1>2. FlushIsTracked'
  BY <1>1 DEF FlushIsTracked
<1> QED
  BY <1>2, FlushOnlyKeeps DEF FlushAllPages

LEMMA FlushNextKeeps ==
  ASSUME IInv, NEW p \in Page, FlushNext(p)
  PROVE  IInv'
<1>0. /\ p \in flush.todo /\ p \in Cached /\ flush \in Flush
      /\ flush.written = INVALID_PAGE_ID
      /\ UNCHANGED <<frames, page_table, frame_list, evictable, held, wrote,
                     allocated>>
      /\ Cached' = Cached /\ flush.todo \subseteq Cached
  BY DEF FlushNext, IInv, FlushIsTracked, Cached
<1>1. /\ ~LatchFree
      /\ flush.op = "all" => \A q \in Cached \ flush.todo : PageIsSaved(q)
  BY <1>0 DEF IInv, FlushIsTracked, NoFlush
<1>2. CASE SavePage(p) /\ flush' = [flush EXCEPT !.todo = @ \ {p}, !.written = p]
  <2>1. /\ flush' \in Flush /\ flush'.written = p /\ flush'.op = flush.op
        /\ flush'.todo = flush.todo \ {p}
    BY <1>0, <1>2 DEF Flush
  <2>2. FlushIsTracked'
    <3>1. PageIsSaved(p)' /\ \A q \in Cached : PageIsSaved(q) => PageIsSaved(q)'
      BY <1>0, <1>2, SavePageKeeps
    <3> QED
      BY <1>0, <1>1, <2>1, <3>1 DEF FlushIsTracked, LatchFree
  <2> QED
    BY <1>0, <1>2, <2>2, SavePageKeeps DEF IInv
<1>3. CASE flush' = NoFlush /\ UNCHANGED disk
  <2>1. FlushIsTracked'
    BY <1>3 DEF FlushIsTracked, NoFlush, Flush
  <2> QED
    BY <1>0, <1>3, <2>1, FlushOnlyKeeps
<1>4. CASE /\ ~frames[page_table[p]].dirty
           /\ flush' = [flush EXCEPT !.todo = @ \ {p}]
           /\ UNCHANGED disk
  <2>1. /\ flush' \in Flush /\ flush'.written = INVALID_PAGE_ID
        /\ flush'.op = flush.op /\ flush'.todo = flush.todo \ {p}
    BY <1>0, <1>4 DEF Flush
  <2>2. PageIsSaved(p) /\ \A q \in Cached : PageIsSaved(q) => PageIsSaved(q)'
    BY <1>0, <1>4 DEF IInv, CleanPagesAreSaved, PageIsSaved
  <2>3. FlushIsTracked'
    BY <1>0, <1>1, <2>1, <2>2 DEF FlushIsTracked, LatchFree
  <2> QED
    BY <1>0, <1>4, <2>3, FlushOnlyKeeps
<1> QED
  BY <1>2, <1>3, <1>4 DEF FlushNext

(* The flag is cleared although a client may have changed the page since   *)
(* it was written; that client is still to release it as changed.          *)
LEMMA ClearDirtyKeeps ==
  ASSUME IInv, ClearDirty
  PROVE  IInv'
<1> DEFINE p == flush.written
           f == page_table[p]
<1> USE DEF IInv
<1>0. /\ p \in Cached /\ PageIsSaved(p) /\ f \in Frame /\ frames[f].page = p
      /\ frames[f] \in FrameState /\ flush \in Flush
      /\ UNCHANGED <<disk, page_table, frame_list, evictable, held, wrote,
                     allocated>>
      /\ Cached' = Cached
  BY DEF ClearDirty, FlushIsTracked, PoolInv, PoolTypeOK, PageHasOneFrame,
     TableLeadsToPage, Cached
<1>1. /\ frames' \in [Frame -> FrameState]
      /\ frames'[f].page = frames[f].page /\ frames'[f].pin = frames[f].pin
      /\ frames'[f].data = frames[f].data /\ ~frames'[f].dirty
      /\ \A g \in Frame \ {f} : frames'[g] = frames[g]
  <2> DEFINE clean == [frames[f] EXCEPT !.dirty = FALSE]
  <2>1. frames' = [frames EXCEPT ![f] = clean]
    BY <1>0 DEF ClearDirty, PoolInv, PoolTypeOK
  <2>2. /\ clean \in FrameState /\ clean.page = frames[f].page
        /\ clean.pin = frames[f].pin /\ clean.data = frames[f].data
        /\ ~clean.dirty
    BY <1>0 DEF FrameState
  <2> HIDE DEF f, clean
  <2> QED
    BY <1>0, <2>1, <2>2 DEF PoolInv, PoolTypeOK
<1>2. PoolInv'
  <2>1. \A g \in Frame : /\ frames'[g].page = frames[g].page
                         /\ frames'[g].pin = frames[g].pin
                         /\ frames'[g].dirty => frames[g].dirty
    BY <1>1
  <2> QED
    BY <1>0, <1>1, <2>1, ContentsKeepPool
<1>3. WrittenPagesAreHeld'
  BY <1>0 DEF WrittenPagesAreHeld, Holds
<1>4. \A q \in Cached : frames'[page_table[q]].data = frames[page_table[q]].data
  BY <1>0, <1>1 DEF PoolInv, PoolTypeOK
<1>5. \A q \in Cached : PageIsSaved(q) => PageIsSaved(q)'
  BY <1>0, <1>4 DEF PageIsSaved
<1>6. CleanPagesAreSaved'
  <2> SUFFICES ASSUME NEW q \in Cached, ~frames'[page_table[q]].dirty
               PROVE  PageIsSaved(q)
    BY <1>0, <1>5 DEF CleanPagesAreSaved, PageIsSaved
  <2>1. CASE q = p
    BY <1>0, <2>1
  <2>2. CASE q # p
    <3>1. page_table[q] \in Frame \ {f}
      BY <1>0, <2>2 DEF PoolInv, PoolTypeOK, PageHasOneFrame, TableLeadsToPage
    <3> QED
      BY <1>1, <3>1 DEF CleanPagesAreSaved, PageIsSaved
  <2> QED
    BY <2>1, <2>2
<1>7. FlushIsTracked'
  <2>1. /\ flush' \in Flush /\ flush'.written = INVALID_PAGE_ID
        /\ flush'.op = flush.op /\ flush'.todo = flush.todo
    BY <1>0 DEF ClearDirty, Flush
  <2>2. ~LatchFree
    BY DEF ClearDirty, FlushIsTracked, NoFlush
  <2> QED
    BY <1>0, <1>5, <2>1, <2>2 DEF FlushIsTracked, LatchFree
<1> QED
  BY <1>0, <1>2, <1>3, <1>6, <1>7

LEMMA FlushReturnsKeeps ==
  ASSUME IInv, FlushReturns
  PROVE  IInv'
<1>1. FlushIsTracked'
  BY DEF FlushReturns, FlushIsTracked, NoFlush, Flush
<1> QED
  BY <1>1, FlushOnlyKeeps DEF FlushReturns

-------------------------------------------------------------------------------
(* The pool as its constructor leaves it satisfies the invariant, whatever *)
(* the file holds. *)
EmptyState ==
  /\ frames = EmptyPool
  /\ page_table = NoMapping
  /\ frame_list = AllFrames
  /\ evictable = {}
  /\ flush = NoFlush
  /\ held = NothingHeld
  /\ wrote = NothingWritten

LEMMA EmptyStateIsFine ==
  EmptyState => /\ PoolInv
                /\ WrittenPagesAreHeld
                /\ FlushIsTracked
                /\ CleanPagesAreSaved
                /\ Cached = {}
<1> SUFFICES ASSUME EmptyState
             PROVE  /\ PoolInv
                    /\ WrittenPagesAreHeld
                    /\ FlushIsTracked
                    /\ CleanPagesAreSaved
                    /\ Cached = {}
  OBVIOUS
<1> USE DEF EmptyState
<1>1. Cached = {}
  BY DEF Cached, NoMapping
<1>2. /\ frames \in [Frame -> FrameState]
      /\ \A f \in Frame : /\ frames[f].page = INVALID_PAGE_ID
                          /\ frames[f].pin = 0
                          /\ ~frames[f].dirty
  <2>1. EmptyFrame \in FrameState
    BY DiskConstants DEF EmptyFrame, FrameState, Content
  <2> QED
    BY <2>1 DEF EmptyPool, EmptyFrame
<1>3. /\ held \in [Client -> [Page -> Frame \cup {NoFrame}]]
      /\ \A c \in Client, p \in Page : held[c][p] = NoFrame
  BY DEF NothingHeld
<1>4. /\ frame_list \in Seq(Frame) /\ Len(frame_list) = PoolSize
      /\ \A i \in 1 .. PoolSize : frame_list[i] = i - 1
  BY PoolConstants DEF AllFrames, Frame
<1>5. PoolTypeOK
  <2>1. page_table \in [Cached -> Frame]
    BY <1>1 DEF NoMapping
  <2> QED
    BY <1>1, <1>2, <1>3, <1>4, <2>1 DEF PoolTypeOK
<1>6. PageHasOneFrame /\ PinnedPageStays /\ CleanPagesAreSaved
  BY <1>1, <1>2, <1>3 DEF PageHasOneFrame, TableLeadsToPage, PinnedPageStays,
     Holds, CleanPagesAreSaved
<1>7. PinsCountHolders
  <2> SUFFICES ASSUME NEW f \in Frame
               PROVE  frames[f].pin = Cardinality(Holders(f))
    BY DEF PinsCountHolders, Holders
  <2>1. Holders(f) = {}
    BY <1>3, PageIds DEF Holders
  <2> QED
    BY <1>2, <2>1, FS_EmptySet
<1>8. OfferedFramesAreIdle
  <2>1. \A i \in 1 .. Len(frame_list) : frame_list[i] \in Frame
    BY <1>4
  <2>2. \A i, j \in 1 .. Len(frame_list) : frame_list[i] = frame_list[j] => i = j
    BY <1>4, PoolConstants
  <2> QED
    BY <1>2, <2>1, <2>2 DEF OfferedFramesAreIdle
<1>9. WrittenPagesAreHeld /\ FlushIsTracked
  BY <1>1 DEF WrittenPagesAreHeld, NothingWritten, FlushIsTracked, NoFlush,
     Flush, LatchFree
<1> QED
  BY <1>1, <1>5, <1>6, <1>7, <1>8, <1>9 DEF PoolInv

(* Opening the file again finds in the header what was in memory. *)
LEMMA ReopenKeeps ==
  ASSUME NEW d, NEW A, DiskKeeps(d, A)
  PROVE  DiskKeeps(Reopen(d), A)
<1> DEFINE e == Reopen(d)
<1>1. d \in Disk /\ d.size = d.next /\ d.header.next = d.next /\ ~(d.next < 1)
  BY DEF DiskKeeps, Disk
<1>2. INVALID_PAGE_ID \in PageRef
  BY PageIds
<1>3. e \in Disk
  BY <1>1, <1>2 DEF Reopen, Disk, Header
<1>4. /\ e.pages = d.pages /\ e.size = d.size /\ e.header = d.header
      /\ e.next = d.next /\ e.free = d.free
  BY <1>1 DEF Reopen, Disk, DiskKeeps
<1> HIDE DEF e
<1>5. \A F : IsFreeList(d, F) => IsFreeList(e, F)
  BY <1>4 DEF IsFreeList
<1>6. DiskKeeps(e, A)
  BY <1>3, <1>4, <1>5 DEF DiskKeeps
<1> QED
  BY <1>6 DEF e

LEMMA RestartKeeps ==
  ASSUME IInv, Restart
  PROVE  IInv'
<1>1. EmptyState'
  BY DEF Restart, EmptyState
<1>2. DiskKeeps(disk', allocated')
  BY ReopenKeeps DEF Restart, IInv
<1>3. /\ PoolInv' /\ WrittenPagesAreHeld' /\ FlushIsTracked'
      /\ CleanPagesAreSaved' /\ (Cached = {})'
  BY <1>1, EmptyStateIsFine, PTL
<1> QED
  BY <1>2, <1>3 DEF IInv

LEMMA InitHolds == Init => IInv
<1> SUFFICES ASSUME Init PROVE IInv
  OBVIOUS
<1>1. EmptyState
  BY DEF Init, EmptyState
<1>2. NewFile \in Disk
  BY DiskConstants, PageIds
     DEF NewFile, Disk, Header, Content, PageRef, MagicAsPage, INVALID_PAGE_ID
<1>3. IsFreeList(NewFile, {})
  BY DEF IsFreeList, NewFile
<1>4. DiskKeeps(NewFile, {})
  BY <1>2, <1>3 DEF DiskKeeps, NewFile
<1> QED
  BY <1>1, <1>4, EmptyStateIsFine DEF Init, IInv

LEMMA StutterKeeps ==
  ASSUME IInv, UNCHANGED vars
  PROVE  IInv'
<1>1. FlushIsTracked'
  BY DEF vars, IInv, FlushIsTracked, PageIsSaved, LatchFree, Cached
<1> QED
  BY <1>1, FlushOnlyKeeps DEF vars

(* Every step of the pool and its clients keeps the invariant. *)
LEMMA StepKeeps ==
  ASSUME OrderlyUse, IInv, [Next]_vars
  PROVE  IInv'
<1>1. CASE UNCHANGED vars
  BY <1>1, StutterKeeps
<1>2. ASSUME NEW c \in Client, NEW p \in Page, FetchHit(c, p) PROVE IInv'
  BY <1>2, FetchHitKeeps
<1>3. ASSUME NEW c \in Client, NEW p \in Page, FetchMiss(c, p) PROVE IInv'
  BY <1>3, FetchMissKeeps
<1>4. ASSUME NEW c \in Client, NEW p \in Page, FetchFlushFails(c, p) PROVE IInv'
  BY <1>4, FetchFlushFailsKeeps
<1>5. ASSUME NEW c \in Client, NEW p \in Page, FetchReadFails(c, p) PROVE IInv'
  BY <1>5, FetchReadFailsKeeps
<1>6. ASSUME NEW c \in Client, NEW p \in Page, NEW u \in Update,
             ChangePage(c, p, u)
      PROVE  IInv'
  BY <1>6, ChangePageKeeps
<1>7. ASSUME NEW c \in Client, NEW p \in Page, NEW is_dirty \in BOOLEAN,
             UnpinPage(c, p, is_dirty)
      PROVE  IInv'
  BY <1>7, UnpinPageKeeps
<1>8. ASSUME NEW c \in Client, NewPage(c) PROVE IInv'
  BY <1>8, NewPageKeeps
<1>9. ASSUME \/ NewPageAllocationFails \/ NewPageNoFrame \/ NewPageFlushFails
      PROVE  IInv'
  BY <1>9, NewPageAllocationFailsKeeps, NewPageNoFrameKeeps,
     NewPageFlushFailsKeeps
<1>10. ASSUME NEW p \in Page, DeletePage(p) PROVE IInv'
  BY <1>10, DeletePageKeeps
<1>11. ASSUME NEW p \in Page, FlushPage(p) \/ FlushNext(p) PROVE IInv'
  BY <1>11, FlushPageKeeps, FlushNextKeeps
<1>12. ASSUME FlushAllPages \/ ClearDirty \/ FlushReturns PROVE IInv'
  BY <1>12, FlushAllPagesKeeps, ClearDirtyKeeps, FlushReturnsKeeps
<1>13. CASE Restart
  BY <1>13, RestartKeeps
<1> QED
  BY <1>1, <1>2, <1>3, <1>4, <1>5, <1>6, <1>7, <1>8, <1>9, <1>10, <1>11,
     <1>12, <1>13 DEF Next

-------------------------------------------------------------------------------
(* IInv is inductive. *)
THEOREM Invariance ==
  ASSUME OrderlyUse
  PROVE  Spec => []IInv
<1>1. IInv /\ [Next]_vars => IInv'
  BY StepKeeps
<1> QED
  BY <1>1, InitHolds, PTL DEF Spec

(* Every operation of the pool leaves every variable well typed: no index  *)
(* out of pages_, no pin count below zero, no page id past the file.       *)
THEOREM TypeCorrect ==
  ASSUME OrderlyUse
  PROVE  Spec => []TypeOK
<1>1. IInv => TypeOK
  BY DEF IInv, DiskKeeps, PoolInv, PoolTypeOK, WrittenPagesAreHeld,
     FlushIsTracked, TypeOK
<1> QED
  BY <1>1, Invariance, PTL

(* A page is in one frame at most and page_table_ leads to it: FetchPage   *)
(* and NewPage never map a page twice, evict half a page or recycle an id  *)
(* that is still mapped.                                                   *)
THEOREM OneFrame ==
  ASSUME OrderlyUse
  PROVE  Spec => []PageHasOneFrame
<1>1. IInv => PageHasOneFrame
  BY DEF IInv, PoolInv
<1> QED
  BY <1>1, Invariance, PTL

(* GetVictimFrame and DeletePageEx never take the frame from under a       *)
(* client that has the page pinned.                                        *)
THEOREM PinnedStays ==
  ASSUME OrderlyUse
  PROVE  Spec => []PinnedPageStays
<1>1. IInv => PinnedPageStays
  BY DEF IInv, PoolInv
<1> QED
  BY <1>1, Invariance, PTL

(* FetchPage and UnpinPageEx keep the pin count equal to the number of     *)
(* clients that hold the page.                                             *)
THEOREM PinsCount ==
  ASSUME OrderlyUse
  PROVE  Spec => []PinsCountHolders
<1>1. IInv => PinsCountHolders
  BY DEF IInv, PoolInv
<1> QED
  BY <1>1, Invariance, PTL

(* No frame in frame_list_ or among the replacer's candidates is in use,   *)
(* and none is offered twice.                                              *)
THEOREM OfferedIdle ==
  ASSUME OrderlyUse
  PROVE  Spec => []OfferedFramesAreIdle
<1>1. IInv => OfferedFramesAreIdle
  BY DEF IInv, PoolInv
<1> QED
  BY <1>1, Invariance, PTL

(* A cached page that is not marked dirty can be dropped: the file has it, *)
(* or a client is still to release it as changed.                          *)
THEOREM CleanSaved ==
  ASSUME OrderlyUse
  PROVE  Spec => []CleanPagesAreSaved
<1>1. IInv => CleanPagesAreSaved
  BY DEF IInv
<1> QED
  BY <1>1, Invariance, PTL

(* FlushAllPages returns without an error only when every cached page is   *)
(* in the file, but for those a client is changing: the pages it found     *)
(* clean have stayed saved while it wrote the others.                      *)
THEOREM CheckpointComplete ==
  ASSUME OrderlyUse
  PROVE  Spec => CheckpointIsComplete
<1> DEFINE Complete ==
             flush.op = "all" /\ flush.todo = {} /\ FlushReturns =>
               \A p \in Cached : \/ frames[page_table[p]].data = disk.pages[p]
                                 \/ \E c \in Client : p \in wrote[c]
<1>1. IInv => [Complete]_vars
  BY DEF IInv, FlushIsTracked, PageIsSaved
<1> QED
  BY <1>1, Invariance, PTL DEF CheckpointIsComplete

-------------------------------------------------------------------------------
(* Frames that nobody has pinned. *)

Available(f) == f \in evictable \/ \E i \in 1 .. Len(frame_list) : frame_list[i] = f

(* Taking a victim leaves every other frame where it can be had. *)
LEMMA VictimLeavesOthers ==
  ASSUME PoolInv, NEW v \in Victims, TakeVictim(v),
         NEW f \in Frame, f # v.frame, Available(f)
  PROVE  Available(f)'
<1> USE DEF PoolInv, PoolTypeOK, Available, TakeVictim
<1>1. CASE frame_list # <<>>
  <2>1. v = [frame |-> Head(frame_list), rest |-> Tail(frame_list),
             evictable |-> evictable]
    BY <1>1 DEF Victims
  <2>2. /\ Len(frame_list) \in Nat /\ Head(frame_list) = frame_list[1]
        /\ Len(Tail(frame_list)) = Len(frame_list) - 1
        /\ \A i \in 1 .. Len(frame_list) - 1 :
             Tail(frame_list)[i] = frame_list[i + 1]
    BY <1>1
  <2>3. CASE f \in evictable
    BY <2>1, <2>3
  <2>4. ASSUME NEW i \in 1 .. Len(frame_list), frame_list[i] = f
        PROVE  \E j \in 1 .. Len(Tail(frame_list)) : Tail(frame_list)[j] = f
    <3>1. i # 1
      BY <2>1, <2>2, <2>4
    <3>2. i - 1 \in 1 .. Len(frame_list) - 1 /\ (i - 1) + 1 = i
      BY <2>2, <3>1
    <3> QED
      BY <2>2, <2>4, <3>2
  <2> QED
    BY <2>1, <2>3, <2>4
<1>2. CASE frame_list = <<>>
  <2>1. PICK g \in evictable : v = [frame |-> g, rest |-> frame_list,
                                    evictable |-> evictable \ {g}]
    BY <1>2 DEF Victims
  <2> QED
    BY <2>1
<1> QED
  BY <1>1, <1>2

(* A page that moves into the victim's frame pins it, and no other frame   *)
(* leaves the free list or the replacer.                                   *)
LEMMA InstallKeepsAvailable ==
  ASSUME PoolInv, UnpinnedFramesAreAvailable, NEW v \in Victims, TakeVictim(v),
         NEW p, NEW data, Install(v.frame, p, data)
  PROVE  UnpinnedFramesAreAvailable'
<1> SUFFICES ASSUME NEW f \in Frame, frames'[f].pin = 0
             PROVE  Available(f)'
  BY DEF UnpinnedFramesAreAvailable, Available
<1>1. v.frame \in Frame /\ frames \in [Frame -> FrameState]
  BY VictimIsIdle DEF PoolInv, PoolTypeOK
<1>2. f # v.frame /\ frames[f].pin = 0
  BY <1>1 DEF Install
<1>3. Available(f)
  BY <1>2 DEF UnpinnedFramesAreAvailable, Available
<1> QED
  BY <1>2, <1>3, VictimLeavesOthers

(* Releasing the last pin makes the frame evictable. *)
LEMMA UnpinKeepsAvailable ==
  ASSUME IInv, UnpinnedFramesAreAvailable, NEW c \in Client, NEW p \in Page,
         NEW is_dirty \in BOOLEAN, UnpinPage(c, p, is_dirty)
  PROVE  UnpinnedFramesAreAvailable'
<1> DEFINE g == page_table[p]
<1> USE DEF IInv, PoolInv, PoolTypeOK
<1>1. g \in Frame /\ frames[g].pin \in Nat \ {0}
  BY DEF UnpinPage, FrameState
<1>2. /\ \A f \in Frame \ {g} : frames'[f] = frames[f]
      /\ frames'[g].pin = frames[g].pin - 1
      /\ frame_list' = frame_list /\ evictable \subseteq evictable'
      /\ frames[g].pin = 1 => g \in evictable'
  <2> DEFINE released == [frames[g] EXCEPT !.dirty = @ \/ is_dirty,
                                          !.pin = @ - 1]
  <2>1. frames' = [frames EXCEPT ![g] = released]
    BY <1>1 DEF UnpinPage, FrameState
  <2>2. released.pin = frames[g].pin - 1
    BY <1>1 DEF FrameState
  <2> HIDE DEF released, g
  <2>3. frames'[g] = released /\ \A f \in Frame \ {g} : frames'[f] = frames[f]
    BY <1>1, <2>1
  <2> USE DEF g
  <2>4. /\ frame_list' = frame_list /\ evictable \subseteq evictable'
        /\ frames[g].pin = 1 => g \in evictable'
    BY DEF UnpinPage
  <2> QED
    BY <2>2, <2>3, <2>4
<1> SUFFICES ASSUME NEW f \in Frame, frames'[f].pin = 0
             PROVE  Available(f)'
  BY DEF UnpinnedFramesAreAvailable, Available
<1>3. CASE f = g
  <2>1. frames[g].pin = 1
    BY <1>1, <1>2, <1>3
  <2> QED
    BY <1>2, <1>3, <2>1 DEF Available
<1>4. CASE f # g
  <2>1. Available(f)
    BY <1>2, <1>4 DEF UnpinnedFramesAreAvailable, Available
  <2> QED
    BY <1>2, <2>1 DEF Available
<1> QED
  BY <1>3, <1>4

(* A deleted page's frame joins the free list. *)
LEMMA DeleteKeepsAvailable ==
  ASSUME IInv, UnpinnedFramesAreAvailable, NEW p \in Page, DeletePage(p)
  PROVE  UnpinnedFramesAreAvailable'
<1> USE DEF IInv, PoolInv, PoolTypeOK
<1>1. CASE UNCHANGED <<frames, frame_list, evictable>>
  BY <1>1 DEF UnpinnedFramesAreAvailable
<1>2. CASE /\ p \in Cached
           /\ frames' = [frames EXCEPT ![page_table[p]] =
                           [@ EXCEPT !.page = INVALID_PAGE_ID, !.pin = 0,
                                     !.dirty = FALSE]]
           /\ frame_list' = Append(frame_list, page_table[p])
           /\ evictable' = evictable \ {page_table[p]}
  <2> DEFINE g == page_table[p]
  <2>1. g \in Frame
    BY <1>2
  <2>2. \A f \in Frame \ {g} : frames'[f] = frames[f]
    BY <1>2, <2>1
  <2>3. /\ Len(frame_list) \in Nat /\ Len(frame_list') = Len(frame_list) + 1
        /\ frame_list'[Len(frame_list) + 1] = g
        /\ \A i \in 1 .. Len(frame_list) : frame_list'[i] = frame_list[i]
    BY <1>2, <2>1
  <2> SUFFICES ASSUME NEW f \in Frame, frames'[f].pin = 0
               PROVE  Available(f)'
    BY DEF UnpinnedFramesAreAvailable, Available
  <2>4. CASE f = g
    BY <2>3, <2>4 DEF Available
  <2>5. CASE f # g
    <3>1. Available(f)
      BY <2>2, <2>5 DEF UnpinnedFramesAreAvailable, Available
    <3>2. f \in evictable => f \in evictable'
      BY <1>2, <2>5
    <3>3. ASSUME NEW i \in 1 .. Len(frame_list), frame_list[i] = f
          PROVE  i \in 1 .. Len(frame_list') /\ frame_list'[i] = f
      BY <2>3, <3>3
    <3> QED
      BY <3>1, <3>2, <3>3 DEF Available
  <2> QED
    BY <2>4, <2>5
<1> QED
  BY <1>1, <1>2 DEF DeletePage, Deallocate

(* Every step that does not lose the frame it took keeps unpinned frames   *)
(* available.                                                              *)
LEMMA StepKeepsAvailable ==
  ASSUME IInv, UnpinnedFramesAreAvailable, [Next]_vars, [~LosesFrame]_vars
  PROVE  UnpinnedFramesAreAvailable'
<1> USE DEF UnpinnedFramesAreAvailable
<1>0. PoolInv /\ PoolTypeOK
  BY DEF IInv, PoolInv
<1>1. CASE UNCHANGED <<frames, frame_list, evictable>>
  BY <1>1
<1>2. ASSUME NEW c \in Client, NEW p \in Page, FetchHit(c, p)
      PROVE  UnpinnedFramesAreAvailable'
  <2> DEFINE g == page_table[p]
  <2>1. g \in Frame /\ frames[g].pin \in Nat
    BY <1>0, <1>2 DEF FetchHit, PoolTypeOK, FrameState
  <2>2. frames'[g].pin = frames[g].pin + 1
    BY <1>0, <1>2, <2>1 DEF FetchHit, PoolTypeOK, FrameState
  <2>3. \A f \in Frame \ {g} : frames'[f] = frames[f]
    BY <1>0, <1>2, <2>1 DEF FetchHit, PoolTypeOK
  <2>4. frame_list' = frame_list /\ evictable' = evictable \ {g}
    BY <1>2 DEF FetchHit
  <2> HIDE DEF g
  <2> QED
    BY <2>1, <2>2, <2>3, <2>4
<1>3. ASSUME NEW c \in Client, NEW p \in Page, FetchMiss(c, p)
      PROVE  UnpinnedFramesAreAvailable'
  BY <1>0, <1>3, InstallKeepsAvailable DEF FetchMiss
<1>4. ASSUME NEW c \in Client, NewPage(c) PROVE UnpinnedFramesAreAvailable'
  BY <1>0, <1>4, InstallKeepsAvailable DEF NewPage
<1>5. ASSUME NEW c \in Client, NEW p \in Page, NEW u \in Update,
             ChangePage(c, p, u)
      PROVE  UnpinnedFramesAreAvailable'
  <2>1. held[c][p] \in Frame
    BY <1>0, <1>5 DEF ChangePage, Holds, PoolTypeOK
  <2>2. \A f \in Frame : frames'[f].pin = frames[f].pin
    BY <1>0, <1>5, <2>1 DEF ChangePage, PoolTypeOK, FrameState
  <2> QED
    BY <1>5, <2>2 DEF ChangePage
<1>6. ASSUME NEW c \in Client, NEW p \in Page, NEW is_dirty \in BOOLEAN,
             UnpinPage(c, p, is_dirty)
      PROVE  UnpinnedFramesAreAvailable'
  BY <1>6, UnpinKeepsAvailable
<1>7. ASSUME NEW p \in Page, DeletePage(p) PROVE UnpinnedFramesAreAvailable'
  BY <1>7, DeleteKeepsAvailable
<1>8. CASE ClearDirty
  <2>1. page_table[flush.written] \in Frame
    BY <1>0, <1>8 DEF ClearDirty, IInv, FlushIsTracked, PoolTypeOK
  <2>2. \A f \in Frame : frames'[f].pin = frames[f].pin
    BY <1>0, <1>8, <2>1 DEF ClearDirty, PoolTypeOK, FrameState
  <2> QED
    BY <1>8, <2>2 DEF ClearDirty
<1>9. CASE Restart
  <2> SUFFICES ASSUME NEW f \in Frame PROVE Available(f)'
    BY DEF Available
  <2>1. Len(AllFrames) = PoolSize /\ f + 1 \in 1 .. PoolSize
        /\ AllFrames[f + 1] = f
    BY PoolConstants DEF AllFrames, Frame
  <2> QED
    BY <1>9, <2>1 DEF Restart, Available
<1>10. ASSUME \/ UNCHANGED vars
              \/ NewPageAllocationFails \/ NewPageNoFrame
              \/ \E p \in Page : FlushPage(p) \/ FlushNext(p)
              \/ FlushAllPages \/ FlushReturns
       PROVE  UNCHANGED <<frames, frame_list, evictable>>
  BY <1>10 DEF vars, NewPageAllocationFails, NewPageNoFrame, FlushPage,
     FlushNext, FlushAllPages, FlushReturns
<1>11. UNCHANGED vars \/ ~LosesFrame
  OBVIOUS
<1> QED
  BY <1>1, <1>2, <1>3, <1>4, <1>5, <1>6, <1>7, <1>8, <1>9, <1>10, <1>11
     DEF Next, LosesFrame

(* A frame nobody has pinned stays on the free list or with the replacer,  *)
(* unless a fetch or a creation fails after GetVictimFrame: nothing else   *)
(* makes the pool shrink.                                                  *)
THEOREM FramesStayAvailable ==
  ASSUME OrderlyUse
  PROVE  Spec /\ [][~LosesFrame]_vars => []UnpinnedFramesAreAvailable
<1>1. Init => UnpinnedFramesAreAvailable
  <2> SUFFICES ASSUME Init, NEW f \in Frame PROVE Available(f)
    BY DEF UnpinnedFramesAreAvailable, Available
  <2>1. Len(AllFrames) = PoolSize /\ f + 1 \in 1 .. PoolSize
        /\ AllFrames[f + 1] = f
    BY PoolConstants DEF AllFrames, Frame
  <2> QED
    BY <2>1 DEF Init, Available
<1>2. /\ IInv /\ UnpinnedFramesAreAvailable
      /\ [Next]_vars /\ [~LosesFrame]_vars
      => UnpinnedFramesAreAvailable'
  BY StepKeepsAvailable
<1> QED
  BY <1>1, <1>2, Invariance, PTL DEF Spec

(* "Both sources are exhausted" (buffer_pool_manager.cxx:434) means that   *)
(* every frame is pinned, as long as no operation has lost one.            *)
THEOREM RefusesWhenAllPinned ==
  ASSUME OrderlyUse
  PROVE  Spec /\ [][~LosesFrame]_vars => []RefusesOnlyWhenAllPinned
<1>1. ASSUME IInv, UnpinnedFramesAreAvailable PROVE RefusesOnlyWhenAllPinned
  <2> SUFFICES ASSUME Victims = {}, NEW f \in Frame PROVE frames[f].pin > 0
    BY DEF RefusesOnlyWhenAllPinned
  <2>1. frame_list = <<>> /\ evictable = {}
    BY DEF Victims
  <2>2. frames[f].pin # 0
    BY <1>1, <2>1 DEF UnpinnedFramesAreAvailable
  <2> QED
    BY <1>1, <2>2 DEF IInv, PoolInv, PoolTypeOK, FrameState
<1> QED
  BY <1>1, Invariance, FramesStayAvailable, PTL

(* A victim is written back to a page of the file. *)
LEMMA VictimCanBeSaved ==
  ASSUME PoolInv, NEW v \in Victims, NEW d, NEW A, DiskKeeps(d, A),
         Cached \subseteq A, "write" \notin Faults
  PROVE  FALSE \notin VictimFlushEnds(v, d)
<1>1. CASE frames[v.frame].dirty
  <2>1. v.frame \in Frame /\ frames[v.frame].page \in A
    BY <1>1, VictimIsIdle DEF PoolInv, PageHasOneFrame
  <2>2. /\ A \subseteq {p \in Page : p < d.next} /\ d.size = d.next
        /\ d.next \in Nat
    BY PageIds, DiskConstants DEF DiskKeeps, Disk, PageRef, MagicAsPage
  <2>3. ASSUME NEW p, p \in A PROVE p \in Page /\ ~(p > d.size)
    <3>1. p \in Page /\ p < d.next /\ p \in Nat
      BY <2>2, <2>3, PageIds
    <3> QED
      BY <2>2, <3>1
  <2>4. ASSUME NEW p, p \in Page, ~(p > d.size) PROVE FALSE \notin WriteEnds(d, p)
    BY <2>4 DEF WriteEnds
  <2> QED
    BY <1>1, <2>1, <2>3, <2>4 DEF VictimFlushEnds
<1>2. CASE ~frames[v.frame].dirty
  BY <1>2 DEF VictimFlushEnds
<1> QED
  BY <1>1, <1>2

(* With a file that never fails, and clients that ask for pages that       *)
(* exist, no frame is lost.                                                *)
THEOREM AllFramesAvailable ==
  ASSUME Faults = {}, StrayFetch = {}
  PROVE  Spec => []UnpinnedFramesAreAvailable
<1>1. OrderlyUse
  BY DEF OrderlyUse
<1>2. ASSUME IInv, [Next]_vars PROVE [~LosesFrame]_vars
  <2>0. PoolInv /\ DiskKeeps(disk, allocated) /\ Cached \subseteq allocated
    BY <1>2 DEF IInv
  <2>1. ASSUME NEW c \in Client, NEW p \in Page, FetchFlushFails(c, p)
        PROVE  FALSE
    BY <2>0, <2>1, VictimCanBeSaved DEF FetchFlushFails
  <2>2. ASSUME NEW c \in Client, NEW p \in Page, FetchReadFails(c, p)
        PROVE  FALSE
    <3>1. PICK v \in Victims : FALSE \in ReadEnds(FlushVictim(v, disk), p)
      BY <2>2 DEF FetchReadFails
    <3>2. FlushVictim(v, disk).size = disk.size
      BY <2>0, VictimFlushKeeps
    <3>3. p \in allocated
      BY <2>2 DEF FetchReadFails, MayAskFor
    <3>4. p < disk.size /\ disk.size \in Nat
      BY <2>0, <3>3, DiskConstants DEF DiskKeeps, Disk
    <3> QED
      BY <3>1, <3>2, <3>4, PageIds DEF ReadEnds, ReadMayFail
  <2>3. ASSUME NewPageFlushFails PROVE FALSE
    <3>1. PICK a \in AllocatePage(disk), v \in Victims :
            FALSE \in VictimFlushEnds(v, a.disk)
      BY <2>3 DEF NewPageFlushFails
    <3>2. DiskKeeps(a.disk, allocated)
      BY <1>1, <2>0, AllocateKeeps
    <3> QED
      BY <2>0, <3>1, <3>2, VictimCanBeSaved
  <2> QED
    BY <2>1, <2>2, <2>3 DEF LosesFrame
<1> QED
  BY <1>1, <1>2, Invariance, FramesStayAvailable, PTL DEF Spec

-------------------------------------------------------------------------------
(* The free list, hop by hop. *)

LEMMA AllNumbers ==
  ASSUME NEW S, 0 \in S, \A n \in Nat : n \in S => n + 1 \in S
  PROVE  Nat \subseteq S
<1> SUFFICES ASSUME Nat \ S # {} PROVE FALSE
  OBVIOUS
<1>1. PICK x \in Nat \ S : \A y \in Nat \ S : ~ (<<y, x>> \in OpToRel(<, Nat))
  <2>1. Nat \ S \in SUBSET Nat
    OBVIOUS
  <2> QED
    BY <2>1, NatLessThanWellFounded, WFMin
<1>2. x # 0 /\ x - 1 \in Nat
  OBVIOUS
<1>3. CASE x - 1 \in S
  BY <1>2, <1>3
<1>4. CASE x - 1 \notin S
  <2>1. x - 1 \in Nat \ S /\ x - 1 < x
    BY <1>2, <1>4
  <2>2. <<x - 1, x>> \in OpToRel(<, Nat)
    BY <1>1, <2>1 DEF OpToRel
  <2> QED
    BY <1>1, <2>1, <2>2
<1> QED
  BY <1>3, <1>4

(* What FreeListHop does with the page a hop has led to. *)
HopFrom(d, p) == IF p \in Page /\ p < d.next THEN NextFree(d, p) ELSE p

LEMMA Hops ==
  ASSUME NEW d
  PROVE  /\ FreeListHop(d)[0] = d.free
         /\ \A n \in 1 .. MaxPage + 2 :
              FreeListHop(d)[n] = HopFrom(d, FreeListHop(d)[n - 1])
<1> DEFINE R(g, m) ==
             [n \in 0 .. m |-> IF n = 0 THEN d.free
                               ELSE IF g[n - 1] \in Page /\ g[n - 1] < d.next
                                    THEN NextFree(d, g[n - 1]) ELSE g[n - 1]]
           S == {m \in Nat : \E g : g = R(g, m)}
<1>0. PageRef = 0 .. MaxPage + 2 /\ MaxPage + 2 \in Nat
  BY DiskConstants DEF PageRef, MagicAsPage
<1>1. 0 \in S
  <2>1. [n \in 0 .. 0 |-> d.free] = R([n \in 0 .. 0 |-> d.free], 0)
    OBVIOUS
  <2> QED
    BY <2>1
<1>2. ASSUME NEW m \in Nat, m \in S PROVE m + 1 \in S
  <2>1. PICK g : g = R(g, m)
    BY <1>2
  <2> DEFINE h == [n \in 0 .. m + 1 |-> IF n <= m THEN g[n] ELSE HopFrom(d, g[m])]
  <2>2. ASSUME NEW n \in 0 .. m + 1
        PROVE  h[n] = R(h, m + 1)[n]
    <3>1. CASE n = 0
      BY <2>1, <3>1
    <3>2. CASE n \in 1 .. m
      <4>1. h[n] = g[n] /\ h[n - 1] = g[n - 1]
        BY <3>2
      <4>2. g[n] = R(g, m)[n]
        BY <2>1
      <4> QED
        BY <3>2, <4>1, <4>2
    <3>3. CASE n = m + 1
      <4>1. h[n - 1] = g[m] /\ n - 1 = m
        BY <3>3
      <4> QED
        BY <3>3, <4>1 DEF HopFrom
    <3> QED
      BY <3>1, <3>2, <3>3
  <2>3. h = R(h, m + 1)
    BY <2>2
  <2> HIDE DEF h
  <2> QED
    BY <2>3
<1>3. MaxPage + 2 \in S
  <2> HIDE DEF S
  <2> QED
    BY <1>0, <1>1, <1>2, AllNumbers
<1>4. FreeListHop(d) = R(FreeListHop(d), MaxPage + 2)
  <2>1. FreeListHop(d) = CHOOSE g : g = R(g, MaxPage + 2)
    BY <1>0 DEF FreeListHop
  <2>2. \E g : g = R(g, MaxPage + 2)
    BY <1>3
  <2> HIDE DEF R
  <2> QED
    BY <2>1, <2>2
<1> DEFINE h == FreeListHop(d)
<1>5. h = R(h, MaxPage + 2)
  BY <1>4
<1> HIDE DEF h
<1>6. h[0] = d.free
  BY <1>0, <1>5
<1>7. ASSUME NEW n \in 1 .. MaxPage + 2 PROVE h[n] = HopFrom(d, h[n - 1])
  <2>1. n \in 0 .. MaxPage + 2 /\ n # 0
    BY <1>0
  <2> QED
    BY <1>5, <2>1 DEF HopFrom
<1> QED
  BY <1>6, <1>7 DEF h

(* On a sound free list the walk stays on the list until it ends, never    *)
(* comes back to a page, and so ends within as many hops as there are      *)
(* pages.                                                                  *)
LEMMA WalkOfFreeList ==
  ASSUME NEW d, NEW F \in SUBSET Page, IsFreeList(d, F)
  PROVE  /\ \A n \in PageRef : FreeListHop(d)[n] \in F \cup {INVALID_PAGE_ID}
         /\ FreeListHop(d)[MaxPage] = INVALID_PAGE_ID
<1> DEFINE h == FreeListHop(d)
           End == INVALID_PAGE_ID
           Next1(p) == IF p = End THEN End ELSE d.pages[p].nextFree
<1>0. /\ MaxPage \in Nat \ {0} /\ PageRef = 0 .. MaxPage + 2 /\ Page = 1 .. MaxPage
      /\ End \notin Page
  BY DiskConstants, PageIds DEF PageRef, MagicAsPage, Page
<1>1. /\ h[0] = d.free
      /\ \A n \in 1 .. MaxPage + 2 : h[n] = HopFrom(d, h[n - 1])
  BY Hops
<1>2. \A p \in F \cup {End} : HopFrom(d, p) = Next1(p)
  BY <1>0, PageIds DEF HopFrom, NextFree, IsFreeList
<1>3. \A p \in F \cup {End} : Next1(p) \in (F \ {d.free}) \cup {End}
  BY <1>0 DEF IsFreeList
<1> HIDE DEF h, Next1
<1>4. \A n \in PageRef : h[n] \in F \cup {End}
  <2> DEFINE S == {n \in Nat : n <= MaxPage + 2 => h[n] \in F \cup {End}}
  <2>1. 0 \in S
    BY <1>1 DEF IsFreeList
  <2>2. ASSUME NEW n \in Nat, n \in S PROVE n + 1 \in S
    <3> SUFFICES ASSUME n + 1 <= MaxPage + 2 PROVE h[n + 1] \in F \cup {End}
      OBVIOUS
    <3>1. h[n] \in F \cup {End} /\ n + 1 \in 1 .. MaxPage + 2 /\ (n + 1) - 1 = n
      BY <1>0, <2>2
    <3>2. h[n + 1] = HopFrom(d, h[n])
      BY <1>1, <3>1
    <3> QED
      BY <1>2, <1>3, <3>1, <3>2
  <2> HIDE DEF S
  <2>3. Nat \subseteq S
    BY <2>1, <2>2, AllNumbers
  <2> QED
    <3> TAKE n \in PageRef
    <3>1. n \in S /\ n <= MaxPage + 2
      BY <1>0, <2>3
    <3> QED
      BY <3>1 DEF S
<1>5. \A n \in 1 .. MaxPage + 2 : h[n] = Next1(h[n - 1])
  <2> TAKE n \in 1 .. MaxPage + 2
  <2>1. n - 1 \in PageRef
    BY <1>0
  <2> QED
    BY <1>1, <1>2, <1>4, <2>1
<1>6. ASSUME NEW p \in F \cup {End}, NEW q \in F \cup {End},
             Next1(p) = Next1(q), Next1(p) # End
      PROVE  p = q
  BY <1>6 DEF Next1, IsFreeList
<1>7. \A n \in PageRef : \A i \in 0 .. n - 1 : h[i] = h[n] => h[n] = End
  <2> DEFINE S == {n \in Nat : n <= MaxPage + 2 =>
                     \A i \in 0 .. n - 1 : h[i] = h[n] => h[n] = End}
  <2>1. 0 \in S
    OBVIOUS
  <2>2. ASSUME NEW n \in Nat, n \in S PROVE n + 1 \in S
    <3> SUFFICES ASSUME n + 1 <= MaxPage + 2, NEW i \in 0 .. n,
                        h[i] = h[n + 1], h[n + 1] # End
                 PROVE  FALSE
      OBVIOUS
    <3>1. /\ n \in PageRef /\ n <= MaxPage + 2
          /\ n + 1 \in 1 .. MaxPage + 2 /\ (n + 1) - 1 = n
      BY <1>0
    <3>2. h[n] \in F \cup {End} /\ h[n + 1] = Next1(h[n])
      BY <1>4, <1>5, <3>1
    <3>3. i # 0
      BY <1>1, <1>3, <3>2
    <3>4. /\ i \in 1 .. MaxPage + 2 /\ i - 1 \in PageRef /\ i - 1 \in 0 .. n - 1
      BY <1>0, <3>1, <3>3
    <3>5. h[i - 1] \in F \cup {End} /\ h[i] = Next1(h[i - 1])
      BY <1>4, <1>5, <3>4
    <3>6. h[i - 1] = h[n]
      BY <1>6, <3>2, <3>5
    <3>7. h[n] = End
      BY <2>2, <3>1, <3>4, <3>6
    <3> QED
      BY <3>2, <3>7 DEF Next1
  <2> HIDE DEF S
  <2>3. Nat \subseteq S
    BY <2>1, <2>2, AllNumbers
  <2> QED
    BY <1>0, <2>3 DEF S
<1>8. ASSUME NEW n \in 0 .. MaxPage, h[n] = End PROVE h[MaxPage] = End
  <2> DEFINE S == {m \in Nat : n <= m /\ m <= MaxPage + 2 => h[m] = End}
  <2>1. 0 \in S
    BY <1>8
  <2>2. ASSUME NEW m \in Nat, m \in S PROVE m + 1 \in S
    <3> SUFFICES ASSUME n <= m + 1, m + 1 <= MaxPage + 2 PROVE h[m + 1] = End
      OBVIOUS
    <3>1. CASE n = m + 1
      BY <1>8, <3>1
    <3>2. CASE n # m + 1
      <4>1. h[m] = End /\ m + 1 \in 1 .. MaxPage + 2 /\ (m + 1) - 1 = m
        BY <1>0, <2>2, <3>2
      <4> QED
        BY <1>5, <4>1 DEF Next1
    <3> QED
      BY <3>1, <3>2
  <2> HIDE DEF S
  <2>3. Nat \subseteq S
    BY <2>1, <2>2, AllNumbers
  <2> QED
    BY <1>0, <2>3 DEF S
<1>9. h[MaxPage] = End
  <2> SUFFICES ASSUME h[MaxPage] # End PROVE FALSE
    OBVIOUS
  <2> DEFINE f == [n \in 0 .. MaxPage |-> h[n]]
  <2>1. ASSUME NEW n \in 0 .. MaxPage PROVE h[n] \in Page
    <3>1. n \in PageRef
      BY <1>0
    <3> QED
      BY <1>4, <1>8, <3>1
  <2>2. f \in [0 .. MaxPage -> Page]
    BY <2>1
  <2>3. /\ IsFiniteSet(0 .. MaxPage) /\ IsFiniteSet(Page)
        /\ Cardinality(Page) < Cardinality(0 .. MaxPage)
    BY <1>0, FS_Interval
  <2>4. PICK x \in 0 .. MaxPage, y \in 0 .. MaxPage : x # y /\ f[x] = f[y]
    <3> HIDE DEF f
    <3> QED
      BY <2>2, <2>3, FS_PigeonHole
  <2>5. h[x] = h[y] /\ h[x] # End /\ x \in PageRef /\ y \in PageRef
    BY <1>0, <2>1, <2>4
  <2>6. x \in 0 .. y - 1 \/ y \in 0 .. x - 1
    BY <1>0, <2>4
  <2> QED
    BY <1>7, <2>5, <2>6
<1> QED
  BY <1>4, <1>9 DEF h

(* No page a client may use, and none that is cached, is on the free list  *)
(* of the file, and the list ends: a page is given out by AllocatePage,    *)
(* mapped, saved and deallocated without ever being both.                  *)
THEOREM FreePagesUnused ==
  ASSUME OrderlyUse
  PROVE  Spec => []FreePagesAreNobodys
<1>1. ASSUME IInv PROVE FreePagesAreNobodys
  <2>1. PICK F \in SUBSET Page : IsFreeList(disk, F) /\ F \cap allocated = {}
    BY <1>1 DEF IInv, DiskKeeps
  <2>2. /\ \A n \in PageRef : FreeListHop(disk)[n] \in F \cup {INVALID_PAGE_ID}
        /\ FreeListHop(disk)[MaxPage] = INVALID_PAGE_ID
    BY <2>1, WalkOfFreeList
  <2>3. FreePages(disk) \subseteq F
    BY <2>2 DEF FreePages
  <2> QED
    BY <1>1, <2>1, <2>2, <2>3 DEF IInv, FreePagesAreNobodys
<1> QED
  BY <1>1, Invariance, PTL

(* AllocatePage never hands out the header page or a page in use, so that  *)
(* no client writes over the free list or another client's page.           *)
THEOREM HandsOutDataPages ==
  ASSUME OrderlyUse
  PROVE  Spec => []HandsOutOnlyDataPages
<1>1. ASSUME IInv PROVE HandsOutOnlyDataPages
  BY <1>1, AllocateKeeps DEF IInv, HandsOutOnlyDataPages
<1> QED
  BY <1>1, Invariance, PTL

-------------------------------------------------------------------------------
(* The pool implements PageStore: to its clients it is a store of pages,   *)
(* whatever is cached, evicted or saved.                                   *)

(* What a client finds in page p. *)
View(p) == IF p \in Cached THEN frames[page_table[p]].data ELSE disk.pages[p]

-------------------------------------------------------------------------------
(* From pages to the abstract store. *)

(* A step that changes no page's view, and saves what it saves, stays in   *)
(* the background.                                                         *)
LEMMA StaysInBackground ==
  ASSUME IInv', allocated' = allocated,
         \A q \in allocated : /\ View(q)' = View(q)
                              /\ disk'.pages[q] \in {disk.pages[q], View(q)}
  PROVE  Abstract!Background
<1>1. disk'.pages \in [Page -> Content]
  BY DEF IInv, DiskKeeps, Disk
<1>2. \A q \in allocated :
        (IF q \in Cached THEN frames[page_table[q]].data ELSE disk.pages[q])'
          = IF q \in Cached THEN frames[page_table[q]].data ELSE disk.pages[q]
  BY DEF View
<1>3. \A q \in allocated :
        disk'.pages[q] \in {disk.pages[q],
          IF q \in Cached THEN frames[page_table[q]].data ELSE disk.pages[q]}
  BY DEF View
<1> QED
  BY <1>1, <1>2, <1>3 DEF Abstract!Background, Abstract!Save

(* So does one that neither maps nor changes a page.                       *)
LEMMA KeepsContents ==
  ASSUME IInv', UNCHANGED <<page_table, allocated>>,
         \A q \in Cached : frames'[page_table[q]].data = frames[page_table[q]].data,
         \A q \in allocated :
           \/ disk'.pages[q] = disk.pages[q]
           \/ q \in Cached /\ disk'.pages[q] = frames[page_table[q]].data
  PROVE  Abstract!Background
<1>1. Cached' = Cached
  BY DEF Cached
<1>2. ASSUME NEW q \in allocated
      PROVE  /\ View(q)' = View(q)
             /\ disk'.pages[q] \in {disk.pages[q], View(q)}
  BY <1>1 DEF View
<1> QED
  BY <1>2, StaysInBackground

-------------------------------------------------------------------------------
(* The steps that map a page. *)

(* The page that leaves a frame is in the file as its clients last saw it. *)
LEMMA VictimIsSaved ==
  ASSUME IInv, NEW v \in Victims, NEW d, NEW A, DiskKeeps(d, A),
         Cached \subseteq A, Agree(disk, d, allocated),
         frames[v.frame].page # INVALID_PAGE_ID
  PROVE  /\ frames[v.frame].page \in Cached
         /\ page_table[frames[v.frame].page] = v.frame
         /\ FlushVictim(v, d).pages[frames[v.frame].page] = frames[v.frame].data
<1> DEFINE f == v.frame
           old == frames[f].page
<1>1. /\ PoolInv /\ f \in Frame /\ frames[f].pin = 0
  BY VictimIsIdle DEF IInv
<1>2. old \in Cached /\ page_table[old] = f
  BY <1>1 DEF PoolInv, PageHasOneFrame
<1>3. IF frames[f].dirty THEN FlushVictim(v, d).pages[old] = frames[f].data
                         ELSE FlushVictim(v, d) = d
  BY <1>1, VictimFlushKeeps
<1>4. old \in allocated /\ old \in Page
  BY <1>2 DEF IInv, PoolInv, PoolTypeOK
<1>5. \A c \in Client : old \notin wrote[c]
  <2>1. \A c \in Client, p \in Page : held[c][p] # f
    BY <1>1, NobodyHolds DEF PoolInv
  <2> SUFFICES ASSUME NEW c \in Client, old \in wrote[c] PROVE FALSE
    OBVIOUS
  <2>2. Holds(c, old)
    BY DEF IInv, WrittenPagesAreHeld
  <2>3. held[c][old] = f
    BY <1>1, <1>2, <1>4, <2>2 DEF PoolInv, PinnedPageStays
  <2> QED
    BY <1>4, <2>1, <2>3
<1>6. ~frames[f].dirty => disk.pages[old] = frames[f].data
  BY <1>2, <1>5 DEF IInv, CleanPagesAreSaved
<1>7. d.pages[old] = disk.pages[old]
  BY <1>4 DEF Agree
<1> QED
  BY <1>2, <1>3, <1>6, <1>7

(* A page that is mapped shows what it is given; no other page's view      *)
(* changes, the victim's included.                                         *)
LEMMA InstallViews ==
  ASSUME IInv, NEW v \in Victims, NEW c \in Client, NEW p \in Page,
         p \notin Cached, NEW data \in Content,
         Install(v.frame, p, data), GrantPin(c, p, v.frame),
         NEW d, NEW A, DiskKeeps(d, A), Cached \subseteq A,
         Agree(disk, d, allocated), disk' = FlushVictim(v, d)
  PROVE  /\ View(p)' = data
         /\ disk'.pages[p] = d.pages[p]
         /\ \A q \in allocated \ {p} :
              /\ View(q)' = View(q)
              /\ disk'.pages[q] \in {disk.pages[q], View(q)}
<1> DEFINE f == v.frame
           old == frames[f].page
<1>1. PoolInv /\ allocated \subseteq Page /\ f \in Frame
        /\ frames[f].page \in Page \cup {INVALID_PAGE_ID}
  BY VictimIsIdle DEF IInv, DiskKeeps, PoolInv, PoolTypeOK, FrameState
<1>2. /\ p \in Cached' /\ frames'[page_table'[p]].data = data
      /\ \A q \in Cached' \ {p} :
           /\ q \in Cached
           /\ q # old
           /\ frames'[page_table'[q]] = frames[page_table[q]]
  BY <1>1, InstallFacts
<1>3. Cached' = (Cached \ {old}) \cup {p}
  BY DEF Install, Cached
<1>4. \A q \in Page : disk'.pages[q] = d.pages[q] \/ q = old
  BY <1>1, VictimFlushKeeps
<1>5. old # INVALID_PAGE_ID =>
        old \in Cached /\ page_table[old] = f /\ disk'.pages[old] = frames[f].data
  BY VictimIsSaved
<1>6. p # old
  BY <1>5, PageIds
<1>7. ASSUME NEW q \in allocated \ {p}
      PROVE  /\ View(q)' = View(q)
             /\ disk'.pages[q] \in {disk.pages[q], View(q)}
  <2>1. d.pages[q] = disk.pages[q] /\ q \in Page
    BY <1>1 DEF Agree
  <2>2. CASE q = old
    <3>1. q # INVALID_PAGE_ID
      BY <2>1, PageIds
    <3>2. View(q) = frames[f].data /\ disk'.pages[q] = frames[f].data
      BY <1>5, <2>2, <3>1 DEF View
    <3>3. View(q)' = disk'.pages[q]
      BY <1>3, <2>2 DEF View
    <3> QED
      BY <3>2, <3>3
  <2>3. CASE q # old
    <3>1. disk'.pages[q] = disk.pages[q]
      BY <1>4, <2>1, <2>3
    <3>2. q \in Cached' <=> q \in Cached
      BY <1>3, <2>3
    <3>3. q \in Cached' => frames'[page_table'[q]] = frames[page_table[q]]
      BY <1>2
    <3>4. View(q)' = View(q)
      BY <3>1, <3>2, <3>3 DEF View
    <3> QED
      BY <3>1, <3>4
  <2> QED
    BY <2>2, <2>3
<1>8. View(p)' = data
  BY <1>2 DEF View
<1> QED
  BY <1>4, <1>6, <1>7, <1>8

LEMMA FetchMissRefines ==
  ASSUME IInv, IInv', NEW c \in Client, NEW p \in Page, FetchMiss(c, p)
  PROVE  Abstract!Background
<1>0. p \notin Cached /\ allocated' = allocated
  BY DEF FetchMiss
<1>1. PICK v \in Victims :
        /\ disk' = FlushVictim(v, disk)
        /\ Install(v.frame, p, disk'.pages[p])
        /\ GrantPin(c, p, v.frame)
  BY DEF FetchMiss
<1>2. DiskKeeps(disk, allocated) /\ Cached \subseteq allocated
        /\ Agree(disk, disk, allocated) /\ disk'.pages[p] \in Content
  BY DEF IInv, DiskKeeps, Disk, Agree
<1>3. /\ View(p)' = disk'.pages[p]
      /\ disk'.pages[p] = disk.pages[p]
      /\ \A q \in allocated \ {p} :
           /\ View(q)' = View(q)
           /\ disk'.pages[q] \in {disk.pages[q], View(q)}
  BY <1>0, <1>1, <1>2, InstallViews
<1>4. View(p) = disk.pages[p]
  BY <1>0 DEF View
<1>5. \A q \in allocated : /\ View(q)' = View(q)
                           /\ disk'.pages[q] \in {disk.pages[q], View(q)}
  BY <1>3, <1>4
<1> QED
  BY <1>0, <1>5, StaysInBackground

LEMMA NewPageRefines ==
  ASSUME OrderlyUse, IInv, IInv', NEW c \in Client, NewPage(c)
  PROVE  \E p \in Page : Abstract!New(p)
<1>1. PICK a \in AllocatePage(disk), v \in Victims :
        /\ a.page # INVALID_PAGE_ID
        /\ disk' = FlushVictim(v, a.disk)
        /\ Install(v.frame, a.page, Blank)
        /\ GrantPin(c, a.page, v.frame)
        /\ allocated' = allocated \cup {a.page}
  BY DEF NewPage
<1> DEFINE p == a.page
<1>2. /\ DiskKeeps(a.disk, allocated \cup {p})
      /\ p \in Page \ allocated
      /\ Agree(disk, a.disk, allocated)
  BY <1>1, AllocateKeeps DEF IInv
<1>3. p \notin Cached /\ Blank \in Content /\ Cached \subseteq allocated \cup {p}
  BY <1>2, PoolConstants DEF Content, IInv
<1>4. /\ View(p)' = Blank
      /\ \A q \in allocated :
           /\ View(q)' = View(q)
           /\ disk'.pages[q] \in {disk.pages[q], View(q)}
  <2>1. /\ View(p)' = Blank
        /\ \A q \in allocated \ {p} :
             /\ View(q)' = View(q)
             /\ disk'.pages[q] \in {disk.pages[q], View(q)}
    BY <1>1, <1>2, <1>3, InstallViews
  <2> QED
    BY <1>2, <2>1
<1> HIDE DEF p
<1>5. disk'.pages \in [Page -> Content]
  BY DEF IInv, DiskKeeps, Disk
<1>6. Abstract!New(p)
  <2> DEFINE store == [q \in allocated |-> View(q)]
  <2>1. [q \in allocated |-> IF q \in Cached THEN frames[page_table[q]].data
                                             ELSE disk.pages[q]] = store
    BY DEF View
  <2>2. [q \in allocated |-> IF q \in Cached THEN frames[page_table[q]].data
                                             ELSE disk.pages[q]]'
          = [q \in allocated \cup {p} |-> IF q = p THEN Blank ELSE store[q]]
    <3>1. allocated' = allocated \cup {p}
      BY <1>1 DEF p
    <3>2. \A q \in allocated \cup {p} :
            (IF q \in Cached THEN frames[page_table[q]].data
                             ELSE disk.pages[q])'
              = IF q = p THEN Blank ELSE store[q]
      BY <1>2, <1>4 DEF View
    <3> QED
      BY <3>1, <3>2
  <2> QED
    BY <1>1, <1>2, <1>4, <1>5, <2>1, <2>2 DEF Abstract!New, Abstract!Save, p
<1> QED
  BY <1>2, <1>6

-------------------------------------------------------------------------------
(* The steps that map no page.                                             *)
LEMMA DiskOnlyRefines ==
  ASSUME IInv', UNCHANGED <<frames, page_table, allocated>>,
         Agree(disk, disk', allocated)
  PROVE  Abstract!Background
BY KeepsContents DEF Agree

LEMMA FetchHitRefines ==
  ASSUME IInv, IInv', NEW c \in Client, NEW p \in Page, FetchHit(c, p)
  PROVE  Abstract!Background
<1> DEFINE f == page_table[p]
<1>1. /\ UNCHANGED <<disk, page_table, allocated>>
      /\ frames' = [frames EXCEPT ![f].pin = @ + 1]
  BY DEF FetchHit
<1>2. frames \in [Frame -> FrameState] /\ page_table \in [Cached -> Frame]
  BY DEF IInv, PoolInv, PoolTypeOK
<1>3. \A g \in Frame : frames'[g].data = frames[g].data
  BY <1>1, <1>2 DEF FrameState
<1> QED
  BY <1>1, <1>2, <1>3, KeepsContents

LEMMA FetchFlushFailsRefines ==
  ASSUME IInv', NEW c \in Client, NEW p \in Page, FetchFlushFails(c, p)
  PROVE  Abstract!Background
BY DiskOnlyRefines DEF FetchFlushFails, Agree

(* The victim stays mapped, and clean.                                     *)
LEMMA FetchReadFailsRefines ==
  ASSUME OrderlyUse, IInv, IInv', NEW c \in Client, NEW p \in Page,
         FetchReadFails(c, p)
  PROVE  Abstract!Background
<1>1. PICK v \in Victims :
        /\ disk' = FlushVictim(v, disk)
        /\ frames' = [frames EXCEPT ![v.frame] =
                        [frames[v.frame] EXCEPT !.dirty = FALSE]]
  BY DEF FetchReadFails, LeftByRead, OrderlyUse
<1> DEFINE old == frames[v.frame].page
<1>2. /\ frames \in [Frame -> FrameState] /\ page_table \in [Cached -> Frame]
      /\ PoolInv /\ v.frame \in Frame
      /\ frames[v.frame].dirty => old # INVALID_PAGE_ID
  BY VictimIsIdle DEF IInv, PoolInv, PoolTypeOK
<1>3. \A g \in Frame : frames'[g].data = frames[g].data
  BY <1>1, <1>2 DEF FrameState
<1>4. UNCHANGED <<page_table, allocated>>
  BY DEF FetchReadFails
<1>5. DiskKeeps(disk, allocated) /\ Cached \subseteq allocated
        /\ Agree(disk, disk, allocated) /\ allocated \subseteq Page
  BY DEF IInv, DiskKeeps, Agree
<1>6. /\ \A q \in Page : disk'.pages[q] = disk.pages[q] \/ q = old
      /\ ~frames[v.frame].dirty => disk' = disk
  BY <1>1, <1>2, <1>5, VictimFlushKeeps
<1>7. frames[v.frame].dirty =>
        /\ old \in Cached /\ page_table[old] = v.frame
        /\ disk'.pages[old] = frames[v.frame].data
  BY <1>1, <1>2, <1>5, VictimIsSaved
<1>8. \A q \in allocated :
        \/ disk'.pages[q] = disk.pages[q]
        \/ q \in Cached /\ disk'.pages[q] = frames[page_table[q]].data
  BY <1>5, <1>6, <1>7
<1> QED
  BY <1>2, <1>3, <1>4, <1>8, KeepsContents

LEMMA NewPageFailsRefines ==
  ASSUME OrderlyUse, IInv, IInv',
         NewPageAllocationFails \/ NewPageNoFrame \/ NewPageFlushFails
  PROVE  Abstract!Background
<1>1. DiskKeeps(disk, allocated)
  BY DEF IInv
<1>2. UNCHANGED <<frames, page_table, allocated>>
  BY DEF NewPageAllocationFails, NewPageNoFrame, NewPageFlushFails
<1>3. CASE \E a \in AllocatePage(disk) : disk' = a.disk
  <2>1. PICK a \in AllocatePage(disk) : disk' = a.disk
    BY <1>3
  <2>2. Agree(disk, a.disk, allocated)
    BY <1>1, AllocateKeeps
  <2> QED
    BY <1>2, <2>1, <2>2, DiskOnlyRefines
<1>4. CASE \E a \in AllocatePage(disk) :
             /\ a.page # INVALID_PAGE_ID
             /\ \E rollback \in DeallocatePage(a.disk, a.page) :
                  disk' = rollback.disk
  <2>1. Agree(disk, disk', allocated)
    BY <1>1, <1>4, RollbackKeeps
  <2> QED
    BY <1>2, <2>1, DiskOnlyRefines
<1> QED
  BY <1>3, <1>4 DEF NewPageAllocationFails, NewPageNoFrame, NewPageFlushFails

LEMMA UnpinPageRefines ==
  ASSUME IInv, IInv', NEW c \in Client, NEW p \in Page, NEW is_dirty \in BOOLEAN,
         UnpinPage(c, p, is_dirty)
  PROVE  Abstract!Background
<1> DEFINE f == page_table[p]
<1>1. /\ UNCHANGED <<disk, page_table, allocated>>
      /\ frames' = [frames EXCEPT ![f].dirty = @ \/ is_dirty,
                                  ![f].pin = @ - 1]
  BY DEF UnpinPage
<1>2. frames \in [Frame -> FrameState] /\ page_table \in [Cached -> Frame]
  BY DEF IInv, PoolInv, PoolTypeOK
<1>3. \A g \in Frame : frames'[g].data = frames[g].data
  BY <1>1, <1>2 DEF FrameState
<1> QED
  BY <1>1, <1>2, <1>3, KeepsContents

(* A flush saves what its clients see of the page, and no other page.      *)
LEMMA SavePageRefines ==
  ASSUME IInv, IInv', NEW p \in Cached, SavePage(p),
         UNCHANGED <<frames, page_table, allocated>>
  PROVE  Abstract!Background
<1> DEFINE f == page_table[p]
<1>1. /\ DiskKeeps(disk, allocated) /\ p \in allocated /\ allocated \subseteq Page
      /\ frames[f].page = p /\ frames[f].data \in Content
  BY DEF IInv, DiskKeeps, PoolInv, PoolTypeOK, PageHasOneFrame,
     TableLeadsToPage, FrameState
<1>2. disk' = Write(disk, p, frames[f].data)
  BY <1>1 DEF SavePage
<1>3. /\ disk'.pages[p] = frames[f].data
      /\ \A q \in Page \ {p} : disk'.pages[q] = disk.pages[q]
  BY <1>1, <1>2, WriteKeeps
<1> QED
  BY <1>1, <1>3, KeepsContents

LEMMA FlushNextRefines ==
  ASSUME IInv, IInv', NEW p \in Page, FlushNext(p)
  PROVE  Abstract!Background
<1>1. p \in Cached /\ UNCHANGED <<frames, page_table, allocated>>
  BY DEF FlushNext, IInv, FlushIsTracked
<1>2. CASE SavePage(p)
  BY <1>1, <1>2, SavePageRefines
<1>3. CASE UNCHANGED disk
  BY <1>1, <1>3, DiskOnlyRefines DEF Agree
<1> QED
  BY <1>2, <1>3 DEF FlushNext

LEMMA ClearDirtyRefines ==
  ASSUME IInv, IInv', ClearDirty
  PROVE  Abstract!Background
<1> DEFINE f == page_table[flush.written]
<1>1. /\ UNCHANGED <<disk, page_table, allocated>>
      /\ frames' = [frames EXCEPT ![f].dirty = FALSE]
  BY DEF ClearDirty
<1>2. frames \in [Frame -> FrameState] /\ page_table \in [Cached -> Frame]
  BY DEF IInv, PoolInv, PoolTypeOK
<1>3. \A g \in Frame : frames'[g].data = frames[g].data
  BY <1>1, <1>2 DEF FrameState
<1> QED
  BY <1>1, <1>2, <1>3, KeepsContents

-------------------------------------------------------------------------------
(* The steps that change what clients see.                                 *)
LEMMA ChangePageRefines ==
  ASSUME IInv, NEW c \in Client, NEW p \in Page, NEW u \in Update,
         ChangePage(c, p, u)
  PROVE  u \in Content /\ Abstract!Overwrite(p, u)
<1> DEFINE f == held[c][p]
           store == [q \in allocated |-> IF q \in Cached
                                         THEN frames[page_table[q]].data
                                         ELSE disk.pages[q]]
<1>1. /\ UNCHANGED <<disk, page_table, allocated>> /\ Cached' = Cached
      /\ frames' = [frames EXCEPT ![f].data = u, ![f].dirty = TRUE]
  BY DEF ChangePage, Cached
<1>2. /\ p \in Cached /\ p \in allocated /\ page_table[p] = f /\ f \in Frame
      /\ frames \in [Frame -> FrameState] /\ page_table \in [Cached -> Frame]
      /\ \A q \in Cached : page_table[q] = f => q = p
  BY DEF ChangePage, Holds, IInv, PoolInv, PoolTypeOK, PinnedPageStays,
     PageHasOneFrame, TableLeadsToPage
<1>3. /\ frames'[f].data = u
      /\ \A g \in Frame \ {f} : frames'[g] = frames[g]
  BY <1>1, <1>2 DEF FrameState
<1>4. \A q \in allocated :
        (IF q \in Cached THEN frames[page_table[q]].data ELSE disk.pages[q])'
          = IF q = p THEN u ELSE store[q]
  <2> SUFFICES ASSUME NEW q \in allocated
               PROVE  (IF q \in Cached THEN frames'[page_table[q]].data
                                       ELSE disk.pages[q])
                        = IF q = p THEN u ELSE store[q]
    BY <1>1
  <2>1. CASE q = p
    BY <1>2, <1>3, <2>1
  <2>2. CASE q # p /\ q \in Cached
    <3>1. page_table[q] \in Frame \ {f}
      BY <1>2, <2>2
    <3> QED
      BY <1>3, <2>2, <3>1
  <2>3. CASE q # p /\ q \notin Cached
    BY <2>3
  <2> QED
    BY <2>1, <2>2, <2>3
<1>5. store' = [store EXCEPT ![p] = u]
  <2>1. store' = [q \in allocated |-> IF q = p THEN u ELSE store[q]]
    BY <1>1, <1>4
  <2> QED
    BY <2>1
<1>6. u \in Content
  BY PoolConstants DEF Content
<1> QED
  BY <1>1, <1>2, <1>5, <1>6 DEF Abstract!Overwrite

LEMMA DeletePageRefines ==
  ASSUME OrderlyUse, IInv, IInv', NEW p \in Page, DeletePage(p)
  PROVE  Abstract!Delete(p) \/ Abstract!Background
<1>1. PICK r \in DeallocatePage(disk, p) :
        /\ disk' = r.disk
        /\ allocated' = IF r.ok THEN allocated \ {p} ELSE allocated
        /\ IF r.ok /\ p \in Cached
           THEN /\ page_table' = [q \in Cached \ {p} |-> page_table[q]]
                /\ frames' = [frames EXCEPT ![page_table[p]] =
                                [@ EXCEPT !.page = INVALID_PAGE_ID, !.pin = 0,
                                          !.dirty = FALSE]]
           ELSE UNCHANGED <<page_table, frames>>
  BY DEF DeletePage, Deallocate
<1>2. p \in allocated /\ DiskKeeps(disk, allocated)
  BY DEF DeletePage, IInv
<1>3. /\ r.ok \in BOOLEAN
      /\ ~r.ok => r.disk = disk
      /\ Agree(disk, r.disk, allocated \ {p})
  BY <1>2, DeallocateKeeps
<1>4. CASE ~r.ok
  <2>1. UNCHANGED <<frames, page_table, allocated>> /\ disk' = disk
    BY <1>1, <1>3, <1>4
  <2> QED
    BY <2>1, DiskOnlyRefines DEF Agree
<1>5. CASE r.ok
  <2>1. frames \in [Frame -> FrameState] /\ page_table \in [Cached -> Frame]
    BY DEF IInv, PoolInv, PoolTypeOK
  <2>2. \A g \in Frame : frames'[g].data = frames[g].data
    <3>1. CASE p \notin Cached
      BY <1>1, <3>1
    <3>2. CASE p \in Cached
      <4> DEFINE f == page_table[p]
                 empty == [frames[f] EXCEPT !.page = INVALID_PAGE_ID, !.pin = 0,
                                            !.dirty = FALSE]
      <4>1. frames' = [frames EXCEPT ![f] = empty]
        BY <1>1, <1>5, <3>2
      <4>2. f \in Frame /\ frames[f] \in FrameState
        BY <2>1, <3>2
      <4>3. empty.data = frames[f].data
        BY <4>2 DEF FrameState
      <4> HIDE DEF empty
      <4> QED
        BY <2>1, <4>1, <4>2, <4>3
    <3> QED
      BY <3>1, <3>2
  <2>3. /\ Cached' = Cached \ {p}
        /\ \A q \in Cached \ {p} : page_table'[q] = page_table[q]
    BY <1>1, <1>5 DEF Cached
  <2>4. \A q \in allocated \ {p} :
          (IF q \in Cached THEN frames[page_table[q]].data ELSE disk.pages[q])'
            = IF q \in Cached THEN frames[page_table[q]].data ELSE disk.pages[q]
    BY <1>1, <1>3, <2>1, <2>2, <2>3 DEF Agree
  <2>5. allocated' = allocated \ {p}
    BY <1>1, <1>5
  <2>6. /\ disk'.pages \in [Page -> Content]
        /\ \A q \in allocated \ {p} : disk'.pages[q] = disk.pages[q]
    BY <1>1, <1>3 DEF IInv, DiskKeeps, Disk, Agree
  <2> QED
    BY <1>2, <2>4, <2>5, <2>6 DEF Abstract!Delete, Abstract!Save
<1> QED
  BY <1>3, <1>4, <1>5

LEMMA RestartRefines ==
  ASSUME IInv, Restart
  PROVE  Abstract!Restart
<1>1. disk'.pages = disk.pages
  BY DEF Restart, Reopen, IInv, DiskKeeps, Disk
<1>2. Cached' = {} /\ allocated' = allocated
  BY DEF Restart, Cached, NoMapping
<1> QED
  BY <1>1, <1>2 DEF Abstract!Restart

-------------------------------------------------------------------------------
LEMMA StepRefines ==
  ASSUME OrderlyUse, IInv, IInv', [Next]_vars
  PROVE  [Abstract!Next]_(Abstract!vars)
<1> USE DEF Abstract!Next
<1>1. CASE UNCHANGED vars
  BY <1>1 DEF vars, Cached, Abstract!vars
<1>2. ASSUME NEW c \in Client, NEW p \in Page,
             \/ FetchHit(c, p) \/ FetchMiss(c, p)
             \/ FetchFlushFails(c, p) \/ FetchReadFails(c, p)
      PROVE  Abstract!Background
  BY <1>2, FetchHitRefines, FetchMissRefines, FetchFlushFailsRefines,
     FetchReadFailsRefines
<1>3. ASSUME NEW c \in Client, NEW p \in Page, NEW u \in Update,
             ChangePage(c, p, u)
      PROVE  u \in Content /\ Abstract!Overwrite(p, u)
  BY <1>3, ChangePageRefines
<1>4. ASSUME NEW c \in Client, NEW p \in Page, NEW is_dirty \in BOOLEAN,
             UnpinPage(c, p, is_dirty)
      PROVE  Abstract!Background
  BY <1>4, UnpinPageRefines
<1>5. ASSUME NEW c \in Client, NewPage(c) PROVE \E p \in Page : Abstract!New(p)
  BY <1>5, NewPageRefines
<1>6. ASSUME NewPageAllocationFails \/ NewPageNoFrame \/ NewPageFlushFails
      PROVE  Abstract!Background
  BY <1>6, NewPageFailsRefines
<1>7. ASSUME NEW p \in Page, DeletePage(p)
      PROVE  Abstract!Delete(p) \/ Abstract!Background
  BY <1>7, DeletePageRefines
<1>8. ASSUME NEW p \in Page, FlushPage(p) \/ FlushNext(p)
      PROVE  Abstract!Background
  BY <1>8, SavePageRefines, FlushNextRefines DEF FlushPage
<1>9. ASSUME FlushAllPages \/ ClearDirty \/ FlushReturns
      PROVE  Abstract!Background
  BY <1>9, DiskOnlyRefines, ClearDirtyRefines
     DEF FlushAllPages, FlushReturns, Agree
<1>10. CASE Restart
  BY <1>10, RestartRefines
<1> QED
  BY <1>1, <1>2, <1>3, <1>4, <1>5, <1>6, <1>7, <1>8, <1>9, <1>10 DEF Next

(* Caching is invisible: whatever FetchPage, NewPage, DeletePageEx,        *)
(* UnpinPageEx, the flushes and a restart do, in whatever order and        *)
(* whichever of them fails, every client finds in a page what was written  *)
(* to it last, and after a restart what was saved of it last.              *)
THEOREM Refinement ==
  ASSUME OrderlyUse
  PROVE  Spec => ImplementsPageStore
<1>1. Init => Abstract!Init
  BY InitHolds DEF Init, Abstract!Init, IInv, DiskKeeps, Disk
<1>2. IInv /\ IInv' /\ [Next]_vars => [Abstract!Next]_(Abstract!vars)
  BY StepRefines
<1> QED
  BY <1>1, <1>2, Invariance, PTL DEF Spec, ImplementsPageStore, Abstract!Spec
===============================================================================
