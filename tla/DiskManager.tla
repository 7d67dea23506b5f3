------------------------------ MODULE DiskManager ------------------------------
(***************************************************************************)
(* storage/disk/disk_manager.cxx: the database file, its header page and   *)
(* the on-disk list of free pages.                                         *)
(*                                                                         *)
(* DiskManager has no lock of its own; the buffer pool calls it under its  *)
(* latch.  An operation is therefore an operator from a disk to the set of *)
(* disks and results it can end with, one for each way its file accesses   *)
(* can succeed or fail; DiskClient and BufferPool turn them into actions.  *)
(*                                                                         *)
(* A page's content is a member of Data or, once the page is freed, a link *)
(* to the next free page.  A link lies where a data page keeps its lsn,    *)
(* which is always 0: data read as a link points to page 0.                *)
(***************************************************************************)
EXTENDS Naturals

CONSTANTS
  MaxPage,                  \* bound on the page ids the file can grow to
  Data,                     \* what a page in use can hold
  Zero,                     \* the zero-filled page an append writes
  Faults                    \* which file accesses may fail

ASSUME DiskConstants ==
  /\ MaxPage \in Nat \ {0}
  /\ Zero \in Data
  /\ Faults \subseteq {"read", "short_read", "write", "header"}

Page == 1 .. MaxPage
INVALID_PAGE_ID == MaxPage + 1
MagicAsPage == MaxPage + 2  \* the header's first bytes read as a page id
PageRef == 0 .. MagicAsPage

Link == [nextFree : PageRef]
LinkTo(p) == [nextFree |-> p]
Content == Data \cup Link

ASSUME DataIsNotALink == Data \cap Link = {}

Header == [next : PageRef, free : PageRef, catalog : PageRef]

Disk == [pages   : [Page -> Content],   \* the file's pages after page 0
         size    : 1 .. MaxPage + 1,    \* the file's length in pages
         header  : Header,              \* what page 0 holds
         next    : PageRef,             \* next_page_id_
         free    : PageRef,             \* free_list_head_
         catalog : PageRef]             \* catalog_meta_page_id_

-------------------------------------------------------------------------------
(* The constructor on a file that does not exist yet. *)
NewFile ==
  [pages   |-> [p \in Page |-> Zero],
   size    |-> 1,
   header  |-> [next |-> 1, free |-> INVALID_PAGE_ID,
                catalog |-> INVALID_PAGE_ID],
   next    |-> 1,
   free    |-> INVALID_PAGE_ID,
   catalog |-> INVALID_PAGE_ID]

(* The constructor on an existing file: LoadHeader overrides the size-     *)
(* based guess of OpenFile, and repairs two values an old header may hold. *)
Reopen(d) ==
  [d EXCEPT !.next    = IF d.header.next < 1 THEN 1 ELSE d.header.next,
            !.free    = d.header.free,
            !.catalog = IF d.header.catalog = 0 THEN INVALID_PAGE_ID
                                                ELSE d.header.catalog]

(* The ways an access to the file can end: an id outside the file always   *)
(* fails, any access may fail for the reasons Faults admits.  A "read"     *)
(* fault delivers nothing, a "short_read" a part of the page.              *)
ReadMayFail == Faults \cap {"read", "short_read"} # {}

ReadEnds(d, p) ==
  {ok \in BOOLEAN : IF ok THEN p < d.size ELSE p >= d.size \/ ReadMayFail}

WriteEnds_InvalidIdPasses(d, p) ==
  {ok \in BOOLEAN : IF ok THEN p \in Page \cup {INVALID_PAGE_ID} /\ p <= d.size
                          ELSE p > d.size \/ "write" \in Faults}

WriteEnds(d, p) ==
  {ok \in BOOLEAN : IF ok THEN p \in Page /\ p <= d.size
                          ELSE p \notin Page \/ p > d.size \/ "write" \in Faults}

HeaderEnds == {ok \in BOOLEAN : ok \/ "header" \in Faults}

Write(d, p, c) ==
  [d EXCEPT !.pages[p] = c, !.size = IF p = @ THEN p + 1 ELSE @]

PersistHeader_OmitsNext(d, ok) ==
  IF ok THEN [d EXCEPT !.header.free = d.free, !.header.catalog = d.catalog]
        ELSE d

PersistHeader(d, ok) ==
  IF ok THEN [d EXCEPT !.header = [next    |-> d.next,
                                   free    |-> d.free,
                                   catalog |-> d.catalog]]
        ELSE d

(* The first eight bytes of page p, read as the id of a free page. *)
NextFree(d, p) ==
  CASE p = 0 -> MagicAsPage
    [] p \in Page /\ d.pages[p] \in Link -> d.pages[p].nextFree
    [] OTHER -> 0

-------------------------------------------------------------------------------
Allocated(d, p) == [disk |-> d, page |-> p]
AllocateFailed(d) == Allocated(d, INVALID_PAGE_ID)

RecycleHead_KeepsHead(d) ==
  {IF ok THEN Allocated(PersistHeader(d, TRUE), d.free)
         ELSE AllocateFailed(d) : ok \in HeaderEnds}

(* The head of the free list is reused.  The head moves in memory before   *)
(* the header is persisted, and stays moved when that fails.               *)
RecycleHead(d) ==
  LET popped == [d EXCEPT !.free = NextFree(d, d.free)]
  IN  {IF ok THEN Allocated(PersistHeader(popped, TRUE), d.free)
             ELSE AllocateFailed(popped) : ok \in HeaderEnds}

AppendPage_ZeroesLast(d) ==
  LET grown == [d EXCEPT !.pages = [p \in Page |->
                   IF p \in {d.next - 1, d.next} THEN Zero ELSE d.pages[p]],
                         !.size = d.next + 1,
                         !.next = d.next + 1]
  IN  {IF ok THEN Allocated(PersistHeader(grown, TRUE), d.next)
             ELSE AllocateFailed(grown) : ok \in HeaderEnds}

(* A zero page is written past the end of the file. *)
AppendPage(d) ==
  LET grown == [Write(d, d.next, Zero) EXCEPT !.next = d.next + 1]
  IN  {IF ok THEN Allocated(PersistHeader(grown, TRUE), d.next)
             ELSE AllocateFailed(grown) : ok \in HeaderEnds}

AllocatePage(d) ==
  IF d.free # INVALID_PAGE_ID
  THEN UNION {IF ok THEN RecycleHead(d) ELSE {AllocateFailed(d)} :
                ok \in ReadEnds(d, d.free)}
  ELSE UNION {IF ok THEN AppendPage(d) ELSE {AllocateFailed(d)} :
                ok \in WriteEnds(d, d.next)}

(* The free list from its head, hop by hop; it stays where a hop cannot    *)
(* be taken: at the end, at page 0, or past the allocated pages.           *)
FreeListHop(d) ==
  LET hop[n \in PageRef] ==
        IF n = 0 THEN d.free
        ELSE IF hop[n-1] \in Page /\ hop[n-1] < d.next
             THEN NextFree(d, hop[n-1])
             ELSE hop[n-1]
  IN  hop

FreePages(d) == {FreeListHop(d)[n] : n \in PageRef} \ {INVALID_PAGE_ID}

(* The walk before a page is freed: it ends, within next_page_id_ hops,    *)
(* without meeting the page or leaving the allocated pages.                *)
MayJoinFreeList(d, p) ==
  \E n \in 0 .. d.next :
    /\ FreeListHop(d)[n] = INVALID_PAGE_ID
    /\ \A m \in 0 .. n - 1 :
         /\ FreeListHop(d)[m] \notin {0, p}
         /\ FreeListHop(d)[m] < d.next

Deallocated(d, ok) == [disk |-> d, ok |-> ok]

PushFree_DropsRest(d, p) ==
  LET pushed == [Write(d, p, LinkTo(INVALID_PAGE_ID)) EXCEPT !.free = p]
  IN  {Deallocated(PersistHeader(pushed, ok), ok) : ok \in HeaderEnds}

(* The page becomes the head of the free list: its link first, then the    *)
(* head in memory, then the header.                                        *)
PushFree(d, p) ==
  LET pushed == [Write(d, p, LinkTo(d.free)) EXCEPT !.free = p]
  IN  {Deallocated(PersistHeader(pushed, ok), ok) : ok \in HeaderEnds}

DeallocatePage(d, p) ==
  LET mayFree == p \in Page /\ p < d.next /\ MayJoinFreeList(d, p)
      mayFail == \/ ~mayFree
                 \/ FALSE \in WriteEnds(d, p)
                 \/ d.free # INVALID_PAGE_ID /\ ReadMayFail
  IN  (IF mayFree /\ TRUE \in WriteEnds(d, p) THEN PushFree(d, p) ELSE {})
      \cup (IF mayFail THEN {Deallocated(d, FALSE)} ELSE {})

SetCatalogMetaPageId_AllowsNext(d, p) ==
  IF p = 0 \/ (p # INVALID_PAGE_ID /\ p > d.next)
  THEN {Deallocated(d, FALSE)}
  ELSE {Deallocated(PersistHeader([d EXCEPT !.catalog = p], ok), ok) :
          ok \in HeaderEnds}

(* The entry of the catalog's pages; it is set in memory even when the     *)
(* header cannot be written.                                               *)
SetCatalogMetaPageId(d, p) ==
  IF p = 0 \/ (p # INVALID_PAGE_ID /\ p >= d.next)
  THEN {Deallocated(d, FALSE)}
  ELSE {Deallocated(PersistHeader([d EXCEPT !.catalog = p], ok), ok) :
          ok \in HeaderEnds}
===============================================================================
