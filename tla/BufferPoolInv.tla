----------------------------- MODULE BufferPoolInv -----------------------------
(***************************************************************************)
(* The inductive invariant of BufferPool, for any number of frames, pages  *)
(* and clients, when no write of the header page fails, no read breaks     *)
(* off half way, and no client fetches a deleted page.  BufferPoolProofs   *)
(* proves it.                                                              *)
(***************************************************************************)
EXTENDS BufferPool

OrderlyUse ==
  /\ Faults \cap {"header", "short_read"} = {}
  /\ "deleted" \notin StrayFetch

(* F is the set of pages on the free list of disk d: the head and every    *)
(* link stay in F or end the list, and no two of them name the same page.  *)
IsFreeList(d, F) ==
  /\ d.free \in F \cup {INVALID_PAGE_ID}
  /\ \A q \in F :
       /\ q < d.next
       /\ d.pages[q] \in Link
       /\ d.pages[q].nextFree \in (F \ {d.free}) \cup {INVALID_PAGE_ID}
  /\ \A q, r \in F :
       d.pages[q].nextFree = d.pages[r].nextFree =>
         q = r \/ d.pages[q].nextFree = INVALID_PAGE_ID

(* The disk manager's memory, header and file agree, and the pages in A    *)
(* are on the file and not on its free list.                               *)
DiskKeeps(d, A) ==
  /\ d \in Disk
  /\ d.size = d.next
  /\ d.header.next = d.next
  /\ d.header.free = d.free
  /\ A \subseteq {p \in Page : p < d.next}
  /\ \E F \in SUBSET Page : IsFreeList(d, F) /\ F \cap A = {}

Holders(f) == {c \in Client : \E p \in Page : held[c][p] = f}

PoolTypeOK ==
  /\ frames \in [Frame -> FrameState]
  /\ Cached \subseteq Page
  /\ page_table \in [Cached -> Frame]
  /\ frame_list \in Seq(Frame)
  /\ evictable \subseteq Frame
  /\ held \in [Client -> [Page -> Frame \cup {NoFrame}]]

PoolInv ==
  /\ PoolTypeOK
  /\ PageHasOneFrame
  /\ PinnedPageStays
  /\ PinsCountHolders
  /\ OfferedFramesAreIdle

(* A client marks its changes before it releases the page, and the pages a *)
(* flush is busy with stay cached under its latch.                         *)
WrittenPagesAreHeld ==
  /\ wrote \in [Client -> SUBSET Page]
  /\ \A c \in Client : \A p \in wrote[c] : Holds(c, p)

PageIsSaved(p) ==
  \/ frames[page_table[p]].data = disk.pages[p]
  \/ \E c \in Client : p \in wrote[c]

FlushIsTracked ==
  /\ flush \in Flush
  /\ flush.todo \subseteq Cached
  /\ flush.written # INVALID_PAGE_ID =>
       flush.written \in Cached /\ PageIsSaved(flush.written)
  /\ flush.op = "all" => \A p \in Cached \ flush.todo : PageIsSaved(p)
  /\ LatchFree => flush = NoFlush

IInv ==
  /\ DiskKeeps(disk, allocated)
  /\ Cached \subseteq allocated
  /\ PoolInv
  /\ WrittenPagesAreHeld
  /\ FlushIsTracked
  /\ CleanPagesAreSaved

(* A fetch or a creation that fails with the frame it took: the victim     *)
(* cannot be written, or the page cannot be read.                          *)
LosesFrame ==
  \/ \E c \in Client, p \in Page :
       FetchFlushFails(c, p) \/ FetchReadFails(c, p)
  \/ NewPageFlushFails
===============================================================================
