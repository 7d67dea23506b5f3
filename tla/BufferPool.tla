------------------------------ MODULE BufferPool ------------------------------
(***************************************************************************)
(* buffer/buffer_pool_manager/buffer_pool_manager.cxx over the disk        *)
(* manager, with the clients that fetch, change and release pages.         *)
(*                                                                         *)
(* Every operation of the pool runs under latch_ and is one action, except *)
(* that a flush writes the page and clears its dirty flag in two: the      *)
(* clients change a pinned page, and mark it dirty, without latch_.        *)
(* A call that returns an error and changes nothing is no step.            *)
(*                                                                         *)
(* The replacer is the abstract one (Replacer, which LruKReplacer          *)
(* implements): any evictable frame may be the victim.                     *)
(***************************************************************************)
EXTENDS DiskManager, FiniteSets, Sequences

CONSTANTS
  PoolSize,                 \* pool_size_, the number of frames
  Client,                   \* the threads that use the pool
  Update,                   \* the contents clients write into pages
  Blank,                    \* what Page::InitBlank makes of a frame
  StrayFetch                \* which pages that do not exist clients ask for:
                            \* "past" the end of the file, or "deleted"

ASSUME PoolConstants ==
  /\ PoolSize \in Nat
  /\ IsFiniteSet(Client)
  /\ Update \subseteq Data
  /\ Blank \in Data
  /\ StrayFetch \subseteq {"past", "deleted"}

VARIABLES
  disk,                     \* disk_manager_ and its file
  frames,                   \* pages_: what each frame holds
  page_table,               \* page_table_: the frame of each cached page
  frame_list,               \* frame_list_: the frames that hold no page
  evictable,                \* the frames replacer_ may choose as victims
  flush,                    \* the flush that holds latch_, if one does
  held,                     \* the frame in which a client has a page pinned
  wrote,                    \* the pages a client has changed and not released
  allocated                 \* the pages created and not deleted

vars == <<disk, frames, page_table, frame_list, evictable, flush, held, wrote,
          allocated>>

Frame == 0 .. PoolSize - 1
NoFrame == PoolSize

FrameState == [page : Page \cup {INVALID_PAGE_ID}, data : Content,
               pin : Nat, dirty : BOOLEAN]

EmptyFrame == [page |-> INVALID_PAGE_ID, data |-> Zero, pin |-> 0,
               dirty |-> FALSE]

Flush == [op : {"none", "page", "all"}, todo : SUBSET Page,
          written : Page \cup {INVALID_PAGE_ID}]

NoFlush == [op |-> "none", todo |-> {}, written |-> INVALID_PAGE_ID]

(* What the constructor makes of the pool, and clients that hold nothing. *)
EmptyPool == [f \in Frame |-> EmptyFrame]
AllFrames_OffByOne == [i \in 1 .. PoolSize |-> i]
AllFrames == [i \in 1 .. PoolSize |-> i - 1]
NoMapping == [p \in {} |-> NoFrame]
NothingHeld == [c \in Client |-> [p \in Page |-> NoFrame]]
NothingWritten == [c \in Client |-> {}]

Init ==
  /\ disk = NewFile
  /\ frames = EmptyPool
  /\ page_table = NoMapping
  /\ frame_list = AllFrames
  /\ evictable = {}
  /\ flush = NoFlush
  /\ held = NothingHeld
  /\ wrote = NothingWritten
  /\ allocated = {}

-------------------------------------------------------------------------------
Cached == DOMAIN page_table
LatchFree == flush.op = "none"
Holds(c, p) == held[c][p] # NoFrame

(* GetVictimFrame: the free frames first, oldest first, then a victim of   *)
(* the replacer; none when every frame is pinned.                          *)
Victims ==
  IF frame_list # <<>>
  THEN {[frame |-> Head(frame_list), rest |-> Tail(frame_list),
         evictable |-> evictable]}
  ELSE {[frame |-> f, rest |-> frame_list, evictable |-> evictable \ {f}] :
          f \in evictable}

TakeVictim(v) ==
  /\ frame_list' = v.rest
  /\ evictable' = v.evictable

(* A dirty victim is written to the file d before its frame is reused. *)
VictimFlushEnds(v, d) ==
  IF frames[v.frame].dirty THEN WriteEnds(d, frames[v.frame].page) ELSE {TRUE}

FlushVictim_Skipped(v, d) == d

FlushVictim(v, d) ==
  IF frames[v.frame].dirty
  THEN Write(d, frames[v.frame].page, frames[v.frame].data) ELSE d

Install_KeepsOldMapping(f, p, c) ==
  /\ frames' = [frames EXCEPT ![f] = [page |-> p, data |-> c, pin |-> 1,
                                      dirty |-> FALSE]]
  /\ page_table' = [q \in Cached \cup {p} |-> IF q = p THEN f ELSE page_table[q]]

(* The frame leaves its old page and holds page p, pinned once. *)
Install(f, p, c) ==
  /\ frames' = [frames EXCEPT ![f] = [page |-> p, data |-> c, pin |-> 1,
                                      dirty |-> FALSE]]
  /\ page_table' = [q \in (Cached \ {frames[f].page}) \cup {p} |->
                      IF q = p THEN f ELSE page_table[q]]

GrantPin(c, p, f) == held' = [held EXCEPT ![c][p] = f]

-------------------------------------------------------------------------------
(* FetchPage.  The client asks for a page it knows, for one the file does  *)
(* not have, or for one that has been deleted since it learnt of it: an    *)
(* iterator that stood on a page, a record id that is out of date.         *)
MayAskFor(c, p) ==
  /\ LatchFree
  /\ ~Holds(c, p)
  /\ \/ p \in allocated
     \/ "past" \in StrayFetch /\ p >= disk.size
     \/ "deleted" \in StrayFetch /\ p < disk.size

FetchHit_StaysEvictable(c, p) ==
  /\ MayAskFor(c, p)
  /\ p \in Cached
  /\ frames' = [frames EXCEPT ![page_table[p]].pin = @ + 1]
  /\ GrantPin(c, p, page_table[p])
  /\ UNCHANGED <<disk, page_table, frame_list, evictable, flush, wrote, allocated>>

FetchHit_DoesNotCount(c, p) ==
  /\ MayAskFor(c, p)
  /\ p \in Cached
  /\ frames' = [frames EXCEPT ![page_table[p]].pin = 1]
  /\ evictable' = evictable \ {page_table[p]}
  /\ GrantPin(c, p, page_table[p])
  /\ UNCHANGED <<disk, page_table, frame_list, flush, wrote, allocated>>

FetchHit(c, p) ==
  /\ MayAskFor(c, p)
  /\ p \in Cached
  /\ frames' = [frames EXCEPT ![page_table[p]].pin = @ + 1]
  /\ evictable' = evictable \ {page_table[p]}
  /\ GrantPin(c, p, page_table[p])
  /\ UNCHANGED <<disk, page_table, frame_list, flush, wrote, allocated>>

FetchMiss(c, p) ==
  /\ MayAskFor(c, p)
  /\ p \notin Cached
  /\ \E v \in Victims :
       /\ TRUE \in VictimFlushEnds(v, disk)
       /\ TRUE \in ReadEnds(FlushVictim(v, disk), p)
       /\ TakeVictim(v)
       /\ disk' = FlushVictim(v, disk)
       /\ Install(v.frame, p, disk'.pages[p])
       /\ GrantPin(c, p, v.frame)
  /\ UNCHANGED <<flush, wrote, allocated>>

FetchFlushFails_ClearsDirty(c, p) ==
  /\ MayAskFor(c, p)
  /\ p \notin Cached
  /\ \E v \in Victims :
       /\ FALSE \in VictimFlushEnds(v, disk)
       /\ TakeVictim(v)
       /\ frames' = [frames EXCEPT ![v.frame].dirty = FALSE]
  /\ UNCHANGED <<disk, page_table, flush, held, wrote, allocated>>

(* The victim cannot be written: it stays mapped and dirty, but the frame  *)
(* was already taken from the replacer.                                    *)
FetchFlushFails(c, p) ==
  /\ MayAskFor(c, p)
  /\ p \notin Cached
  /\ \E v \in Victims :
       /\ FALSE \in VictimFlushEnds(v, disk)
       /\ TakeVictim(v)
  /\ UNCHANGED <<disk, frames, page_table, flush, held, wrote, allocated>>

(* What a failed read leaves of a clean frame: a read that breaks off has  *)
(* overwritten its first bytes, where a page keeps its own id.             *)
LeftByRead(d, p, frame) ==
  {frame} \cup
  (IF p < d.size /\ "short_read" \in Faults
   THEN [page : {frame.page, p}, data : Data, pin : {frame.pin}, dirty : {FALSE}]
   ELSE {})

(* The page cannot be read: the victim stays mapped, and the frame is lost *)
(* to the free list or the replacer it came from.                          *)
FetchReadFails(c, p) ==
  /\ MayAskFor(c, p)
  /\ p \notin Cached
  /\ \E v \in Victims :
       /\ TRUE \in VictimFlushEnds(v, disk)
       /\ FALSE \in ReadEnds(FlushVictim(v, disk), p)
       /\ TakeVictim(v)
       /\ disk' = FlushVictim(v, disk)
       /\ \E left \in LeftByRead(disk', p,
                                  [frames[v.frame] EXCEPT !.dirty = FALSE]) :
            frames' = [frames EXCEPT ![v.frame] = left]
  /\ UNCHANGED <<page_table, flush, held, wrote, allocated>>

-------------------------------------------------------------------------------
(* NewPage.  The page id comes first, then the frame; every later failure  *)
(* gives the id back.  The new page is not marked dirty: its creator must  *)
(* release it as changed.                                                  *)
NewPage(c) ==
  /\ LatchFree
  /\ \E a \in AllocatePage(disk), v \in Victims :
       /\ a.page # INVALID_PAGE_ID
       /\ TRUE \in VictimFlushEnds(v, a.disk)
       /\ TakeVictim(v)
       /\ disk' = FlushVictim(v, a.disk)
       /\ Install(v.frame, a.page, Blank)
       /\ GrantPin(c, a.page, v.frame)
       /\ wrote' = [wrote EXCEPT ![c] = @ \cup {a.page}]
       /\ allocated' = allocated \cup {a.page}
  /\ UNCHANGED flush

NewPageAllocationFails ==
  /\ LatchFree
  /\ \E a \in AllocatePage(disk) :
       /\ a.page = INVALID_PAGE_ID
       /\ disk' = a.disk
  /\ UNCHANGED <<frames, page_table, frame_list, evictable, flush, held, wrote,
                 allocated>>

NewPageNoFrame ==
  /\ LatchFree
  /\ Victims = {}
  /\ \E a \in AllocatePage(disk) :
       /\ a.page # INVALID_PAGE_ID
       /\ \E rollback \in DeallocatePage(a.disk, a.page) :
            disk' = rollback.disk
  /\ UNCHANGED <<frames, page_table, frame_list, evictable, flush, held, wrote,
                 allocated>>

NewPageFlushFails ==
  /\ LatchFree
  /\ \E a \in AllocatePage(disk), v \in Victims :
       /\ a.page # INVALID_PAGE_ID
       /\ FALSE \in VictimFlushEnds(v, a.disk)
       /\ TakeVictim(v)
       /\ \E rollback \in DeallocatePage(a.disk, a.page) :
            disk' = rollback.disk
  /\ UNCHANGED <<frames, page_table, flush, held, wrote, allocated>>

-------------------------------------------------------------------------------
(* A client changes a page it has pinned, under the page's own latch, and  *)
(* marks it dirty; one that has been deleted it only reads.                *)
ChangePage(c, p, u) ==
  /\ Holds(c, p)
  /\ p \in allocated
  /\ frames' = [frames EXCEPT ![held[c][p]].data = u,
                              ![held[c][p]].dirty = TRUE]
  /\ wrote' = [wrote EXCEPT ![c] = @ \cup {p}]
  /\ UNCHANGED <<disk, page_table, frame_list, evictable, flush, held,
                 allocated>>

UnpinPage_OverwritesDirty(c, p, is_dirty) ==
  /\ LatchFree
  /\ Holds(c, p)
  /\ p \in wrote[c] => is_dirty
  /\ frames' = [frames EXCEPT ![page_table[p]].dirty = is_dirty,
                              ![page_table[p]].pin = @ - 1]
  /\ evictable' = IF frames[page_table[p]].pin = 1
                  THEN evictable \cup {page_table[p]} ELSE evictable
  /\ held' = [held EXCEPT ![c][p] = NoFrame]
  /\ wrote' = [wrote EXCEPT ![c] = @ \ {p}]
  /\ UNCHANGED <<disk, page_table, frame_list, flush, allocated>>

UnpinPage_AlwaysEvictable(c, p, is_dirty) ==
  /\ LatchFree
  /\ Holds(c, p)
  /\ p \in wrote[c] => is_dirty
  /\ frames' = [frames EXCEPT ![page_table[p]].dirty = @ \/ is_dirty,
                              ![page_table[p]].pin = @ - 1]
  /\ evictable' = evictable \cup {page_table[p]}
  /\ held' = [held EXCEPT ![c][p] = NoFrame]
  /\ wrote' = [wrote EXCEPT ![c] = @ \ {p}]
  /\ UNCHANGED <<disk, page_table, frame_list, flush, allocated>>

(* UnpinPageEx, by the client's rule: a page it changed is released dirty. *)
UnpinPage(c, p, is_dirty) ==
  /\ LatchFree
  /\ Holds(c, p)
  /\ p \in wrote[c] => is_dirty
  /\ is_dirty => p \in allocated
  /\ p \in Cached
  /\ frames[page_table[p]].pin > 0
  /\ frames' = [frames EXCEPT ![page_table[p]].dirty = @ \/ is_dirty,
                              ![page_table[p]].pin = @ - 1]
  /\ evictable' = IF frames[page_table[p]].pin = 1
                  THEN evictable \cup {page_table[p]} ELSE evictable
  /\ held' = [held EXCEPT ![c][p] = NoFrame]
  /\ wrote' = [wrote EXCEPT ![c] = @ \ {p}]
  /\ UNCHANGED <<disk, page_table, frame_list, flush, allocated>>

Deallocate_KeepsMapping(p) ==
  \E result \in DeallocatePage(disk, p) :
    /\ disk' = result.disk
    /\ allocated' = IF result.ok THEN allocated \ {p} ELSE allocated
    /\ UNCHANGED <<page_table, frames, frame_list, evictable>>

Deallocate_DropsFrame(p) ==
  \E result \in DeallocatePage(disk, p) :
    /\ disk' = result.disk
    /\ allocated' = IF result.ok THEN allocated \ {p} ELSE allocated
    /\ IF result.ok /\ p \in Cached
       THEN /\ page_table' = [q \in Cached \ {p} |-> page_table[q]]
            /\ frames' = [frames EXCEPT ![page_table[p]] =
                            [@ EXCEPT !.page = INVALID_PAGE_ID, !.pin = 0,
                                      !.dirty = FALSE]]
            /\ evictable' = evictable \ {page_table[p]}
            /\ UNCHANGED frame_list
       ELSE UNCHANGED <<page_table, frames, frame_list, evictable>>

(* DeletePageEx.  A client deletes a page that exists; it still exists     *)
(* when the deletion reports an error.                                     *)
Deallocate(p) ==
  \E result \in DeallocatePage(disk, p) :
    /\ disk' = result.disk
    /\ allocated' = IF result.ok THEN allocated \ {p} ELSE allocated
    /\ IF result.ok /\ p \in Cached
       THEN /\ page_table' = [q \in Cached \ {p} |-> page_table[q]]
            /\ frames' = [frames EXCEPT ![page_table[p]] =
                            [@ EXCEPT !.page = INVALID_PAGE_ID, !.pin = 0,
                                      !.dirty = FALSE]]
            /\ frame_list' = Append(frame_list, page_table[p])
            /\ evictable' = evictable \ {page_table[p]}
       ELSE UNCHANGED <<page_table, frames, frame_list, evictable>>

DeletePage(p) ==
  /\ LatchFree
  /\ p \in allocated
  /\ p \in Cached => frames[page_table[p]].pin = 0
  /\ Deallocate(p)
  /\ UNCHANGED <<flush, held, wrote>>

-------------------------------------------------------------------------------
(* FlushPage and FlushAllPages, from the write of a page to the clearing   *)
(* of its dirty flag and, for the second, over all pages in some order.    *)
(* A page is copied in one step.  The code writes page.Data() without the  *)
(* page's latch, so that half of a concurrent change could be copied;      *)
(* nobody in the repository changes a page that is being flushed.          *)
SavePage(p) ==
  /\ TRUE \in WriteEnds(disk, frames[page_table[p]].page)
  /\ disk' = Write(disk, frames[page_table[p]].page,
                   frames[page_table[p]].data)

FlushPage(p) ==
  /\ LatchFree
  /\ p \in Cached
  /\ SavePage(p)
  /\ flush' = [op |-> "page", todo |-> {}, written |-> p]
  /\ UNCHANGED <<frames, page_table, frame_list, evictable, held, wrote,
                 allocated>>

FlushAllPages ==
  /\ LatchFree
  /\ flush' = [op |-> "all", todo |-> Cached, written |-> INVALID_PAGE_ID]
  /\ UNCHANGED <<disk, frames, page_table, frame_list, evictable, held, wrote,
                 allocated>>

FlushNext_SkipsPinned(p) ==
  /\ p \in flush.todo
  /\ flush.written = INVALID_PAGE_ID
  /\ IF frames[page_table[p]].dirty /\ frames[page_table[p]].pin = 0
     THEN /\ SavePage(p)
          /\ flush' = [flush EXCEPT !.todo = @ \ {p}, !.written = p]
     ELSE flush' = [flush EXCEPT !.todo = @ \ {p}] /\ UNCHANGED disk
  /\ UNCHANGED <<frames, page_table, frame_list, evictable, held, wrote,
                 allocated>>

FlushNext(p) ==
  /\ p \in flush.todo
  /\ flush.written = INVALID_PAGE_ID
  /\ IF frames[page_table[p]].dirty
     THEN \/ /\ SavePage(p)
             /\ flush' = [flush EXCEPT !.todo = @ \ {p}, !.written = p]
          \/ /\ FALSE \in WriteEnds(disk, frames[page_table[p]].page)
             /\ flush' = NoFlush
             /\ UNCHANGED disk
     ELSE flush' = [flush EXCEPT !.todo = @ \ {p}] /\ UNCHANGED disk
  /\ UNCHANGED <<frames, page_table, frame_list, evictable, held, wrote,
                 allocated>>

ClearDirty ==
  /\ flush.written # INVALID_PAGE_ID
  /\ frames' = [frames EXCEPT ![page_table[flush.written]].dirty = FALSE]
  /\ flush' = [flush EXCEPT !.written = INVALID_PAGE_ID]
  /\ UNCHANGED <<disk, page_table, frame_list, evictable, held, wrote,
                 allocated>>

FlushReturns ==
  /\ ~LatchFree
  /\ flush.todo = {}
  /\ flush.written = INVALID_PAGE_ID
  /\ flush' = NoFlush
  /\ UNCHANGED <<disk, frames, page_table, frame_list, evictable, held, wrote,
                 allocated>>

-------------------------------------------------------------------------------
(* The process ends, at any point and without flushing (the pool has no    *)
(* destructor that would), and another one opens the file.                 *)
Restart ==
  /\ disk' = Reopen(disk)
  /\ frames' = EmptyPool
  /\ page_table' = NoMapping
  /\ frame_list' = AllFrames
  /\ evictable' = {}
  /\ flush' = NoFlush
  /\ held' = NothingHeld
  /\ wrote' = NothingWritten
  /\ UNCHANGED allocated

Next ==
  \/ \E c \in Client, p \in Page :
       \/ FetchHit(c, p)
       \/ FetchMiss(c, p)
       \/ FetchFlushFails(c, p)
       \/ FetchReadFails(c, p)
       \/ \E u \in Update : ChangePage(c, p, u)
       \/ \E is_dirty \in BOOLEAN : UnpinPage(c, p, is_dirty)
  \/ \E c \in Client : NewPage(c)
  \/ NewPageAllocationFails
  \/ NewPageNoFrame
  \/ NewPageFlushFails
  \/ \E p \in Page : DeletePage(p) \/ FlushPage(p) \/ FlushNext(p)
  \/ FlushAllPages
  \/ ClearDirty
  \/ FlushReturns
  \/ Restart

Spec == Init /\ [][Next]_vars

-------------------------------------------------------------------------------
(* The state is well typed. *)
TypeOK ==
  /\ disk \in Disk
  /\ frames \in [Frame -> FrameState]
  /\ Cached \subseteq Page
  /\ page_table \in [Cached -> Frame]
  /\ frame_list \in Seq(Frame)
  /\ evictable \subseteq Frame
  /\ flush \in Flush
  /\ held \in [Client -> [Page -> Frame \cup {NoFrame}]]
  /\ wrote \in [Client -> SUBSET Page]
  /\ allocated \subseteq Page

(* "page_id ----> page_table_ ----> frame_id ----> pages_[frame_id]"       *)
(* (buffer_pool_manager.h:47): following page_table_ leads to the page.    *)
TableLeadsToPage == \A p \in Cached : frames[page_table[p]].page = p

(* A page is in one frame at most, and page_table_ names it: two frames    *)
(* for one page would be two copies that drift apart.                      *)
PageHasOneFrame ==
  /\ TableLeadsToPage
  /\ \A f \in Frame : frames[f].page # INVALID_PAGE_ID =>
       frames[f].page \in Cached /\ page_table[frames[f].page] = f

(* What a pin is for: the page stays in the frame its holder points into,  *)
(* however many pages are fetched, created and deleted meanwhile.          *)
PinnedPageStays ==
  \A c \in Client, p \in Page :
    Holds(c, p) => p \in Cached /\ page_table[p] = held[c][p]

(* The pin count is the number of holders, so that a page becomes          *)
(* replaceable at the last release, not before and not never.              *)
PinsCountHolders ==
  \A f \in Frame :
    frames[f].pin = Cardinality({c \in Client : \E p \in Page : held[c][p] = f})

(* A frame that may be handed out is in nobody's use: a victim holds a     *)
(* page without pins, a free frame holds none, and no frame is offered     *)
(* twice.                                                                  *)
OfferedFramesAreIdle ==
  /\ \A f \in evictable : frames[f].pin = 0 /\ frames[f].page # INVALID_PAGE_ID
  /\ \A i \in 1 .. Len(frame_list) :
       /\ frames[frame_list[i]].page = INVALID_PAGE_ID
       /\ frames[frame_list[i]].pin = 0
       /\ ~frames[frame_list[i]].dirty
  /\ \A i, j \in 1 .. Len(frame_list) :
       frame_list[i] = frame_list[j] => i = j

(* A page that is not dirty is in the file as it is in its frame, unless   *)
(* a client is still to release it as changed: also when a flush clears    *)
(* the flag of a page that was changed after it was written.               *)
CleanPagesAreSaved ==
  \A p \in Cached :
    \/ frames[page_table[p]].dirty
    \/ frames[page_table[p]].data = disk.pages[p]
    \/ \E c \in Client : p \in wrote[c]

(* The free list ends, and no page on it exists for a client or is cached: *)
(* a stale frame written back would destroy the list.                      *)
FreePagesAreNobodys ==
  /\ FreeListHop(disk)[MaxPage] = INVALID_PAGE_ID
  /\ FreePages(disk) \cap (allocated \cup Cached) = {}

(* A frame nobody has pinned can be had: it is free, or the replacer may   *)
(* choose it.  Otherwise the pool shrinks for good.                        *)
UnpinnedFramesAreAvailable ==
  \A f \in Frame : frames[f].pin = 0 =>
    f \in evictable \/ \E i \in 1 .. Len(frame_list) : frame_list[i] = f

(* "Both sources are exhausted, so there is no frame to be had"            *)
(* (buffer_pool_manager.cxx:434): GetVictimFrame refuses only while every  *)
(* frame is pinned.                                                        *)
RefusesOnlyWhenAllPinned ==
  Victims = {} => \A f \in Frame : frames[f].pin > 0

(* Page 0 holds the header and pages 1 and up everything else              *)
(* (disk_manager.h:44-45): no page but those is handed out to be written.  *)
HandsOutOnlyDataPages ==
  \A a \in AllocatePage(disk) : a.page \in Page \cup {INVALID_PAGE_ID}

(* When FlushAllPages returns without an error, every cached page is       *)
(* clean, but for those a client is changing: what recovery relies on      *)
(* when it truncates the log after it.                                     *)
CheckpointIsComplete ==
  [][flush.op = "all" /\ flush.todo = {} /\ FlushReturns =>
       \A p \in Cached : \/ frames[page_table[p]].data = disk.pages[p]
                         \/ \E c \in Client : p \in wrote[c]]_vars

(* The pages the clients see: the cached copy where there is one. *)
Abstract == INSTANCE PageStore WITH
  store   <- [p \in allocated |-> IF p \in Cached
                                  THEN frames[page_table[p]].data
                                  ELSE disk.pages[p]],
  durable <- disk.pages

(* Caching is invisible: replacement, flushing, failed operations and      *)
(* refetching never change what a page holds, and a restart shows the      *)
(* content saved last.                                                     *)
ImplementsPageStore == Abstract!Spec
===============================================================================
