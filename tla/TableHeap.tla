------------------------------- MODULE TableHeap -------------------------------
(***************************************************************************)
(* table/table_heap.cxx and table/table_iterator.cxx: tables as chains of  *)
(* pages over one buffer pool, used by several threads.                    *)
(*                                                                         *)
(* A section the code runs under table_latch_, shared, is one action; so   *)
(* is one under the exclusive latch, but for ReclaimPageIfEmpty, which     *)
(* lets probes reach the page between its check and its end.  What the     *)
(* code does without table_latch_ (the free-space map, NewPage, the probes *)
(* of FindPageWithFreeSpace) is split at every point another thread could  *)
(* notice.                                                                 *)
(*                                                                         *)
(* A page is its slots, the record and the length in each, and its free    *)
(* space; TablePage has the bytes.  The pool is what PageStore promises,   *)
(* with pins, and with calls that fail.                                    *)
(***************************************************************************)
EXTENDS Integers, Sequences, FiniteSets, FiniteSetsExt, Functions

CONSTANTS
  Thread,                   \* the threads that call
  Heap,                     \* the tables
  Rec,                      \* the records
  Owner,                    \* the thread each record is changed by
  NoRec,                    \* what a deleted slot holds
  MaxPage,                  \* bound on the pages of the file
  Capacity,                 \* units of a page after its header
  Length,                   \* the lengths of tuples
  MaxFaults,                \* bound on the calls of the pool that fail
  FailsAgain,               \* whether another may fail in a step where one
                            \* has failed or been refused: in the rollbacks
                            \* of Link and Drop, and in Link's two walks
  Careful                   \* whether clients of a heap without log, which
                            \* reclaims pages, call one at a time and
                            \* change only what an open scan has passed

ASSUME TableHeapConstants ==
  /\ IsFiniteSet(Thread) /\ IsFiniteSet(Heap) /\ Heap # {} /\ IsFiniteSet(Rec)
  /\ Owner \in [Rec -> Thread] /\ NoRec \notin Rec \cup Heap
  /\ MaxPage \in Nat \ {0} /\ MaxFaults \in Nat
  /\ Capacity \in Nat /\ Length \subseteq 1 .. Capacity - 1 /\ Length # {}
  /\ FailsAgain \in BOOLEAN /\ Careful \in BOOLEAN

Page == 1 .. MaxPage
INVALID_PAGE_ID == MaxPage + 1
PageId == 0 .. INVALID_PAGE_ID      \* page 0 is the header, never fetched
SlotSize == 1
MaxSlots == Capacity \div SlotSize

VARIABLES
  wal,                      \* is wal_manager_ set (then no page is reclaimed)
  pages,                    \* what the pool shows of each page
  first_page_id, tail_page_id,                    \* of each heap
  free_space_map,           \* the pages each heap has an entry for
  task,                     \* the call each thread is in
  rids,                     \* where clients were told each record is
  scan,                     \* a TableIterator and what came out of it
  faults                    \* calls of the pool that may still fail

heapvars == <<first_page_id, tail_page_id, free_space_map>>
vars == <<wal, pages, heapvars, task, rids, scan, faults>>

-------------------------------------------------------------------------------
(* Pages. *)

Fresh == [use |-> "fresh", slots |-> <<>>, free |-> 0, next |-> 0]
Freed == [use |-> "freed", slots |-> <<>>, free |-> 0, next |-> 0]
InitForNewPage == [use |-> "heap", slots |-> <<>>, free |-> Capacity,
                   next |-> INVALID_PAGE_ID]

Live(p) == {s \in DOMAIN p.slots : p.slots[s].rec # NoRec}

(* What the bodies of some slots of a page take, a unit at a time.         *)
Bodies(p, S) == {u \in S \X (1 .. Capacity) : u[2] <= p.slots[u[1]].length}

(* FreeSpace after a compaction that leaves out the body of one slot.      *)
Compacted(p, skip) ==
  Capacity - SlotSize * Len(p.slots) - Cardinality(Bodies(p, Live(p) \ {skip}))

Result(p, e, s) == [page |-> p, error |-> e, slot |-> s]

(* TablePage::InsertTuple, with any deleted slot for the head of the list. *)
PageInsert(p, r, n) ==
  LET reuses == DOMAIN p.slots \ Live(p)
      need == n + (IF reuses = {} THEN SlotSize ELSE 0)
      free == IF p.free < need THEN Compacted(p, 0) ELSE p.free
      slot == IF reuses = {} THEN Len(p.slots) + 1 ELSE Min(reuses)
      record == [rec |-> r, length |-> n]
  IN  IF p.use # "heap" THEN Result(p, "FreeListCorrupted", 0)
      ELSE IF free < 0 THEN Result(p, "InvalidSlotContent", 0)
      ELSE IF free < need
           THEN Result([p EXCEPT !.free = free], "InsufficientSpace", 0)
      ELSE Result([p EXCEPT !.free = free - need,
                            !.slots = [s \in 1 .. Max({slot, Len(@)}) |->
                                         IF s = slot THEN record ELSE @[s]]],
                  "none", slot)

(* TablePage::MarkDelTuple. *)
PageDelete(p, s) ==
  LET free == Compacted(p, s)
  IN  IF s \notin Live(p) THEN Result(p, "SlotAlreadyDeleted", s)
      ELSE IF free < 0 THEN Result(p, "InvalidSlotContent", s)
      ELSE Result([p EXCEPT !.free = free,
                            !.slots[s] = [rec |-> NoRec, length |-> 0]],
                  "none", s)

PageUpdate_DropsRefused(p, s, n) ==
  IF s \notin Live(p) THEN Result(p, "SlotAlreadyDeleted", s)
  ELSE IF Compacted(p, s) < n
       THEN Result(PageDelete(p, s).page, "InsufficientSpace", s)
  ELSE Result([p EXCEPT !.free = Compacted(p, s) - n, !.slots[s].length = n],
              "none", s)

(* TablePage::UpdateTuple: the compaction of an update that does not fit   *)
(* has counted the old body as free.                                       *)
PageUpdate(p, s, n) ==
  LET free == IF p.free < n THEN Compacted(p, s) ELSE p.free
  IN  IF s \notin Live(p) THEN Result(p, "SlotAlreadyDeleted", s)
      ELSE IF n <= p.slots[s].length
           THEN Result([p EXCEPT !.slots[s].length = n], "none", s)
      ELSE IF free < 0 THEN Result(p, "InvalidSlotContent", s)
      ELSE IF free < n
           THEN Result([p EXCEPT !.free = free], "InsufficientSpace", s)
      ELSE Result([p EXCEPT !.free = free - n, !.slots[s].length = n],
                  "none", s)

-------------------------------------------------------------------------------
(* Chains. *)

NextOf(p) == IF p \in Page THEN pages[p].next ELSE p

(* The pages met from page p on; the last may be no page.                  *)
Path(p) == LET at[k \in 0 .. MaxPage] ==
                 IF k = 0 THEN p ELSE NextOf(at[k - 1])
           IN  at

Chain(h) == {Path(first_page_id[h])[k] : k \in 0 .. MaxPage} \cap Page

(* Failures come while no scan is open: it would end early, unnoticed.     *)
MayFail == faults > 0 /\ scan.pc = "closed"

(* A walk from page p to the first place that is no page or is in Wanted,  *)
(* or to a page before it, or it, that cannot be fetched.                  *)
Walks(p, Wanted) ==
  LET at == Path(p)
      end == Min({k \in DOMAIN at : at[k] \notin Page \/ at[k] \in Wanted})
      outcomes == {o \in (0 .. end) \X BOOLEAN :
                     IF o[2] THEN MayFail /\ at[o[1]] \in Page
                             ELSE o[1] = end}
  IN  {[stop |-> at[o[1]], failed |-> o[2],
        met |-> {at[i] : i \in 0 .. o[1] - 1},
        last |-> IF o[1] = 0 THEN INVALID_PAGE_ID ELSE at[o[1] - 1]] :
         o \in outcomes}

Found(w) == ~w.failed /\ w.stop \in Page
Costs(failed) == faults' = faults - (IF failed THEN 1 ELSE 0)
Fails == MayFail /\ Costs(TRUE)

(* Several calls of one step: whether one fails after another, and what    *)
(* those that fail cost together.                                          *)
Again == {FALSE} \cup ({TRUE} \cap {FailsAgain /\ MayFail})
One(failed) == IF failed THEN 1 ELSE 0
CostsAll(n) == n <= faults /\ faults' = faults - n

-------------------------------------------------------------------------------
(* Calls. *)

NoRid == [heap |-> NoRec, page |-> INVALID_PAGE_ID, slot |-> 0]
RidAt(h, p, s) == [heap |-> h, page |-> p, slot |-> s]

Idle == [pc |-> "idle", op |-> "none", heap |-> NoRec, rec |-> NoRec,
         size |-> 0, at |-> INVALID_PAGE_ID, tried |-> {},
         old |-> NoRid, new |-> NoRid, next |-> INVALID_PAGE_ID,
         prev |-> INVALID_PAGE_ID]

Continue(t, call) == task' = [task EXCEPT ![t] = call]
Return(t) == Continue(t, Idle)
At(t, pc) == task[t].pc = pc

(* Who holds table_latch_ exclusively at the end of a step, and who has a  *)
(* page pinned then.                                                       *)
Latched(h) == \E t \in Thread : At(t, "drop") /\ task[t].heap = h
Pinned(p) == \E t \in Thread : At(t, "link") /\ task[t].at = p

Free(r) == \A t \in Thread : task[t].rec # r
Alone == Careful /\ ~wal => \A t \in Thread : At(t, "idle")

(* What clients change: one record of theirs at a time, and, if they are   *)
(* careful, none an open scan has still to meet.                           *)
MayChange(r) ==
  /\ Alone /\ Free(r) /\ rids[r] # NoRid
  /\ Careful /\ ~wal /\ scan.pc # "closed" =>
       r \in scan.got
Touch(r) == scan' = [scan EXCEPT !.due = @ \ {r}, !.got = @ \ {r}]

UpdateFreeSpaceMap(h, pids) ==
  free_space_map' = [free_space_map EXCEPT ![h] = @ \cup pids]

Closed == [pc |-> "closed", page |-> INVALID_PAGE_ID, slot |-> 0, due |-> {},
           got |-> {}, twice |-> {}]

(* One table has come from TableHeap::Create, with its first page, or has  *)
(* been opened again with the pages of deleted records; the others come    *)
(* from the constructor, without a page.                                   *)
Init ==
  /\ wal \in BOOLEAN
  /\ LET h == CHOOSE g \in Heap : TRUE IN
       first_page_id = [g \in Heap |-> IF g = h THEN 1 ELSE INVALID_PAGE_ID]
  /\ \E n \in 1 .. (IF wal THEN 2 ELSE 1) :
       pages = [p \in Page |->
                  CASE p < n -> [InitForNewPage EXCEPT !.next = p + 1]
                    [] p = n -> InitForNewPage
                    [] p > n -> Fresh]
  /\ tail_page_id = [h \in Heap |-> INVALID_PAGE_ID]
  /\ free_space_map = [h \in Heap |-> {}]
  /\ task = [t \in Thread |-> Idle]
  /\ rids = [r \in Rec |-> NoRid]
  /\ scan = Closed
  /\ faults = MaxFaults

-------------------------------------------------------------------------------
(* FindPageWithFreeSpace.  What an entry of the map says may be out of     *)
(* date, so any page of the map may be probed, and nothing comes of it     *)
(* when it has no room; the chain is walked when no page of the map has,   *)
(* or none was probed.                                                     *)

CallInsert(t, h, r, n) ==
  /\ At(t, "idle") /\ Alone /\ Free(r) /\ rids[r] = NoRid
  /\ Continue(t, [Idle EXCEPT !.pc = "find", !.op = "insert", !.heap = h,
                              !.rec = r, !.size = n])
  /\ UNCHANGED <<wal, pages, heapvars, rids, scan, faults>>

Target_IgnoresTried(t, p) ==
  Continue(t, [task[t] EXCEPT !.pc = "put", !.at = p])

(* FindPageWithFreeSpace has no page to offer.                             *)
Grow(t) == Continue(t, [task[t] EXCEPT !.pc = "allocate", !.tried = {}])

(* InsertTuple goes on with the page found, once.                          *)
Target(t, p) ==
  IF p \in task[t].tried
  THEN Grow(t)
  ELSE Continue(t, [task[t] EXCEPT !.pc = "put", !.at = p, !.tried = @ \cup {p}])

Probe(t, p) ==
  /\ At(t, "find") /\ p \in free_space_map[task[t].heap]
  /\ \/ /\ pages[p].free >= task[t].size
        /\ Target(t, p)
        /\ UNCHANGED <<free_space_map, faults>>
     \/ /\ Fails
        /\ free_space_map' = [free_space_map EXCEPT ![task[t].heap] = @ \ {p}]
        /\ UNCHANGED task
  /\ UNCHANGED <<wal, pages, first_page_id, tail_page_id, rids, scan>>

Walk(t) ==
  LET h == task[t].heap
      roomy == {p \in Page : pages[p].free >= task[t].size}
  IN  /\ At(t, "find") /\ ~Latched(h)
      /\ \E w \in Walks(first_page_id[h], roomy) :
           /\ UpdateFreeSpaceMap(h, w.met \cup (IF Found(w) THEN {w.stop} ELSE {}))
           /\ IF Found(w) THEN Target(t, w.stop)
                          ELSE Grow(t)
           /\ Costs(w.failed)
      /\ UNCHANGED <<wal, pages, first_page_id, tail_page_id, rids, scan>>

-------------------------------------------------------------------------------
(* AllocateNewPage. *)

NewPages ==
  LET of(use) == {p \in Page : pages[p].use = use}
  IN  IF of("freed") # {} THEN of("freed")
      ELSE {p \in of("fresh") : \A q \in of("fresh") : p <= q}

NewPage(t) ==
  /\ At(t, "allocate")
  /\ \/ \E p \in NewPages :
          /\ pages' = [pages EXCEPT ![p] = InitForNewPage]
          /\ Continue(t, [task[t] EXCEPT !.pc = "link", !.at = p])
          /\ UNCHANGED faults
     \/ /\ IF NewPages = {} THEN UNCHANGED faults ELSE Fails
        /\ Return(t)
        /\ UNCHANGED pages
  /\ UNCHANGED <<wal, heapvars, rids, scan>>

(* DeletePage of a page that nobody has pinned, or nothing.                *)
Deleted(p) == pages' = [pages EXCEPT ![p] = Freed]

Unlinked_TrustsTail == Page

Unlinked == {q \in Page : pages[q].next = INVALID_PAGE_ID}

(* RefreshTailPageIdLocked: the page before the end of the walk.           *)
Refreshed(h) == Walks(first_page_id[h], {})

(* The walk to the end of the chain starts at the tail remembered, or at   *)
(* the one RefreshTailPageIdLocked finds.  The page that cannot be linked  *)
(* is deleted; when that fails, too, it is a page of no table for ever.    *)
Link(t) ==
  LET h == task[t].heap
      p == task[t].at
      refresh == IF tail_page_id[h] # INVALID_PAGE_ID
                 THEN {[last |-> tail_page_id[h], failed |-> FALSE]}
                 ELSE Refreshed(h)
  IN  /\ At(t, "link") /\ ~Latched(h)
      /\ \/ /\ first_page_id[h] = INVALID_PAGE_ID
            /\ first_page_id' = [first_page_id EXCEPT ![h] = p]
            /\ tail_page_id' = [tail_page_id EXCEPT ![h] = p]
            /\ Continue(t, [task[t] EXCEPT !.pc = "putnew"])
            /\ UpdateFreeSpaceMap(h, {p})
            /\ UNCHANGED <<pages, faults>>
         \/ /\ first_page_id[h] # INVALID_PAGE_ID
            /\ \E w1 \in refresh :
                 \E w2 \in Walks(w1.last, Unlinked), leaked \in Again :
                   /\ w1.failed /\ w2.failed => FailsAgain
                   /\ leaked => ~Found(w2)
                   /\ IF Found(w2)
                      THEN /\ pages' = [pages EXCEPT ![w2.stop].next = p]
                           /\ tail_page_id' = [tail_page_id EXCEPT ![h] = p]
                           /\ Continue(t, [task[t] EXCEPT !.pc = "putnew"])
                           /\ UpdateFreeSpaceMap(h, {p})
                      ELSE /\ IF leaked THEN UNCHANGED pages ELSE Deleted(p)
                           /\ tail_page_id' = [tail_page_id EXCEPT ![h] = w2.stop]
                           /\ Return(t)
                           /\ UNCHANGED free_space_map
                   /\ CostsAll(One(w1.failed) + One(w2.failed) + One(leaked))
            /\ UNCHANGED first_page_id
      /\ UNCHANGED <<wal, rids, scan>>

-------------------------------------------------------------------------------
(* InsertTuple: try_insert, and what follows an insertion. *)

Inserted(t, rid) ==
  IF task[t].op = "insert"
  THEN Return(t) /\ rids' = [rids EXCEPT ![task[t].rec] = rid]
  ELSE /\ Continue(t, [task[t] EXCEPT !.pc = "mark", !.new = rid,
                                      !.at = INVALID_PAGE_ID, !.tried = {}])
       /\ UNCHANGED rids

Put(t) ==
  LET h == task[t].heap
      p == task[t].at
      result == PageInsert(pages[p], task[t].rec, task[t].size)
  IN  /\ task[t].pc \in {"put", "putnew"} /\ ~Latched(h)
      /\ \/ /\ pages' = [pages EXCEPT ![p] = result.page]
            /\ UpdateFreeSpaceMap(h, {p})
            /\ CASE result.error = "none" ->
                      Inserted(t, RidAt(h, p, result.slot))
                 [] result.error = "InsufficientSpace" /\ At(t, "put") ->
                      /\ Continue(t, [task[t] EXCEPT !.pc = "find",
                                                     !.at = INVALID_PAGE_ID])
                      /\ UNCHANGED rids
                 [] OTHER -> Return(t) /\ UNCHANGED rids
            /\ UNCHANGED faults
         \/ /\ Fails
            /\ Return(t)
            /\ UNCHANGED <<pages, free_space_map, rids>>
      /\ UNCHANGED <<wal, first_page_id, tail_page_id, scan>>

-------------------------------------------------------------------------------
(* DeleteTuple and ReclaimPageIfEmpty, for a caller or for a record that   *)
(* was moved: the old place, or the new one if the old one stays.          *)

Answer(t, done) ==
  LET r == task[t].rec
  IN  CASE task[t].op = "delete" ->
             /\ Return(t)
             /\ rids' = [rids EXCEPT ![r] = IF done THEN NoRid ELSE @]
        [] task[t].op = "move" /\ done ->
             Return(t) /\ rids' = [rids EXCEPT ![r] = task[t].new]
        [] task[t].op = "move" /\ ~done ->
             /\ Continue(t, [task[t] EXCEPT !.op = "undo", !.pc = "mark"])
             /\ UNCHANGED rids
        [] OTHER -> Return(t) /\ UNCHANGED rids

Doomed(t) == IF task[t].op = "undo" THEN task[t].new ELSE task[t].old

CallDelete(t, r) ==
  /\ At(t, "idle") /\ MayChange(r)
  /\ Continue(t, [Idle EXCEPT !.pc = "mark", !.op = "delete", !.rec = r,
                              !.heap = rids[r].heap, !.old = rids[r]])
  /\ Touch(r)
  /\ UNCHANGED <<wal, pages, heapvars, rids, faults>>

Mark(t) ==
  LET h == task[t].heap
      rid == Doomed(t)
      result == PageDelete(pages[rid.page], rid.slot)
  IN  /\ At(t, "mark") /\ ~Latched(h)
      /\ \/ /\ pages' = [pages EXCEPT ![rid.page] = result.page]
            /\ UpdateFreeSpaceMap(h, {rid.page})
            /\ IF result.error = "none" /\ ~wal
               THEN Continue(t, [task[t] EXCEPT !.pc = "reclaim"]) /\ UNCHANGED rids
               ELSE Answer(t, result.error = "none")
            /\ UNCHANGED faults
         \/ /\ Fails
            /\ Answer(t, FALSE)
            /\ UNCHANGED <<pages, free_space_map>>
      /\ UNCHANGED <<wal, first_page_id, tail_page_id, scan>>

Empty_OffByOne(p) == Cardinality(Live(pages[p])) <= 1

Empty(p) == Live(pages[p]) = {}

(* The check of the page, and its removal from the chain.                  *)
Reclaim(t) ==
  LET h == task[t].heap
      p == Doomed(t).page
      after == pages[p].next
      before == {q \in Page : pages[q].next = p}
      detached(prev) == /\ Continue(t, [task[t] EXCEPT !.pc = "drop", !.prev = prev,
                                                       !.next = after])
                        /\ UNCHANGED rids
  IN  /\ At(t, "reclaim") /\ ~Latched(h)
      /\ \/ /\ Pinned(p) \/ ~Empty(p)
            /\ Answer(t, TRUE)
            /\ UNCHANGED <<pages, first_page_id, faults>>
         \/ /\ Fails
            /\ Answer(t, TRUE)
            /\ UNCHANGED <<pages, first_page_id>>
         \/ /\ ~Pinned(p) /\ Empty(p)
            /\ first_page_id[h] = p
            /\ first_page_id' = [first_page_id EXCEPT ![h] = after]
            /\ detached(INVALID_PAGE_ID)
            /\ UNCHANGED <<pages, faults>>
         \/ /\ ~Pinned(p) /\ Empty(p)
            /\ first_page_id[h] # p
            /\ \E w \in Walks(first_page_id[h], before) :
                 /\ IF Found(w)
                    THEN /\ pages' = [pages EXCEPT ![w.stop].next = after]
                         /\ detached(w.stop)
                    ELSE Answer(t, TRUE) /\ UNCHANGED pages
                 /\ Costs(w.failed)
            /\ UNCHANGED first_page_id
      /\ UNCHANGED <<wal, tail_page_id, free_space_map, scan>>

(* The way back when the deletion fails: p behind prev, or at the head, or *)
(* nowhere when prev cannot be fetched (out).                              *)
PutBack(t, out) ==
  LET h == task[t].heap
      p == Doomed(t).page
      prev == task[t].prev
  IN  IF prev = INVALID_PAGE_ID
      THEN /\ first_page_id' = [first_page_id EXCEPT ![h] = p]
           /\ UNCHANGED pages
      ELSE /\ pages' = [pages EXCEPT ![prev].next =
                           IF @ = task[t].next /\ ~out THEN p ELSE @]
           /\ UNCHANGED first_page_id

(* The tail then, looked for along the chain put back if none was          *)
(* remembered: its walk may fail before p, at p, or behind it.             *)
TailsBack(t, out) ==
  LET h == task[t].heap
      p == Doomed(t).page
      behind == {w \in Walks(task[t].next, {}) : ~w.failed}
      short == {v.last : v \in {w \in Refreshed(h) : w.failed}}
      restored == {[last |-> IF w.last = INVALID_PAGE_ID THEN p ELSE w.last,
                    failed |-> FALSE] : w \in behind}
        \cup {[last |-> q, failed |-> TRUE] :
                 q \in IF TRUE \in Again THEN short \cup {p, task[t].prev} ELSE {}}
  IN  IF tail_page_id[h] # INVALID_PAGE_ID
      THEN {[last |-> tail_page_id[h], failed |-> FALSE]}
      ELSE IF out THEN Refreshed(h) ELSE restored

(* DeletePage, and then the tail; or, when it fails, the way back.         *)
Drop(t) ==
  LET h == task[t].heap
      p == Doomed(t).page
      prev == task[t].prev
      tail == CASE first_page_id[h] = INVALID_PAGE_ID -> INVALID_PAGE_ID
                [] tail_page_id[h] = p -> prev
                [] OTHER -> tail_page_id[h]
      refresh == IF /\ first_page_id[h] # INVALID_PAGE_ID
                    /\ tail_page_id[h] = p /\ prev = INVALID_PAGE_ID
                 THEN Refreshed(h) ELSE {[last |-> tail, failed |-> FALSE]}
  IN  /\ At(t, "drop")
      /\ \/ /\ ~Pinned(p)
            /\ Deleted(p)
            /\ free_space_map' = [free_space_map EXCEPT ![h] = @ \ {p}]
            /\ \E w \in refresh :
                 /\ tail_page_id' = [tail_page_id EXCEPT ![h] = w.last]
                 /\ Costs(w.failed)
            /\ UNCHANGED first_page_id
         \/ /\ Pinned(p) \/ MayFail
            /\ \E out \in Again : \E w \in TailsBack(t, out) :
                 /\ out => prev # INVALID_PAGE_ID
                 /\ PutBack(t, out)
                 /\ tail_page_id' = [tail_page_id EXCEPT ![h] = w.last]
                 /\ CostsAll(One(~Pinned(p)) + One(out) + One(w.failed))
            /\ UNCHANGED free_space_map
      /\ Answer(t, TRUE)
      /\ UNCHANGED <<wal, scan>>

-------------------------------------------------------------------------------
(* UpdateTuple: in place, or else a move. *)

CallUpdate(t, r, n) ==
  LET rid == rids[r]
      result == PageUpdate(pages[rid.page], rid.slot, n)
  IN  /\ At(t, "idle") /\ MayChange(r) /\ ~Latched(rid.heap)
      /\ \/ /\ pages' = [pages EXCEPT ![rid.page] = result.page]
            /\ UpdateFreeSpaceMap(rid.heap, {rid.page})
            /\ IF result.error = "InsufficientSpace"
               THEN Continue(t, [Idle EXCEPT !.pc = "find", !.op = "move",
                                             !.heap = rid.heap, !.rec = r,
                                             !.size = n, !.old = rid])
               ELSE UNCHANGED task
            /\ UNCHANGED faults
         \/ /\ Fails
            /\ UNCHANGED <<pages, free_space_map, task>>
      /\ Touch(r)
      /\ UNCHANGED <<wal, first_page_id, tail_page_id, rids>>

-------------------------------------------------------------------------------
(* TableIterator, as SeqScanExecutor uses it. *)

NextValid_KeepsSlot(p, s) ==
  LET at == Path(p)
      live(k) == {i \in Live(pages[at[k]]) : i >= s}
      end == Min({k \in DOMAIN at : at[k] \notin Page \/ live(k) # {}})
  IN  IF at[end] \in Page THEN [page |-> at[end], slot |-> Min(live(end))]
                          ELSE [page |-> INVALID_PAGE_ID, slot |-> 0]

(* AdvanceToNextValid from a slot of a page: where it stops, or no page.   *)
NextValid(p, s) ==
  LET at == Path(p)
      live(k) == {i \in Live(pages[at[k]]) : k = 0 => i >= s}
      end == Min({k \in DOMAIN at : at[k] \notin Page \/ live(k) # {}})
  IN  IF at[end] \in Page THEN [page |-> at[end], slot |-> Min(live(end))]
                          ELSE [page |-> INVALID_PAGE_ID, slot |-> 0]

Position(s, at) ==
  [s EXCEPT !.page = at.page, !.slot = at.slot,
            !.pc = IF at.page = INVALID_PAGE_ID THEN "end" ELSE "read"]

Begin(h) ==
  /\ scan.pc = "closed" /\ Alone /\ ~Latched(h)
  /\ ~wal /\ faults = MaxFaults      \* bounds: pages that stay where they are
                                    \* and failures need no scan
  /\ scan' = [Position(Closed, NextValid(first_page_id[h], 1)) EXCEPT
                 !.due = {r \in Rec : rids[r].heap = h /\ Free(r)}]
  /\ UNCHANGED <<wal, pages, heapvars, task, rids, faults>>

(* SeqScanExecutor::Next: GetRID, operator* and operator++.                *)
ScanNext ==
  LET p == pages[scan.page]
      r == IF scan.slot \in Live(p) THEN p.slots[scan.slot].rec ELSE NoRec
  IN  /\ scan.pc = "read"
      /\ scan' = [Position(scan, NextValid(scan.page, scan.slot + 1)) EXCEPT
                     !.due = @ \ {r},
                     !.got = @ \cup (scan.due \cap {r}),
                     !.twice = @ \cup (scan.got \cap {r})]
      /\ UNCHANGED <<wal, pages, heapvars, task, rids, faults>>

ScanEnd ==
  /\ scan.pc = "end"
  /\ scan' = Closed
  /\ UNCHANGED <<wal, pages, heapvars, task, rids, faults>>

-------------------------------------------------------------------------------
(* Tuples begin short and grow.  With a log no page ever leaves its table, *)
(* so one table, the one that has a page, is enough.                       *)
Call(t) ==
  \E r \in {x \in Rec : Owner[x] = t} :
    \/ \E h \in Heap :
         /\ wal => first_page_id[h] # INVALID_PAGE_ID
         /\ CallInsert(t, h, r, Min(Length))
    \/ CallUpdate(t, r, Max(Length))
    \/ CallDelete(t, r)

Insertion(t) == Walk(t) \/ NewPage(t) \/ Link(t) \/ Put(t) \/ \E p \in Page : Probe(t, p)
Deletion(t) == Mark(t) \/ Reclaim(t) \/ Drop(t)

Step(t) == ~At(t, "idle") /\ (Insertion(t) \/ Deletion(t))

Scan == ScanNext \/ ScanEnd \/ \E h \in Heap : Begin(h)

Next == Scan \/ \E t \in Thread : Call(t) \/ Step(t)

(* A thread inside a call goes on: it waits only for latches, which their  *)
(* holders give up within a call.                                          *)
Spec == Init /\ [][Next]_vars /\ \A t \in Thread : WF_vars(Step(t))

-------------------------------------------------------------------------------
(* Properties. *)

PageIds == Page \cup {0, INVALID_PAGE_ID}
Rids == [heap : Heap \cup {NoRec}, page : Page \cup {INVALID_PAGE_ID},
         slot : 0 .. MaxSlots]

(* Types, checked as part of ChainsAreSound.                               *)
TypeOK ==
  /\ wal \in BOOLEAN
  /\ \A p \in Page :
       /\ pages[p].use \in {"fresh", "freed", "heap"}
       /\ pages[p].next \in PageIds
       /\ pages[p].free \in 0 .. Capacity
       /\ Len(pages[p].slots) <= MaxSlots
  /\ first_page_id \in [Heap -> PageIds] /\ tail_page_id \in [Heap -> PageIds]
  /\ free_space_map \in [Heap -> SUBSET Page]
  /\ rids \in [Rec -> Rids]
  /\ \A t \in Thread : task[t].old \in Rids /\ task[t].new \in Rids
  /\ faults \in 0 .. MaxFaults

(* The pages a call has in its hands: a new one before it is linked, one   *)
(* taken out of its chain before it is deleted.                            *)
InHand(t) == CASE At(t, "link") -> {task[t].at}
               [] At(t, "drop") -> {Doomed(t).page}
               [] OTHER -> {}

(* Each page of a table is in the chain of one table, once, or in the      *)
(* hands of one call, and no other page is; a chain ends, and the tail     *)
(* remembered, when there is one, is in it: no failed link, failed         *)
(* reclamation or walk of AllocateNewPage loses or shares a page.          *)
ChainsAreSound ==
  /\ TypeOK
  /\ \A h \in Heap : \E k \in 0 .. MaxPage :
                       Path(first_page_id[h])[k] = INVALID_PAGE_ID
  /\ \A h, g \in Heap : h # g => Chain(h) \cap Chain(g) = {}
  /\ {p \in Page : pages[p].use = "heap"} =
       (UNION {Chain(h) : h \in Heap}) \cup UNION {InHand(t) : t \in Thread}
  /\ \A t \in Thread, h \in Heap : InHand(t) \cap Chain(h) = {}
  /\ \A h \in Heap : tail_page_id[h] # INVALID_PAGE_ID /\ ~Latched(h) =>
                       tail_page_id[h] \in Chain(h)

(* The places a scan of a table passes that hold a record.                 *)
Places ==
  UNION {UNION {{RidAt(h, p, s) : s \in Live(pages[p])} : p \in Chain(h)} :
           h \in Heap}
RecordAt(i) == pages[i.page].slots[i.slot].rec

(* A record whose insertion, move or change was answered is at the place   *)
(* its client was told, in a page of its table's chain, and nowhere else;  *)
(* one whose deletion was answered, or whose insertion failed, is nowhere; *)
(* while a call works on a record, it has at most two places.              *)
AnsweredRecordsAreFound ==
  LET places == Places
      of(r) == {i \in places : RecordAt(i) = r}
  IN  \A r \in Rec : IF Free(r) THEN of(r) = {rids[r]} \ {NoRid}
                                ELSE Cardinality(of(r)) <= 2

(* A scan meets each record that was in the table when it began and that   *)
(* nobody has begun to change since, exactly once.                         *)
ScanIsExact == scan.twice = {} /\ (scan.pc = "end" => scan.due = {})

(* A record comes into its table only by a call that inserts it and goes   *)
(* only by one that deletes it: while it is moved, or its move fails and   *)
(* is taken back, a reader finds it at every moment, and what happens to   *)
(* pages and to other records never hides it or brings it back.            *)
Visible == {RecordAt(i) : i \in Places}
Working(op) == {task[t].rec : t \in {u \in Thread : task[u].op = op}}
RecordsComeAndGoByCalls ==
  [][/\ Visible' \ Visible \subseteq Working("insert")
     /\ Visible \ Visible' \subseteq Working("delete")]_vars

(* Every call ends: InsertTuple does not try the same pages for ever, and  *)
(* no two calls wait for each other's latch.                               *)
EveryCallEnds == \A t \in Thread : []<>At(t, "idle")
===============================================================================
