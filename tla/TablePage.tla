------------------------------- MODULE TablePage -------------------------------
(***************************************************************************)
(* storage/page/table_page.cxx: the records of one heap page.  The slot    *)
(* array grows up from the page header, tuple bodies grow down from the    *)
(* end of the page, and deleted slots are linked through their offsets.    *)
(*                                                                         *)
(* Every operation holds the page's write latch from its first to its last *)
(* line, so each is one action; it is first an operator from a page to the *)
(* page and the error it ends with, as the code returns them.              *)
(***************************************************************************)
EXTENDS Integers, Sequences, FiniteSets

CONSTANTS
  Byte,                     \* what one unit of a tuple can be
  Other,                    \* a unit of the header, of a slot or of a blank
                            \* page, told apart from those of tuples
  PageSize,                 \* PAGE_SIZE
  HeaderSize,               \* sizeof(PersistentHeader)
  SlotSize,                 \* sizeof(Slot)
  MaxLength,                \* bound on the length of the tuples of clients
  Interrupted               \* may other calls reach the page while a record
                            \* the page had no room to update is still on it

ASSUME TablePageConstants ==
  /\ PageSize \in Nat /\ HeaderSize \in Nat /\ SlotSize \in Nat \ {0}
  /\ HeaderSize + SlotSize < PageSize
  /\ MaxLength \in Nat
  /\ Other \notin Byte
  /\ Interrupted \in BOOLEAN

Address == 0 .. PageSize - 1
INVALID_SLOT_ID == PageSize         \* beyond every slot there is room for
SlotId == 0 .. (PageSize - HeaderSize) \div SlotSize - 1
Tuple == UNION {[1 .. n -> Byte] : n \in 0 .. MaxLength}

Slot == [offset : 0 .. PageSize, length : 0 .. PageSize, deleted : BOOLEAN]

Error == {"none", "InvalidTupleSize", "InsufficientSpace", "SlotOutOfRange",
          "SlotAlreadyDeleted", "FreeListCorrupted", "InvalidSlotContent"}

VARIABLES
  page,     \* bytes, slots (numbered from 0) and the fields of the header
  moving    \* slots of records the heap is moving off this page

vars == <<page, moving>>

-------------------------------------------------------------------------------
(* Parts of a page. *)

SlotCount(p) == Cardinality(DOMAIN p.slots)
Live(p) == {s \in DOMAIN p.slots : ~p.slots[s].deleted}
Deleted(p) == DOMAIN p.slots \ Live(p)
SlotAreaEnd(p) == HeaderSize + SlotCount(p) * SlotSize
Body(p, s) == p.slots[s].offset ..
                p.slots[s].offset + p.slots[s].length - 1

FreeSpace_CountsSlots(p) ==
  IF p.free_space_offset <= SlotAreaEnd(p)
  THEN 0
  ELSE p.free_space_offset - HeaderSize

FreeSpace(p) ==
  IF p.free_space_offset <= SlotAreaEnd(p)
  THEN 0
  ELSE p.free_space_offset - SlotAreaEnd(p)

InitForNewPage ==
  [bytes |-> [a \in Address |-> Other],
   slots |-> [s \in {} |-> [offset |-> 0, length |-> 0, deleted |-> FALSE]],
   alive_tuple_count |-> 0,
   deleted_tuple_count |-> 0,
   free_space_offset |-> PageSize,
   free_list_head |-> INVALID_SLOT_ID]

RepairTupleCounters(p) ==
  IF p.alive_tuple_count + p.deleted_tuple_count = SlotCount(p)
  THEN p
  ELSE [p EXCEPT !.alive_tuple_count = Cardinality(Live(p)),
                 !.deleted_tuple_count = Cardinality(Deleted(p))]

ValidSize(t) == Len(t) \in 1 .. PageSize - HeaderSize - SlotSize

WriteBody(p, at, t) ==
  [p EXCEPT !.bytes = [a \in Address |-> IF a \in at .. at + Len(t) - 1
                                         THEN t[a - at + 1]
                                         ELSE p.bytes[a]]]

(* The tuple takes the end of the free space, and slot s describes it. *)
PlaceTuple(p, s, t) ==
  LET at == p.free_space_offset - Len(t)
  IN  [WriteBody(p, at, t) EXCEPT
         !.free_space_offset = at,
         !.slots = [r \in DOMAIN p.slots \cup {s} |->
                      IF r = s
                      THEN [offset |-> at, length |-> Len(t),
                            deleted |-> FALSE]
                      ELSE p.slots[r]]]

-------------------------------------------------------------------------------
(* CompactTupleBodies packs the bodies of the live slots, but that of      *)
(* skip, against the end of the page.  The loop gives each slot its new    *)
(* offset as it goes and stops at the first slot it cannot place; bodies   *)
(* move only once all fit.                                                 *)

Kept_KeepsSkipped(p, skip) == Live(p)

Kept(p, skip) == Live(p) \ {skip}

NewOffset(p, skip) ==
  LET end[n \in 0 .. SlotCount(p)] ==
        IF n = 0
        THEN PageSize
        ELSE end[n - 1] - (IF n - 1 \in Kept(p, skip)
                           THEN p.slots[n - 1].length ELSE 0)
  IN  [s \in -1 .. SlotCount(p) - 1 |-> end[s + 1]]

CannotPlace(p, s, to) ==
  \/ p.slots[s].length = 0
  \/ p.slots[s].offset < HeaderSize
  \/ p.slots[s].offset + p.slots[s].length > PageSize
  \/ to[s] < 0

MoveBodies_InPlace(p, kept, to) == p.bytes

MoveBodies(p, kept, to) ==
  [a \in Address |->
     IF \E s \in kept : a \in to[s] .. to[s] + p.slots[s].length - 1
     THEN LET s == CHOOSE r \in kept :
                     a \in to[r] .. to[r] + p.slots[r].length - 1
          IN  p.bytes[p.slots[s].offset + a - to[s]]
     ELSE p.bytes[a]]

CompactTupleBodies(p, skip) ==
  LET kept == Kept(p, skip)
      to == NewOffset(p, skip)
      stuck == {s \in kept : CannotPlace(p, s, to)}
      placed == {s \in kept : \A b \in stuck : s < b}
      write_offset == to[SlotCount(p) - 1]
      q == [p EXCEPT !.slots = [s \in DOMAIN p.slots |->
                                  IF s \in placed
                                  THEN [p.slots[s] EXCEPT !.offset = to[s]]
                                  ELSE p.slots[s]]]
      ok == stuck = {} /\ write_offset >= SlotAreaEnd(p)
  IN  [ok |-> ok,
       page |-> IF ok
                THEN [q EXCEPT !.bytes = MoveBodies(p, kept, to),
                               !.free_space_offset = write_offset]
                ELSE q]

(* Insert and update compact only when the free space is too small. *)
CompactIfNeeded(p, needed, skip) ==
  IF FreeSpace(p) < needed
  THEN CompactTupleBodies(p, skip)
  ELSE [ok |-> TRUE, page |-> p]

-------------------------------------------------------------------------------
(* The operations. *)

Outcome(p, e) == [page |-> p, error |-> e]

Reuses(p) == p.free_list_head # INVALID_SLOT_ID

ReusableHead(p) ==
  LET head == p.free_list_head
  IN  /\ head < SlotCount(p)
      /\ p.slots[head].deleted
      /\ \/ p.slots[head].offset = INVALID_SLOT_ID
         \/ p.slots[head].offset < SlotCount(p)

Needed_ForgetsTuple(p, t) == IF Reuses(p) THEN 0 ELSE SlotSize

Needed(p, t) == Len(t) + (IF Reuses(p) THEN 0 ELSE SlotSize)

(* The slot the tuple gets: the head of the list of deleted slots, which   *)
(* is taken off it, or a new slot at the end of the array.                 *)
TakeSlot_KeepsHead(p) ==
  IF Reuses(p) THEN [p EXCEPT !.deleted_tuple_count = @ - 1] ELSE p

TakeSlot(p) ==
  IF Reuses(p)
  THEN [p EXCEPT !.free_list_head = p.slots[p.free_list_head].offset,
                 !.deleted_tuple_count = @ - 1]
  ELSE [p EXCEPT !.bytes =
          [a \in Address |-> IF a \in SlotAreaEnd(p) ..
                                        SlotAreaEnd(p) + SlotSize - 1
                             THEN Other ELSE p.bytes[a]]]

SlotTaken(p) == IF Reuses(p) THEN p.free_list_head ELSE SlotCount(p)

InsertTuple(pg, t) ==
  LET p == RepairTupleCounters(pg)
      c == CompactIfNeeded(p, Needed(p, t), INVALID_SLOT_ID)
      q == c.page
  IN  IF ~ValidSize(t) THEN Outcome(pg, "InvalidTupleSize")
      ELSE IF Reuses(p) /\ ~ReusableHead(p)
           THEN Outcome(p, "FreeListCorrupted")
      ELSE IF ~c.ok THEN Outcome(q, "InvalidSlotContent")
      ELSE IF FreeSpace(q) < Needed(q, t)
           THEN Outcome(q, "InsufficientSpace")
      ELSE IF Reuses(q) /\ q.deleted_tuple_count = 0
           THEN Outcome(q, "FreeListCorrupted")
      ELSE Outcome([PlaceTuple(TakeSlot(q), SlotTaken(q), t) EXCEPT
                      !.alive_tuple_count = @ + 1], "none")

UpdateTuple(pg, s, t) ==
  LET p == RepairTupleCounters(pg)
      c == CompactIfNeeded(p, Len(t), s)
      q == c.page
  IN  IF s \notin DOMAIN p.slots THEN Outcome(p, "SlotOutOfRange")
      ELSE IF p.slots[s].deleted THEN Outcome(p, "SlotAlreadyDeleted")
      ELSE IF ~ValidSize(t) THEN Outcome(p, "InvalidTupleSize")
      ELSE IF Len(t) <= p.slots[s].length
           THEN Outcome([WriteBody(p, p.slots[s].offset, t) EXCEPT
                           !.slots[s].length = Len(t)], "none")
      ELSE IF ~c.ok THEN Outcome(q, "InvalidSlotContent")
      ELSE IF FreeSpace(q) < Len(t) THEN Outcome(q, "InsufficientSpace")
      ELSE Outcome(PlaceTuple(q, s, t), "none")

LinkDeleted_DropsRest(p, s) ==
  [p EXCEPT !.slots[s].offset = INVALID_SLOT_ID,
            !.slots[s].deleted = TRUE,
            !.free_list_head = s,
            !.alive_tuple_count = IF @ > 0 THEN @ - 1 ELSE @,
            !.deleted_tuple_count = @ + 1]

LinkDeleted(p, s) ==
  [p EXCEPT !.slots[s].offset = p.free_list_head,
            !.slots[s].deleted = TRUE,
            !.free_list_head = s,
            !.alive_tuple_count = IF @ > 0 THEN @ - 1 ELSE @,
            !.deleted_tuple_count = @ + 1]

MarkDelTuple(pg, s) ==
  LET p == RepairTupleCounters(pg)
      c == CompactTupleBodies(p, s)
  IN  IF s \notin DOMAIN p.slots THEN Outcome(p, "SlotOutOfRange")
      ELSE IF p.slots[s].deleted THEN Outcome(p, "SlotAlreadyDeleted")
      ELSE IF ~c.ok THEN Outcome(c.page, "InvalidSlotContent")
      ELSE Outcome(LinkDeleted(c.page, s), "none")

(* GetTuple: the bytes slot s leads to. *)
GetTuple(p, s) ==
  [i \in 1 .. p.slots[s].length |-> p.bytes[p.slots[s].offset + i - 1]]

Readable(p, s) ==
  /\ s \in Live(p)
  /\ p.slots[s].length # 0
  /\ p.slots[s].offset + p.slots[s].length <= PageSize

-------------------------------------------------------------------------------
(* The state machine.  An update the page has no room for makes the heap   *)
(* insert the tuple elsewhere and then delete this record                  *)
(* (TableHeap::UpdateTuple).  Until it has, other calls reach the page     *)
(* only if Interrupted: from another thread, as the heap holds no latch    *)
(* meanwhile, or from any caller once the insertion elsewhere has failed.  *)

Init ==
  /\ page = InitForNewPage
  /\ moving = {}

Reachable == Interrupted \/ moving = {}

Insert(t) ==
  /\ Reachable
  /\ page' = InsertTuple(page, t).page
  /\ UNCHANGED moving

Update(s, t) ==
  /\ Reachable
  /\ LET outcome == UpdateTuple(page, s, t)
     IN  /\ page' = outcome.page
         /\ moving' = IF outcome.error = "InsufficientSpace"
                      THEN moving \cup {s}
                      ELSE moving

Delete(s) ==
  /\ Reachable \/ s \in moving
  /\ LET outcome == MarkDelTuple(page, s)
     IN  /\ page' = outcome.page
         /\ moving' = IF outcome.error = "none" THEN moving \ {s} ELSE moving

Next ==
  \/ \E t \in Tuple : Insert(t)
  \/ \E s \in SlotId, t \in Tuple : Update(s, t)
  \/ \E s \in SlotId : Delete(s)

Spec == Init /\ [][Next]_vars

-------------------------------------------------------------------------------
(* Properties. *)

(* Type correctness: the header, slots and bytes keep their ranges, and    *)
(* only live slots are being moved.                                        *)
TypeOK ==
  /\ DOMAIN page = {"bytes", "slots", "alive_tuple_count",
                    "deleted_tuple_count", "free_space_offset",
                    "free_list_head"}
  /\ page.bytes \in [Address -> Byte \cup {Other}]
  /\ \E n \in 0 .. Cardinality(SlotId) : DOMAIN page.slots = 0 .. n - 1
  /\ \A s \in DOMAIN page.slots : page.slots[s] \in Slot
  /\ page.alive_tuple_count \in 0 .. Cardinality(SlotId)
  /\ page.deleted_tuple_count \in 0 .. Cardinality(SlotId)
  /\ page.free_space_offset \in HeaderSize .. PageSize
  /\ page.free_list_head \in SlotId \cup {INVALID_SLOT_ID}
  /\ moving \subseteq Live(page)

(* The records, to the readers that can reach the page.                    *)
Visible ==
  [s \in Live(page) \ (IF Interrupted THEN {} ELSE moving) |->
     GetTuple(page, s)]

(* The bodies of the live records overlap neither each other nor the slot  *)
(* array, and the free space overlaps none: what an insertion, an update   *)
(* in place, a compaction and a slot reuse, in any order, could break.     *)
BodiesAreDisjoint ==
  /\ SlotAreaEnd(page) <= page.free_space_offset
  /\ \A s \in DOMAIN Visible :
       /\ Readable(page, s)
       /\ Body(page, s) \subseteq page.free_space_offset .. PageSize - 1
       /\ \A r \in DOMAIN Visible \ {s} : Body(page, s) \cap Body(page, r) = {}

(* The list of deleted slots, slot by slot; it stays at its end. *)
FreeListHop(p) ==
  LET hop[i \in 0 .. Cardinality(Deleted(p))] ==
        IF i = 0
        THEN p.free_list_head
        ELSE IF hop[i - 1] \in Deleted(p)
             THEN p.slots[hop[i - 1]].offset
             ELSE INVALID_SLOT_ID
  IN  hop

(* The list of deleted slots leads to each of them once and then ends, and *)
(* the counters count them: a slot lost to the list is never used again,   *)
(* one that is on it twice is given to two records.                        *)
FreeListIsExact ==
  LET count == Cardinality(Deleted(page))
      hop == FreeListHop(page)
  IN  /\ {hop[i] : i \in 0 .. count - 1} = Deleted(page)
      /\ hop[count] = INVALID_SLOT_ID
      /\ page.deleted_tuple_count = count
      /\ page.alive_tuple_count = Cardinality(Live(page))

(* What every sequence of calls leaves: records apart from each other, and *)
(* each slot either a record's or on the list.                             *)
PageIsSound == TypeOK /\ BodiesAreDisjoint /\ FreeListIsExact

(* The bytes that the bodies of the slots in kept take up. *)
BodyBytes(p, kept) ==
  LET sum[n \in 0 .. SlotCount(p)] ==
        IF n = 0
        THEN 0
        ELSE sum[n - 1] + (IF n - 1 \in kept THEN p.slots[n - 1].length ELSE 0)
  IN  sum[SlotCount(p)]

Room(others) == PageSize - SlotAreaEnd(page) - BodyBytes(page, others)

(* "Not enough space" is true: the live bodies leave less room than the    *)
(* call needs, however fragmented the page is.  The old body of an updated *)
(* record counts as room.  And no sequence of calls makes the page report  *)
(* itself corrupted.                                                       *)
RefusesOnlyWhenFull ==
  moving = {} =>
    /\ \A t \in Tuple :
         InsertTuple(page, t).error = "InsufficientSpace" =>
           Room(Live(page)) < Needed(page, t)
    /\ \A s \in Live(page), t \in Tuple :
         UpdateTuple(page, s, t).error = "InsufficientSpace" =>
           Room(Live(page) \ {s}) < Len(t)
    /\ \A s \in SlotId, t \in Tuple :
         {InsertTuple(page, t).error, UpdateTuple(page, s, t).error,
          MarkDelTuple(page, s).error}
           \cap {"FreeListCorrupted", "InvalidSlotContent"} = {}

(* Readers see a map from slots to records: no call changes or loses the   *)
(* record of another slot, through compaction, reuse of slots or growth.   *)
Abstract == INSTANCE Records WITH records <- Visible

ImplementsRecords == Abstract!Spec
===============================================================================
