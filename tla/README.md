# TLA+ verification of HaruhiDB

HaruhiDB (`src/CXX/src`) is a small relational storage engine in C++: a paged
file with a free list, a buffer pool with LRU-K replacement, slotted table
pages chained into heaps, B+ tree indexes, a redo log, a catalog, and
pull-style executors. This directory holds TLA+ modules of its core, the TLC
configurations that check them, and proofs checked by TLAPS.

## The system

| component | state it keeps | operations | what makes it correct |
|---|---|---|---|
| LRU-K replacer (`buffer/replacer`) | per frame the last K access times and an evictable flag; a count of the flags; a clock | RecordAccess, SetEvictable, Victim, Remove | the victim is the one LRU-K names; Victim fails only when nothing is evictable |
| disk manager (`storage/disk`) | the file; next page id, free-list head, catalog entry, also in page 0 | ReadPage, WritePage, AllocatePage, DeallocatePage, SetCatalogMetaPageId, open | a page in use is never handed out or overwritten, also after a crash; no page is lost |
| page (`storage/page/page`) | id, type, content, pin count, dirty flag, latch | Pin, UnPin, MarkDirty, ClearDirty, InitBlank, ResetMetaData | |
| buffer pool (`buffer/buffer_pool_manager`) | frames, page table, list of free frames, the replacer | FetchPage, NewPage, UnpinPage, FlushPage, FlushAllPages, DeletePage | one frame per page; pinned pages stay; no change is lost; no frame is lost |
| table page (`storage/page/table_page`) | slot array, tuple bodies, list of deleted slots | InsertTuple, GetTuple, UpdateTuple, MarkDelTuple | a record keeps its content and its slot; what fits is not refused |
| table heap (`table/table_heap`, `table_iterator`) | first and last page of a chain of table pages, a map of the pages with room, a log or none | Create, InsertTuple, UpdateTuple, DeleteTuple, ReclaimPageIfEmpty, scans | every page is in one chain; every record is where its client was told; a scan meets each record once; every call ends |
| B+ tree (`storage/index`, `storage/page/b_plus_tree_*`) | pages of keys, parent and sibling links, root | Insert, Remove, GetValue, iterators | separators, parents and leaf chain lead to the same keys; the tree is a map |
| redo log (`storage/wal`) | log file, next LSN, unflushed tail | AppendLog, FlushLog, Recover | an operation that was answered survives every crash, also one during recovery |
| catalog (`catalog`) | tables and indexes, object ids, chain of metadata pages, pages that wait to be deleted | CreateTable, DropTable, CreateIndex, DropIndex, load | the file describes what is in memory; every page has one owner; ids are not given twice |
| executors (`execution`) | position, child | Init, Next | index and table agree after every row, failed ones included; a statement meets the rows it is to change |
| tuple codec, values (`storage/record`, `type`) | none | encode, decode, compare | decoding inverts encoding |

The executors call the heap and the indexes; heap, tree and catalog reach
pages through the buffer pool (pin, change under the page latch, release as
dirty); the pool calls the disk manager under its own latch; the heap writes
the log before it answers. Nothing runs in the background: concurrency comes
from client threads, and what is hard is in five places: clients that change
pinned pages without the pool's latch, operations that fail half way (file
errors, no frame) and take back what they did, crashes between the file writes
of one operation, hints and positions read without a latch and used later, and
metadata that name pages somebody else may move. `PROJECT.json` lists the
hazards at their lines.

## Modules

| module | models | role |
|---|---|---|
| `Replacer` | promise of the replacer | abstract: a set of evictable frames |
| `LruKReplacer` | `lru_k_replacer.cxx` | detailed; implements `Replacer` |
| `DiskManager` | `disk_manager.cxx` | operators from a disk to the set of disks and results an operation can end with |
| `DiskClient` | clients of a bare disk manager, crashes | state machine over `DiskManager` |
| `DiskClientProofs` | | inductive invariant of `DiskClient`, proofs |
| `PageStore` | promise of the pool | abstract: a store of pages, and what a restart shows |
| `BufferPool` | `buffer_pool_manager.cxx`, `page.cxx`, its clients | detailed, over `DiskManager`; implements `PageStore` |
| `BufferPoolInv`, `BufferPoolProofs` | | inductive invariant of `BufferPool`, proofs, and the proof that it implements `PageStore` |
| `Records` | promise of a table page | abstract: a map from slots to tuples |
| `TablePage` | `table_page.cxx`, and the heap's move of a record the page refused | detailed, down to bytes; implements `Records` |
| `TablePageProofs` | | inductive invariant of `TablePage`, proofs, and the proof that it implements `Records` |
| `TableHeap` | `table_heap.cxx`, `table_iterator.cxx` | several threads, two tables, over pages as `PageStore` and `TablePage` promise them |
| `TableHeapProofs` | | inductive invariants of `TableHeap`: proof that its chains are sound, that no record is lost, that scans are exact |
| `Wal` | `wal_manager.cxx` between the heap that logs and the pool that saves pages | state machine with crashes |
| `WalProofs` | | inductive invariant of `Wal`, proofs |
| `Index` | promise of an index | abstract: a set of keys |
| `BPlusTree` | `b_plus_tree.cxx`, `b_plus_tree_*_page.cxx`, `index_iterator.cxx` at rest | detailed; implements `Index` |
| `TreeAndReplacerProofs` | | inductive invariants of `LruKReplacer`, `BPlusTree` and `IndexScan`, proofs, and the proofs that the first two implement `Replacer` and `Index` |
| `Catalog` | `catalog.cxx`, `table_info.cxx` | several threads, over a store of pages |
| `CatalogProofs` | | inductive invariant of `Catalog`, proofs |
| `IndexScan` | `index_iterator.cxx`, `Begin` of `b_plus_tree.cxx` | an iterator step by step over `BPlusTree` |
| `IndexMaintenance` | the executors, `index_maintenance.cxx`, the backfill of `catalog.cxx` | statements row by row, over a map of records and a map per index |
| `IndexMaintenanceProofs` | | inductive invariant of `IndexMaintenance`, proofs |
| `MCBufferPool`, `MCTablePage`, `MCWal`, `MCCatalog`, `MCTableHeap` | | symmetry, values of constants, for TLC |

**Code and actions.** The replacer and the pool hold a mutex for the whole of
every operation, so each operation is one action. Two things escape the
pool's latch, and are actions of their own: a client changes a page it has
pinned (`ChangePage`, the page latch makes it one step), and therefore a flush
is two steps, the write of the page and the clearing of its dirty flag
(`FlushPage`/`FlushNext`, then `ClearDirty`), with `flush` recording that the
pool's latch is held (`LatchFree` guards every other operation of the pool).
`FlushAllPages` visits the pages in any order, as an `unordered_map` may give
them. Each error return that leaves something behind is an action
(`FetchFlushFails`, `FetchReadFails`, `NewPageNoFrame`, `NewPageFlushFails`,
`NewPageAllocationFails`); error returns that change nothing are no steps.
The disk manager has no lock: the pool's latch protects it, so its operations
are operators that `BufferPool` uses inside its actions.

Every operation of a table page runs under the page's latch and is one action,
written first as an operator from a page to a page and an error; the heap's
`UpdateTuple`, which lets go of the page between the refused update and the
deletion of the old record, is the exception: the record stays in `moving`
until then (`Interrupted` lets other operations reach the page meanwhile).

A heap's calls are cut where `table_latch_` is given up, and where the code
goes without it. `InsertTuple` is `CallInsert`, then rounds of `Probe` (a page
the free-space map names, in any order, as an `unordered_map` may give them),
`Walk` (the search of the chain), `NewPage` and `Link` (`AllocateNewPage`, a
page that is not in the chain yet) and `Put` (the insertion itself, which may
find the page filled or gone and starts again); `DeleteTuple` is `CallDelete`,
`Mark`, and without a log `Reclaim` and `Drop` (`ReclaimPageIfEmpty`: the check
and the unlinking, then the deletion of the page, or its return to the chain
when the pool refuses). `UpdateTuple` that cannot stay where it is goes through
an insertion and then `Mark` of the old place, or of the new one (`undo`).
`Begin`, `ScanNext`, `ScanEnd` are a `TableIterator`. The catalog's calls run
under `latch_` and are one action each, after a first step without it:
`StartCreateTable` has made the heap's page before `CreateTable` looks at the
names, `StartCreateIndex` has looked the table up before `CreateIndex` runs.

The log's actions are its operations, with the steps of the heap around them:
change a page, copy it under its latch, append the copy, flush, answer
(`Change`, `CopyImage`, `AppendLog`, `FlushLog`); recovery is a step a record,
then the saving of all pages, then the truncation, with a crash possible
everywhere. A tree operation holds `tree_latch_` throughout, and is cut where
it climbs a level: `task` is what its holder has still to do. That is where it
may stop for want of a page (`StepFails`), and what an iterator, which takes no
latch, may see. `IndexScan` is that iterator: `Begin` under the latch, then
`Read` (`*iter`), `Advance` (`++iter` as far as the next leaf's id) and `Settle`
(a turn of `AdvanceToValid`), each a fetch of its own, between the steps of the
tree. A statement is a step a row (`InsertRow`, `DeleteRow`,
`UpdateInPlace`, `UpdateMoved`), or a row that is taken back (`UpdateUndone`,
and rows whose indexes refuse); `Fail` is a call that fails before anything was
done, `Answer` the end.

**State.** `frames[f]` is `pages_[f]` with the page id from the page's own
header, its content, pin count and dirty flag. `disk` is the `DiskManager`:
`next`, `free`, `catalog` are its members, `header` is page 0 of the file,
`pages` and `size` the rest of it. `held`, `wrote` and `allocated` belong to
the clients: where their page pointers lead, which pages they have changed
since they pinned them, which pages exist for them. In `TableHeap`
`first_page_id`, `tail_page_id` and `free_space_map` are the members of those
names, `task[t]` the locals of the call thread `t` is in, `rids` what clients
were told. In `Catalog` `tables` and `indexes` stand for the maps by name and
by id and the runtime objects behind them, `meta` for what the chain of
metadata pages holds. Ghosts: `accesses` in `LruKReplacer`, the whole access
log; `intact` in `DiskClient`; `scan.due`, `scan.got`, `scan.twice` in
`TableHeap`; `given` and `lost` in `Catalog`; `start` in `IndexMaintenance`; `owed` in
`IndexScan`.

**Abstraction.** A page's content is a value of `Data`, or a `Link` once the
page is on the free list. A link's bytes lie where a data page keeps its LSN,
which the code always leaves 0, so data read as a link points to page 0, and
page 0 read as a link gives the magic number (`MagicAsPage`). The pool is
written against `Replacer`: any evictable frame may be the victim.

A table page is an array of bytes of which those of the slots are opaque and
those of the bodies are kept, because compaction moves them over each other; a
handful of bytes per page is enough for slots and bodies to meet. In
`TableHeap` a page is its slots with the record and the length in each, and
the free space the header counts. A log record is a number, a page and an
image, complete or torn; an image is the set of the tuples in it. An entry of
a tree is its key: the record id moves with it. The metadata of a catalog are
a snapshot cut into parts, a part a page; reading them back gives a snapshot
only when all the parts are of one.

**Clients.** A client pins a page at most once at a time, releases a changed
page as dirty, deletes only pages that exist and asks for pages that exist,
or, with `StrayFetch`, for pages `"past"` the end of the file or for
`"deleted"` ones, which it only reads (an iterator that stood on a leaf). A new page counts as
changed until its creator releases it, as every caller of `NewPage` does. Two
operations log changes of one page at a time only with `Shared`; a page passes
from the heap to somebody else and back (`Reassign`), as after a dropped
table. Clients of a tree insert and remove any key; with `Careful` they do not
split, shorten below its minimum or merge a page that two entries of internal
pages have for a child. The code does nothing to keep them from it, so the
run with `Careful` says what holds of every tree of two levels and of those of
three as long as such a page is left alone.

Each record of a heap is changed by one thread only: a record id whose slot
was given to another record cannot be told from the other's. With `Careful`,
clients of a heap without log call one at a time (with a log no page is
reclaimed, and they call as they like), and while a scan is open they change
only records it has yielded. One statement runs at a time.

**Failures.** A call of the file, the pool or an index may fail wherever the
code has an error path. Where the code takes back what it did, or reports it,
the runs have the failure. Where it cannot, the failure is in the model behind
a constant that the passing runs leave empty, because it refutes what they show
of the rest (see "What the failing run shows"): a second failure inside a
rollback of the heap (`FailsAgain`), a failure once the catalog's metadata has
begun to change or in the `LoadIndex` of a rollback (`GivesUp`), a failing call
of an index or of a scan that the executors take for an answer (`Faults`).

## Runs

| run | question | instance | distinct states |
|---|---|---|---|
| `lru_k` | Does the bounded history give the LRU-K victim, and may the pool read a failing Victim as "all pinned"? | 3 frames, K = 2, 5 accesses | 40,992 |
| `disk_faults` | Can any sequence of failing accesses and crashes put a page in use on the free list or overwrite it, or lose a page while the header can be written? | 3 pages, reads, writes and header writes fail | 117,012 |
| `pool_replacement` | Is caching invisible, and does every frame come back? | 2 frames, 3 pages, 1 client, no faults | 543,753 |
| `pool_faults` | Is any change lost to failing writes or to a flush racing with a client? | 1 frame, 3 pages, 2 clients, reads and writes fail, stray fetches | 152,280 |
| `table_page` | Do records keep slot and content through reuse and compaction, and is room found whenever there is some? | a page of 8 units, header and slot of 1, records of up to 3 | 11,324 |
| `wal_crash` | Does an answered operation survive crashes at any moment, torn records and interrupted recoveries? | 2 clients, 2 pages, 2 tuples, logs of 3 records | 283,178 |
| `b_plus_tree` | Do separators, parents and leaf chain stay in step through splits, borrowing and merges, some of them given up? | 7 keys, leaves of 2, internal pages of 4, 9 pages | 643,096 |
| `table_heap` | Do chain, map of free space and answers agree while pages are added, reclaimed and recycled under other calls, and does every call end? | 2 threads, 2 tables, 2 records of 1 or 2 units, 3 pages of 4, 1 failure | 333,944 |
| `catalog` | Is the catalog in the file the one in memory after every call, rolled back or not, and has every page one owner? | 2 threads, 2 names, 1 index, 6 pages, 1 entry a metadata page | 409,103 |
| `index_scan` | Does a scan meet every key that was there, although leaves change under it, and does it end? | 6 keys, leaves of 3, insertions while a scan is open | 88,213 |
| `index_maintenance` | Do indexes and table agree after every row, and does a statement meet its rows although it changes what its scan walks on? | 3 keys, 4 places, 2 indexes, inserts of 2 rows | 2,059,553 |
| `catalog_reopen` | Does a table reopen where its heap begins? | `HeadsMayGo`, 1 thread, 1 name, 4 pages | violated |

**Bounds.** `MaxPage` bounds the file: three pages make a free list with a head,
a middle and an end, and one page more than two frames hold. `MaxTimestamp`
bounds the access clock: five accesses let one frame pass K = 2 while another
is below it. Two clients are enough to share a pin and to change a page while
the other flushes. `pool_replacement` and `pool_faults` divide the work: the
first has frames to move between the lists, the second has every fault but one
frame, so that every fetch evicts. The table page has room for two or
three records, so that every insertion meets a full or fragmented page within
a few steps. A log of three records has one before, at and after a torn or
replayed one, and two clients on two pages are what one writer per page lets
overlap. In `b_plus_tree` seven keys are the fewest that make an internal page
of four split, and four the fewest entries with which two internal pages lend
to each other and merge without touching the child they share; `MaxShort` keeps
the pages that a given-up rebalancing left too short to one at a time, and a
split begins only when the pages it may need are there (`PagesLeft`). In
`index_scan` leaves of three let an insertion shift an entry under the iterator
before one splits its leaf, and six keys make a chain of several leaves;
removals happen between scans (`RemovalsMeanwhile` admits them during one).

In `table_heap` a page of four units holds two short records or one long one,
with their slots, so that a record that grows has to leave its page; three
pages for two tables let one table have a chain with a page to reclaim at its
head, in it or at its end, and the other take the page over. A record starts
with the least length and grows to the greatest. With a log only the first
table is used; a scan is open only without a log and before a failure, as a
page the iterator cannot fetch ends the scan like the end of the table
(`table_iterator.cxx`). `MaxFaults` is one failure, so that `FailsAgain`, a
second one in the same step, makes no difference to it: TLC finds the same
states with it. In `catalog` six pages are two heaps, a tree and its header,
and metadata that grow to a second page and shrink; `MaxOid` ids of each kind;
`GivesUp` is empty. In `index_maintenance` a row has at most one failing call,
of the heap or of an index's `Insert` (`Faults` is empty), an index is one leaf
(`OneLeaf`), and `MaxVal` stops updates. `table_page`, `wal_crash` and the
others that do not say so check deadlock; the runs of `TableHeap`, `Catalog`
and `IndexMaintenance` do not, because their bounds (pages, ids, values) stop
them.

**Fairness.** Two properties need it. `TableHeap` has `EveryCallEnds`:
`WF_vars(Step(t))` for each thread says that a thread inside a call goes on.
The code justifies it: a thread waits only for latches, each latch is given up
within the call that took it, and no call waits for another's end. Beginning a
call is not fair. What the property shows is that no interleaving makes
`InsertTuple` look for a page for ever: a page it is told of a second time makes
it allocate one (`Target`). `IndexScan` has `EveryScanEnds`, under weak fairness
of the iterator's own steps: whoever opens a scan calls `Next` until there is no
row, and a step waits for nothing but a page's latch; writers need not go on.
As the keys are finitely many, so are the insertions that can hold a scan back.
The other components have no loop that waits.

### What the failing run shows

`catalog_reopen`: when the first page of a chain becomes empty,
`TableHeap::ReclaimPageIfEmpty` (`table_heap.cxx:673`) makes the second one
the first and deletes it. The catalog's metadata were written by the last
CREATE or DROP and go on naming the deleted page. Opened again, the table
begins at a page that is free, or that belongs to another table, an index or
the metadata by then. (Behind `HeadsMayGo` so that `catalog` can say what
holds of a database without it.)

Other faults are in the models, behind a constant, or are stated by a property
no run has, because each refutes what the runs show of the rest:

| set | what TLC then finds |
|---|---|
| `BufferPool`: `"past"` in `StrayFetch`, `RefusesOnlyWhenAllPinned` | `FetchPage` takes a frame and, when the page cannot be read or the victim not written, returns without giving it back: the pool shrinks by a frame each time, until it refuses with nothing pinned; `NewPage` likewise |
| `BufferPool`: `"header"` in `Faults`, `HandsOutOnlyDataPages` | `DeallocatePage` leaves the page linked when the header cannot be written, the pool keeps it mapped and saves data over the link; later allocations hand out page 0 |
| `BufferPool`: `"short_read"` in `Faults` | a read that breaks off half way has overwritten the victim's frame before the victim is unmapped |
| `BufferPool`: `"deleted"` in `StrayFetch`, `PinnedPageStays` | an `IndexIterator` keeps the id of a leaf without a pin, and fetches it after a merge has deleted it; the free page is mapped, `NewPage` recycles its id in another frame without looking (`buffer_pool_manager.cxx:235`), and evicting the old frame erases the new page's mapping while it is pinned: its release fails, its changes never reach the file |
| `TablePage`: `Interrupted`, `ImplementsRecords` | `UpdateTuple` compacts the page without the record it updates before it finds that the new one does not fit; readers see other records' bytes in its slot until the heap has deleted it |
| `Wal`: `Shared`, `AnsweredOperationsSurvive` | two operations at one page append their images in the other order than they took them; recovery ends with the older |
| `BPlusTree`: `Careful = FALSE`, `InternalMax = 2`, `MaxPage = 12`, `MaxShort = 0`, `GivesUp = {}`, `LookupFindsEveryKey` | `BPlusTreeInternalPage::MoveHalfTo` gives the new page the last child the old one keeps; when the child splits, lends or merges, one of its two parents is corrected |
| `BPlusTree`: `"parent"` in `GivesUp`, `LookupFindsEveryKey`, `KeysAreUnique` | an insertion splits a leaf and finds no page for a new root or the other half of a full parent (`b_plus_tree.cxx:580`): it returns false and takes nothing back; the keys of the new leaf, in the index before, are found no more, and can be inserted a second time |
| `BPlusTree`: `"header"` in `GivesUp`, `LookupFindsEveryKey` | the root changes in memory, its header cannot be written; opened again, the index starts at the page that was the root before, or is empty |
| `IndexScan`: `RemovalsMeanwhile`, `ScanMissesNothing` | another thread's removal moves the entries of a leaf down under an iterator's index, which passes the next key by |
| `BPlusTree`: `"delete"` in `GivesUp`, `TreeIsSound` | a merged page that an iterator has pinned is lost |
| `TableHeap`: `Careful = FALSE`, `AnsweredRecordsAreFound` | an insertion puts a record into a page that a deletion is taking out of the chain |
| `TableHeap`: `FailsAgain`, `MaxFaults = 2`, `ChainsAreSound`, `RecordsComeAndGoByCalls` | a page that cannot be deleted is to go back into the chain, and the page before it cannot be fetched (`table_heap.cxx:728`): it is in no chain, and the tail may name it, so that later pages, with their records, are linked behind it out of sight; or `AllocateNewPage` cannot link a new page nor delete it (`:562`), and it is lost. `ScanIsExact` and `EveryCallEnds` hold |
| `TableHeap`: `MaxFaults = 2`, `AnsweredRecordsAreFound` | without `FailsAgain` only this fails: a move whose removal from the old place fails, and whose removal from the new place fails after it, leaves the record at both |
| `Catalog`: `"write"` in `GivesUp`, `ReopenRestoresCatalog` | the new first page of the metadata is in the pool, its flush is refused (`catalog.cxx:1155`), the maps go back; the page stays dirty and is written when it is evicted, so the file describes what the caller was told had failed, or a mixture of two snapshots |
| `Catalog`: `"entry"` in `GivesUp`, `ReopenRestoresCatalog` | on the first CREATE `SetCatalogMetaPageId` fails and keeps the entry in memory, or a call after it fails: the header, then or at its next write, names a page without payload |
| `Catalog`: `"restore"` in `GivesUp`, `ReopenRestoresCatalog` | `DropIndex` cannot be persisted, and the `LoadIndex` that takes it back fails (`catalog.cxx:712`): the index is gone from memory and still in the file. With each of the three `NoPageHasTwoOwners`, `PagesAreAccountedFor` and `OidsAreNotReused` hold |
| `IndexMaintenance`: `"remove"` in `Faults`, `IndexesMatchTable`, `AnsweredStatementsAreComplete` | `BPlusTree::Remove` cannot fetch the way to the leaf and answers false with the key still in (`b_plus_tree.cxx:349`); `RemoveFromIndexesByKey` takes that for a key that was not there (`index_maintenance.cxx:102`), DELETE takes the record away, and the index has a key without a record |
| `IndexMaintenance`: `"read"` in `Faults`, the same two | a page of a scan cannot be read: the iterator is at its end, or the row is skipped (`index_scan_executor.cxx:59`), and the statement is answered with rows left; the backfill of CREATE INDEX ends early and leaves keys out |
| `IndexMaintenance`: `OneLeaf = FALSE`, `AnsweredStatementsAreComplete` | an UPDATE by an index rebinds the key of its row: its `Remove` borrows into the iterator's leaf or merges it away, and the iterator, a leaf and a number, meets a row twice or ends. `IndexesMatchTable` holds |
| `IndexMaintenance`: any run, `DeletesByIndexAreComplete` | `IndexScanExecutor::Next` moves its iterator on before it returns a row, the iterator's position is a number in a leaf, and `DeleteExecutor` removes the row's key from the leaf: the keys behind it move up by one, and the next is skipped; the statement answers success with every second row left |

## Proofs

**The replacer.** `TreeAndReplacerProofs` proves, for any number of frames, any
`K` and any length of the log of accesses, `[]SizeCountsEvictable`,
`VictimFollowsLruK` and `ImplementsReplacer`: the replacer is a refinement of
`Replacer`. The invariant: the count is the number of flags set (`Counting`
says what setting and clearing one does to it); the log's times do not pass the
clock, and no two are equal; each deque is the end of its frame's log, as long
as `K` allows (`Kept`), so what is forgotten never matters. The loop over the
frames is a recursive function: `CandidateRounds` unfolds it, by induction over
a set of numbers (`AllNumbers`, from the well-foundedness of the naturals,
since an induction rule over a predicate cannot be instantiated), and
`CandidateIsBest` is its loop invariant.

**The tree.** `TreeAndReplacerProofs` proves `[]TreeIsSound`,
`[]LookupFindsEveryKey`, `[]ScanYieldsKeysInOrder` and `ImplementsIndex` for any
keys and any sizes of leaves and internal pages, assuming `TwoLevels`: the index
has at most four pages more than an internal page has entries, which is too few
for an internal page to split, and only a rebalancing is given up half way. The
assumption is where the code holds: `MoveHalfTo` leaves two internal pages with
one child, and a page that cannot be had for the parent, or a header that cannot
be written, leave keys that are not found (see the table above). Three levels
stay with the run `b_plus_tree`, whose clients are `Careful`; in the theorems
they need not be.

The invariant (`TreeInv`) names the shapes a tree can have between two steps:
`Empty`; `Single`, a root that is a leaf; `Halved`, that leaf split and the root
not there yet; `Full`, a root over its leaves, one of which may wait to be
rebalanced; `Growing`, a root one of whose leaves has split and whose new leaf
is in the chain but not yet in the root. All but the first are a chain of leaves
`c` and the separators `s` between them (`Leaves`): a leaf's keys increase and
lie between its separators (`Fits`), its parent and its next leaf are right; and
in `Growing` chain and separators are those of the root with the new entry put
in (`InsertAt`), so that the entry is all that is missing. `FindLeafPageIs` says
where the descent ends, `KeysFromIs` and `SuffixIs`, by induction along the
chain, what a scan from a leaf yields, `LookupIsSound`, `ScanIsSound` and
`TreeSound` derive the properties. Then one lemma per action: a step changes one
leaf (`LeavesChanged`), cuts one in two (`LeavesSplit`), moves a key between two
neighbours with their separator (`Lent`) or joins them (`Joined`), and says what
becomes of the set of keys (`LeafKeys`), which is the refinement. `KeysAreUnique`,
which no run has, follows as well.

**The scan.** The same module proves `[]ScanMissesNothing` for any keys and sizes
of pages, assuming `TwoLevels` and, as the run does, `~RemovalsMeanwhile`. The
invariant (`ScanInv`) is `TreeInv`, that nobody rebalances while a scan is open,
and where the iterator waits (`Waits`): all it owes is still to come from its
place on. `ToCome(p, i)` is what the chain from leaf `p` on holds (`Reached`) but
for the entries of `p` before `i`; it is the invariant because the iterator has
nothing but these two numbers. That its own steps keep it is `ValidIs` and, for
the loop of `Begin`, `FirstValidIs`, by induction from the end of the chain
(`AlongTheChain`). That insertions keep it is `StaysToCome`: in a tree that grows
every leaf leads on (`LeadsOn`), so that what it led to is in it, in the new leaf
behind it or where it was, and a key that stays in a leaf never moves to the left
(`Rightward`, from the order of the keys by `MovedRight`). The lemmas
`InsertIntoLeafLeads` to `StartNewTreeLeads` show it of each action. A removal
moves entries to the left: there the theorem ends, and so does the property.

**The disk.** `DiskClientProofs` proves, for any number of pages and any of the
faults, `[]NoPageInUseIsReused`, `[]NoPageIsLost`, `[]CatalogEntryExists` and
`OnlyTheOwnerWrites`. When a header write fails, the list in memory and the one
in the file part, and one may later run into the other; so the invariant
(`Sound`) speaks of one set of pages that has both (`FreeForest`): no page of it
is in use, every link from it stays in it, and a rank falls along every link,
so that no chain of links closes. A page that is freed is ranked above all but
those the walk of `DeallocatePage` has met (`PageJoins`); this is where the
proof needs that walk: without it the page could already lead to itself. A page
that is handed out takes with it, once the header is written, all that leads to
it (`HeadLeaves`). `WalkDescends` and `WalkEnds` connect the ranks to the walk
hop by hop, the latter because ranked pages cannot repeat and there are
`MaxPage` of them. `NoPageIsLost` needs the converse, that the pages met are the
right ones: `ListPops` and `ListStays`.

**The pool.** `BufferPoolProofs` proves, for any number of frames, pages and
clients and any of the other faults, assuming `OrderlyUse` (no write of the
header page fails, no read breaks off half way and no client fetches a deleted
page; each refutes the claim): `Spec => []TypeOK`, `[]PageHasOneFrame`, `[]PinnedPageStays`,
`[]PinsCountHolders`, `[]OfferedFramesAreIdle`, `[]CleanPagesAreSaved`,
`CheckpointIsComplete`, and of the free list under the pool
`[]FreePagesAreNobodys` and `[]HandsOutOnlyDataPages`.

The inductive invariant `IInv` (`BufferPoolInv`) adds what those need from
their surroundings. `DiskKeeps`: memory, header and file agree, and some set of
pages, disjoint from those in use, is closed under the links of the free list,
with no two links to the same page; without it a recycled page might still be
mapped. It describes the free list by a set and not by following it: a set is
what the steps preserve. Cached pages exist. `WrittenPagesAreHeld`: a change not yet marked dirty belongs to a client
that still has the page pinned. `FlushIsTracked`: the pages a flush is busy
with stay cached, the one it has written and those it has passed are saved up
to changes of clients. One lemma per action shows `IInv` is kept; the lemmas
about the disk (`WriteKeeps`, `AllocateKeeps`, `DeallocateKeeps`) and about
frames (`VictimIsIdle`, `InstallKeepsPool`, `ContentsKeepPool`) are shared.
That the walk of the free list meets the pages of that set only, and ends,
is `WalkOfFreeList`: no page is met twice, because no two links lead to it.

Frames are lost, so `[]UnpinnedFramesAreAvailable` cannot hold as it stands. What
is proved is where: `LosesFrame` names the fetches and creations that fail after
`GetVictimFrame`, and in every behaviour without such a step a frame nobody has
pinned is available (`FramesStayAvailable`) and a refusal means that all are
pinned (`RefusesWhenAllPinned`). With a file that never fails and clients that ask
for pages that exist there is no such step (`AllFramesAvailable`).

`Refinement` proves from `IInv` that the pool implements `PageStore`
(`ImplementsPageStore`), under the same assumption. What clients see of a page
is its frame or, when it is not cached, the file (`View`). The steps that map
no page leave every view alone (`KeepsContents`); where a page takes a frame
over, the page that leaves it must already be in the file as it was last seen:
it is dirty and written now, or clean and then, since nobody has it pinned and
so nobody is still to release it as changed, saved before (`VictimIsSaved`).

**The table page.** `TablePageProofs` proves, for any sizes of page, header, slot
and tuples, `[]PageIsSound`, `[]RefusesOnlyWhenFull` and `ImplementsRecords`,
assuming `~Interrupted`: nobody reaches the page between an update it refuses and
the deletion of the old record (with it, readers see other records' bytes). The
invariant: at most one record is on its way out; the slots end before the free
space; the bodies of the others are apart, lie above the free space and, laid one
behind the other from the end of the page, leave at least as much (`BodiesFit`);
the counters are exact and the list of deleted slots meets each of them once
(`SlotsCounted`). The loop of `CompactTupleBodies` moves bodies over
each other: `Rounds` says how far each round gets, `Offsets` and `OffsetsDiffer`
where the bodies lie after it, `BodiesArrive` that the bytes of each arrive there,
because the order by offset never lets a copy overwrite what is still to be
copied. Then one lemma for every way an operation can end (`TuplePlaced`,
`UpdatedInPlace`, `DeletedLinked`, `ListAfterTaking`, `Inserted`, `PlacedAgain`).

**The table heap.** `TableHeapProofs` proves `[]ChainsAreSound` for any
threads, tables, records, pages and lengths of tuples and any number of failing
calls, whether or not clients are careful, assuming `NoneFailsAgain`: in the
step that takes back a failed or refused call no other call fails (with it the
claim is refuted, see above). `LinkOnce` and `DropOnce` say what `Link` and
`Drop` are then. `ChainsAreSound` speaks of what a walk meets, and no step
preserves that by itself, so the invariant names for each table the set of its
pages (`IInv`, the sets `C`): these are linked from the first page on to the
last, no page twice (`Linked`); the sets and the pages in the hands of calls
are disjoint and are all the pages tables use; a new page in hand is linked to
nothing; a page taken out of its chain is still linked to the page that
followed it, and the page before, or the head, is linked there too, so that it
can be put back where it was (`Detached`); and only while a call has such a
page may the tail remembered not be in the chain, but that page.
`LinkedBefore`, `LinkedAfter`, `LinkedBehind` and `LinkedWithout` say what
setting one link makes of linked pages, `PathIs`, `ChainIs` and `WalkStays`
that walks meet these pages and no others, wherever they start, end or fail;
`QuietStep` disposes of steps that set no link and move no page, and
`ChainChanges` says when a step that does keeps the invariant, for `LinkKeeps`,
`ReclaimKeeps` and `DropKeeps`. The types need a lemma per operation of a page:
the free space a page promises and its slots never exceed the page
(`InsertTyped`, `DeleteTyped`, `UpdateTyped`).

With `Careful` clients (one call at a time at tables without a log; otherwise
the claim is refuted, see above) and under the same assumption it proves where
the records are. `RecordsInv` adds `Recorded(C)`: a call works for the owner of
its record and knows where that was told to be (`Knows`); a call without a log
is alone, one with a log takes no page out (`Apart`); the map of pages with
room knows pages of the chain, but for the one a call is about to delete
(`InPlace`); a page in the hands of a call is empty (`EmptyHands`); a page
never promises more room than it has, but for one short record (`Roomy`: an
update that did not fit has counted its old body as free, and this is why the
insertion that takes a move back still fits); and `Standing`: a record is
wherever its call, or else its client, believes it (`Held`), and as long as at
most one call has failed nowhere else. A second failure can leave a moved
record at both places, so `RecordsAreFound` assumes `MaxFaults <= 1`, which the
run has, and `NoRecordIsLost` says what holds when any number of steps fail,
but none twice. `RecordsStayInSight` is `RecordsComeAndGoByCalls`, from one
lemma per action that says which records it brings into a chain and which it
takes out (`StepRecords`).

`ScansAreExact` needs an order. `ScanInv` adds `Scanned(C)`: of the pages ahead of
the iterator, `U`, and the slots behind its own, every record still due is there,
none that it has got is, and nothing that a call still deletes. `NextValidIs` says
that `AdvanceToNextValid` passes no record by, `LinkOnward`, `ReclaimOnward`,
`InsertionOnward` and `DeletionOnward` that a step changes `U` only by a new empty
page at its end or by an empty page less, `Steady` that a call moves no record but
its own.

**The log.** `WalProofs` proves `[]LsnsIncrease` for any clients, pages and
lengths of the log, and, assuming `~Shared` (one operation at a page at a
time; with two the claim is refuted), `[]LogRebuildsPages` and
`[]AnsweredOperationsSurvive`. The invariant has two layers. `Base` needs no
assumption: types, which phase has operations or unflushed records
(`Orderly`), what concerns heap pages is sets of tuples (`Plain`), numbers grow
and the next one is larger (`Numbered`). Above it: `OneWriter`; `Survives`, the
newest record of a page in the file, or the page itself when there is none, or
a record not flushed yet, agrees with the answers, so that a crash which keeps
any prefix of the buffer leaves a file that can be recovered; `Underway`, how
far each operation has come into page, copy and log (its image is the page's
content from the copy on, and the newest of its page from the append on), which
makes `FlushLog`'s answer true; `Replayed`, the pages hold their newest records
among those replayed, and between the saving of all pages and the truncation
the file needs no log. `Newest`, `Unlogged` and `Answered` state these without
a CHOOSE; the lemmas at the end connect them to the properties' words.

**The executors.** `IndexMaintenanceProofs` proves `[]IndexesMatchTable` for
any keys, any number of rows and indexes and any bounds, whichever call of the
heap and whichever `Insert` of an index refuses a row, assuming
`FailuresAreNoticed`: no failing call is taken for an answer (`Faults` is
empty; each member refutes the claim, see above). That is: every index has
exactly the table's keys, each with its record's place. The invariant is the
property with the shapes of table, indexes and statement. `InsertsAllOrNone`,
`MatchesWithout`, `PutBack` and `PutReaches` say what the functions of
`index_maintenance.cxx`, compensation included, make of indexes that match;
then one lemma per action. `RowsAreDoneOrUndone` needs only the shapes, which
are inductive on their own (`TypesInv`), so it is proved without that
assumption: it follows by counting records (`RecordsAfterPut`,
`RecordsAfterMove`; `SameContents` for the compensation of an UPDATE).
`[]AnsweredStatementsAreComplete` is proved under `FailuresAreNoticed`, for
table scans (`TableScansAreComplete`), and for index scans when, besides, the
keys of an index fit one leaf (`OneLeaf`; with more leaves it is refuted). It
needs `Progress`: what a running statement has done of the rows behind its scan
and left of those in front of it, where a table scan may have put records that
are updated already and an index scan may not; `KeysPlaced` gives each key of
an index a place of its own, and `ScanPasses` says that a scan moved on has
passed what it had and the row it stood at, whatever became of that row.

**The catalog.** `CatalogProofs` proves `[]NoPageHasTwoOwners`,
`[]PagesAreAccountedFor` and `[]OidsAreNotReused` for any threads, pages and
names, any bounds and any number of entries to a metadata page, assuming
`FailuresAreTakenBack` (`GivesUp` is empty: a call may fail at any point before
the metadata begins to change in the pool, and the rollbacks succeed); and
`[]ReopenRestoresCatalog` assuming also `~HeadsMayGo` (no table loses its first
page; when one does the claim is refuted by the run `catalog_reopen`). Each
member of `GivesUp` refutes the last; of the first three TLC finds that they
hold with each, but the proof's invariant speaks of a file that describes what
memory restored. The invariant (`IInv`) says that there are a sequence of
pages, two oids and the tables as the file was last told of them, such that:
the pages are a chain from the first one on that holds exactly these tables,
the indexes and the oids (`FileSound`, `Told`: only their first pages count,
and only those of tables that have lost theirs may differ); the pages of
tables, of indexes, of calls under way, of the chain, those waiting to be
deleted and the lost ones share none and are what was handed out (`Parted`,
`HeapsApart`, `TreesApart`, `CallsApart`); and oids in file and memory are
beyond all in use or given (`Counted`). A call that fails restores in memory
what the file still describes, and its oids are given again: that is why the
file's oids are variables of their own. `PersistDoes` says what
`PersistSnapshotLocked` can do with a chain: it refuses and the new pages are
deleted, or it leaves another chain that describes the new snapshot, made of
old pages and free ones; `PersistParts` what that means for the owners.
`LoadedIs` follows the chain the way `ReadCatalogMeta` does, by `MetaChainIs`,
and `Reloaded` rebuilds tables and indexes from it; `LowestIs` that pages
handed out are free and different. `TableAdded`, `IndexAdded` and `Dropped`
speak of the maps, then one lemma per action. Where heads may go, the theorems
hold of the model's reopening, which keeps a table's heap as it was in memory.

TLC has checked every inductive invariant on the runs' instances before it was
proved (that of `TableHeap` with the pages a walk meets for `C`, that of
`BPlusTree` with the root's children and keys for `c` and `s`). Only
model-checked: `BPlusTree` and `IndexScan` beyond two levels, that every scan
ends, and that calls of `TableHeap` end. Liveness is out of the prover's reach, and so
is what the folds of the community modules and RECURSIVE operators compute.

## Not modelled

* Loss of power (a write that returned is taken to be in the file; the code
  never calls fsync), files that end inside a page, writes that break off half
  way, overflow of page ids, log numbers and of the access clock.
* The pool: a change of a page in the middle of its flush (`SavePage` copies
  the page in one step; `FlushPage` and `FlushAllPages` write `page.Data()`
  without the page's latch, but nobody in the repository changes a page that is
  being flushed), a client that pins the same page twice, calls with page id 0
  or the invalid id (refused at once), use without a disk manager (refused by
  its constructor).
* The tree: a child whose parent link cannot be written half way through a split
  or a merge (`SetChildParent`). What an iterator returns twice: insertions may
  move an entry behind it, and no property forbids it.
* The log: recovery restores pages that somebody else has by now (`Reassign`,
  then `Redo`): the properties speak of the heap's pages only, and of each by
  itself.
* The heap: record ids that no caller was given, records changed by two
  threads, what a refused update leaves in the bytes (`TablePage` has it).
* The catalog: what a reader makes of a half-written chain whose parts are of
  two snapshots (it is taken to be unreadable), a `DeletePage` that reports an
  error after it freed the page or that fails in a rollback for another reason
  than a pin, pages that cannot be fetched while a dropped table's pages are
  collected, a backfill that races with changes of the table, `LoadIndex` but
  for the rollback of `DropIndex` (only tests call it), a `TableInfo` used
  after its table was dropped (undefined behaviour), the encoding of schemas. A
  database is closed in order before it is opened again; the pages that still
  waited to be deleted, and those a `CreateIndex` taken back leaves behind, are
  counted in `lost`.
* The executors: a second failure inside a compensation, an index that changed
  although it answered false (`BPlusTree` has it), leaves as such (`OneLeaf =
  FALSE` lets the iterator go where a borrowing or a merge may put it), several
  statements at a time, projections (they compute a row from a row). An UPDATE
  over a table scan may meet a record it has moved and update it again: that is
  reachable, and `AnsweredStatementsAreComplete` admits it for table scans.
* Tuple codec and values: sequential functions without state, reached by unit
  tests; rows and keys are opaque or integers.

## Plan

Done: all components with state, the replacer to the executors, and the proofs
of replacer, disk, pool, table page, table heap, log, tree, scan, catalog and
executors.
What is left:

1. Proofs: trees of three levels in `BPlusTree`, and scans of them; owners of
   pages in `Catalog` when the metadata is left half written.
2. Encoding and comparison as operators over bounded inputs.
