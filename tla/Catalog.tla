-------------------------------- MODULE Catalog --------------------------------
(***************************************************************************)
(* catalog/catalog.cxx and catalog/table_info.cxx: tables and indexes, the *)
(* chain of pages that describes them in the file, and the pages of what   *)
(* was dropped, which wait to be deleted.                                  *)
(*                                                                         *)
(* What runs under latch_, held exclusively, is one action; CreateTable    *)
(* makes its heap, and CreateIndex looks up its table, before.  A table's  *)
(* records are of no interest here, only the pages of its heap, and of an  *)
(* index's tree, which clients make longer and shorter without latch_.     *)
(* Names are what NormalizeTableName makes of them; schemas go into the    *)
(* file and come back with the names.                                      *)
(***************************************************************************)
EXTENDS Integers, Sequences, FiniteSets, SequencesExt

CONSTANTS
  Thread,                   \* the threads that call
  Name,                     \* names of tables
  IndexName,                \* names of indexes
  MaxPage,                  \* bound on the pages of the file
  MaxOid,                   \* bound on the object ids given
  PerPage,                  \* entries of tables and indexes a page describes
  MaxPins,                  \* bound on the pages pinned at a time
  HeadsMayGo,               \* is the first page of a heap reclaimed, too?
  GivesUp                   \* calls of the pool and the disk that may fail
                            \* when the metadata has begun to change: see
                            \* Persisted for "entry" and "write", Drop for
                            \* "restore"

ASSUME CatalogConstants ==
  /\ IsFiniteSet(Thread)
  /\ MaxPage \in Nat /\ MaxOid \in Nat /\ PerPage \in Nat \ {0}
  /\ MaxPins \in Nat /\ HeadsMayGo \in BOOLEAN
  /\ GivesUp \subseteq {"entry", "write", "restore"}

Page == 1 .. MaxPage
INVALID_PAGE_ID == MaxPage + 1

VARIABLES
  tables,                   \* tables_: each oid's name and pages of its heap
  indexes,                  \* each oid's table, name, header page and tree
  next_table_oid, next_index_oid,
  pending_reclaim,          \* pages to be deleted
  used,                     \* the pages the disk manager has handed out
  pinned,                   \* those somebody reads or writes
  catalog_meta_page_id,     \* where the chain of metadata pages begins
  meta,                     \* what each of those holds
  task,                     \* the call each thread is in
  given,                    \* ghost: the oids of tables that were answered
  lost                      \* ghost: pages that nobody will ever delete

memory == <<tables, indexes, next_table_oid, next_index_oid>>
file == <<catalog_meta_page_id, meta>>
vars == <<memory, file, pending_reclaim, used, pinned, task, given, lost>>

With(f, x, y) == [z \in DOMAIN f \cup {x} |-> IF z = x THEN y ELSE f[z]]
Without(f, gone) == [x \in DOMAIN f \ gone |-> f[x]]
Idle == [op |-> "none"]

-------------------------------------------------------------------------------
(* The metadata. *)

FirstPageId(heap) == IF heap = <<>> THEN INVALID_PAGE_ID ELSE heap[1]

BuildMetaSnapshot(T, X, next_table, next_index) ==
  [tables |-> {[oid |-> o, name |-> T[o].name,
                first |-> FirstPageId(T[o].heap)] : o \in DOMAIN T},
   indexes |-> {[oid |-> o, table |-> X[o].table, name |-> X[o].name,
                 header |-> X[o].header] : o \in DOMAIN X},
   next_table |-> next_table, next_index |-> next_index]

Empty == BuildMetaSnapshot(<<>>, <<>>, 0, 0)

(* SerializeCatalogMeta, cut into payloads: so many pages, each with its   *)
(* part of the whole.                                                      *)
Parts(snapshot) ==
  LET entries == Cardinality(snapshot.tables) + Cardinality(snapshot.indexes)
  IN  IF entries = 0 THEN 1 ELSE (entries + PerPage - 1) \div PerPage

Part(snapshot, i) == [of |-> snapshot, part |-> i]
NoPart == [of |-> Empty, part |-> 0]

(* The pages from page p on.                                               *)
MetaChain(p) ==
  LET at[i \in 1 .. MaxPage + 1] ==
        IF i = 1 THEN p
        ELSE IF at[i - 1] \in Page THEN meta[at[i - 1]].next ELSE INVALID_PAGE_ID
      length == Cardinality({i \in DOMAIN at : at[i] \in Page})
  IN  SubSeq(at, 1, length)

(* ReadCatalogMetaPayload and DeserializeCatalogMeta: the parts of one     *)
(* snapshot, all of them, none too many; anything else is malformed.       *)
ReadCatalogMeta ==
  LET chain == MetaChain(catalog_meta_page_id)
      payload == [i \in DOMAIN chain |-> meta[chain[i]].payload]
      whole == payload[1].of
  IN  IF /\ payload = [i \in 1 .. Parts(whole) |-> Part(whole, i)]
         /\ \A t \in whole.tables :
              t.first # INVALID_PAGE_ID /\ t.oid < whole.next_table
         /\ \A x \in whole.indexes : x.oid < whole.next_index
      THEN {whole} ELSE {}

Rebuilt_NextFromMax(s) ==
  [s EXCEPT !.next_table = IF s.tables = {} THEN 0 ELSE
              1 + CHOOSE o \in {t.oid : t \in s.tables} :
                    \A t \in s.tables : t.oid <= o]

(* BuildRuntimeFromMetaLocked.                                             *)
Rebuilt(s) == s

(* LoadCatalogMeta: what a catalog opened now would have, nothing if it    *)
(* could not be opened.                                                    *)
Loaded ==
  IF catalog_meta_page_id = INVALID_PAGE_ID THEN {Empty}
  ELSE {Rebuilt(s) : s \in {r \in ReadCatalogMeta :
          /\ \A t, u \in r.tables : t # u => t.name # u.name /\ t.oid # u.oid
          /\ \A x \in r.indexes : \E t \in r.tables : t.oid = x.table}}

-------------------------------------------------------------------------------
(* Pages.                                                                  *)

(* NewPage hands out the lowest pages that are free.                       *)
Lowest(n, free) ==
  LET m == IF n > Cardinality(free) THEN Cardinality(free) ELSE n
  IN  CHOOSE s \in [1 .. m -> free] :
        /\ \A i \in 1 .. m : \A j \in 1 .. i - 1 : s[j] < s[i]
        /\ \A p \in free \ Range(s) : \A i \in 1 .. m : s[i] < p

HeapPages(T) == UNION {Range(T[o].heap) : o \in DOMAIN T}
TreePages(x) == {x.header} \cup x.tree

(* CollectTableHeapPageIds and CollectIndexPageIds: a walk of the heap,    *)
(* and of the tree from its root, with the header added.                   *)
Collected_NoHeader(T, X, oids, xs) ==
  (UNION {Range(T[o].heap) : o \in oids}) \cup UNION {X[x].tree : x \in xs}

Collected(T, X, oids, xs) ==
  (UNION {Range(T[o].heap) : o \in oids}) \cup UNION {TreePages(X[x]) : x \in xs}

Reclaimed_Twice(u, pending) ==
  [used |-> u \ (pending \ pinned), pending |-> pending]

(* TryReclaimPendingPagesLocked: DeletePage refuses only what is pinned.   *)
(* Every call ends with it; nothing was unpinned since it began with it.   *)
Reclaimed(u, pending) ==
  [used |-> u \ (pending \ pinned), pending |-> pending \cap pinned]

Blank == [payload |-> NoPart, next |-> INVALID_PAGE_ID]

(* The file once a snapshot is written into a chain of pages.              *)
Written_KeepsNext(snapshot, chain) ==
  LET need == Parts(snapshot)
  IN  [p \in Page |->
        IF \E i \in 1 .. need : chain[i] = p
        THEN LET i == CHOOSE k \in 1 .. need : chain[k] = p
             IN  [payload |-> Part(snapshot, i),
                  next |-> IF i < Len(chain) THEN chain[i + 1]
                           ELSE INVALID_PAGE_ID]
        ELSE meta[p]]

Written(snapshot, chain) ==
  LET need == Parts(snapshot)
  IN  [p \in Page |->
        IF \E i \in 1 .. need : chain[i] = p
        THEN LET i == CHOOSE k \in 1 .. need : chain[k] = p
             IN  [payload |-> Part(snapshot, i),
                  next |-> IF i < need THEN chain[i + 1] ELSE INVALID_PAGE_ID]
        ELSE Blank]

(* The file when writing stopped at the k-th page of the chain: that page  *)
(* is written, or dirty in the pool, whatever its flush said, and those    *)
(* after it are as they were, or as NewPage left them.                     *)
HalfWritten(snapshot, chain, k) ==
  [p \in Page |->
     IF p \in Range(SubSeq(chain, 1, k)) THEN Written(snapshot, chain)[p]
     ELSE IF p \in Range(MetaChain(catalog_meta_page_id)) THEN meta[p]
     ELSE Blank]

(* PersistCatalogMetaLocked, what it can come to: the pages it lacks are   *)
(* new, those it no longer needs are deleted.  There are three kinds of    *)
(* failure.  An early one leaves the file as it was, and whatever new      *)
(* pages there were to nobody.  One of "entry" comes with or after the     *)
(* first SetCatalogMetaPageId, which keeps the entry in memory and leaves  *)
(* it to any later write of the header: it names a page without payload.   *)
(* One of "write" comes with or after the first written page, k pages are  *)
(* new then, or all of them, and d of the extra ones are deleted.          *)
Persisted(u, snapshot) ==
  LET old == MetaChain(catalog_meta_page_id)
      need == Parts(snapshot)
      more == Lowest(IF need > Len(old) THEN need - Len(old) ELSE 0, Page \ u)
      chain == old \o more
      extra == {chain[i] : i \in need + 1 .. Len(chain)}
      early == {[ok |-> FALSE, used |-> u \cup Range(SubSeq(more, 1, n)),
                 entry |-> catalog_meta_page_id, meta |-> meta,
                 lost |-> Range(SubSeq(more, 1, n))] :
                  n \in {m \in 0 .. Len(more) : old = <<>> => m <= 1}}
      entry == {[ok |-> FALSE, used |-> u \cup Range(SubSeq(more, 1, n)),
                 entry |-> more[1], meta |-> HalfWritten(snapshot, chain, 0),
                 lost |-> Range(SubSeq(more, 2, n))] :
                  n \in {m \in 1 .. Len(more) : old = <<>>}}
      tail(k) == IF k = need THEN need
                 ELSE IF k < Len(old) THEN Len(old) ELSE k + 1
      write == UNION {{[ok |-> FALSE,
                        used |-> (u \cup Range(more))
                                   \ Range(SubSeq(chain, need + 1, need + d)),
                        entry |-> chain[1],
                        meta |-> HalfWritten(snapshot, chain, k),
                        lost |-> Range(SubSeq(chain, tail(k) + d + 1,
                                              Len(chain)))] :
                         d \in {e \in 0 .. Len(chain) - need :
                                  e > 0 => k = need /\ need + e < Len(chain)}} :
                       k \in {j \in 1 .. need : Len(chain) >= need}}
  IN  early \cup
      (IF "entry" \in GivesUp THEN entry ELSE {}) \cup
      (IF "write" \in GivesUp THEN write ELSE {}) \cup
      {[ok |-> TRUE, used |-> (u \cup Range(more)) \ extra,
        entry |-> chain[1], meta |-> Written(snapshot, chain),
        lost |-> {}] : full \in {TRUE} \cap {Len(chain) >= need}}

-------------------------------------------------------------------------------
Init ==
  /\ tables = <<>> /\ indexes = <<>>
  /\ next_table_oid = 0 /\ next_index_oid = 0
  /\ pending_reclaim = {} /\ used = {} /\ pinned = {}
  /\ catalog_meta_page_id = INVALID_PAGE_ID
  /\ meta = [p \in Page |-> Blank]
  /\ task = [t \in Thread |-> Idle]
  /\ given = {} /\ lost = {}

Calls(op) == {t \in Thread : task[t].op = op}
Named(n) == {o \in DOMAIN tables : tables[o].name = n}
IndexesOf(o) == {x \in DOMAIN indexes : indexes[x].table = o}

(* CreateTable, before it has latch_: a name nobody has, and a page for    *)
(* the heap.                                                               *)
StartCreateTable(t, n) ==
  /\ task[t] = Idle
  /\ Named(n) = {}
  /\ next_table_oid + Cardinality(Calls("create")) < MaxOid
  /\ \E p \in Range(Lowest(1, Page \ used)) :
       /\ used' = used \cup {p}
       /\ task' = [task EXCEPT ![t] = [op |-> "create", name |-> n, page |-> p]]
  /\ UNCHANGED <<memory, file, pending_reclaim, pinned, given, lost>>

(* CreateTable, with latch_: somebody may have been faster.  An oid that   *)
(* was taken for a table that could not be persisted is not given back.    *)
CreateTable(t) ==
  LET page == task[t].page
      name == task[t].name
      oid == next_table_oid
      free == Reclaimed(used, pending_reclaim)
      T == With(tables, oid, [name |-> name, heap |-> <<page>>])
  IN  /\ task[t].op = "create"
      /\ task' = [task EXCEPT ![t] = Idle]
      /\ pending_reclaim' = free.pending
      /\ \/ /\ Named(name) # {}
            /\ used' = free.used \ {page}
            /\ UNCHANGED <<memory, file, given, lost>>
         \/ /\ Named(name) = {}
            /\ next_table_oid' = oid + 1
            /\ \E r \in Persisted(free.used,
                     BuildMetaSnapshot(T, indexes, oid + 1, next_index_oid)) :
                 /\ tables' = IF r.ok THEN T ELSE tables
                 /\ used' = IF r.ok THEN r.used ELSE r.used \ {page}
                 /\ given' = IF r.ok THEN given \cup {oid} ELSE given
                 /\ catalog_meta_page_id' = r.entry /\ meta' = r.meta
                 /\ lost' = lost \cup r.lost
            /\ UNCHANGED <<indexes, next_index_oid>>
      /\ UNCHANGED pinned

(* CreateIndex by the name of a table: its oid is looked up, and latch_    *)
(* given up before it is taken again.                                      *)
StartCreateIndex(t, n, name) ==
  /\ task[t] = Idle
  /\ next_index_oid + Cardinality(Calls("index")) < MaxOid
  /\ \E o \in Named(n) :
       task' = [task EXCEPT ![t] = [op |-> "index", oid |-> o, name |-> name]]
  /\ UNCHANGED <<memory, file, pending_reclaim, used, pinned, given, lost>>

(* CreateIndex by oid.  The tree gets a header page and what pages the     *)
(* table's records need, one or none here.  When a record cannot be put in *)
(* or the metadata cannot be written, the index goes, its oid is given     *)
(* back, and its header page is deleted: the rest of the tree is not.      *)
CreateIndex(t) ==
  LET o == task[t].oid
      free == Reclaimed(used, pending_reclaim)
      oid == next_index_oid
      fresh == Lowest(2, Page \ free.used)
      refused == \/ o \notin DOMAIN tables
                 \/ \E x \in IndexesOf(o) : indexes[x].name = task[t].name
                 \/ fresh = <<>>
  IN  /\ task[t].op = "index"
      /\ task' = [task EXCEPT ![t] = Idle]
      /\ pending_reclaim' = free.pending
      /\ \/ /\ refused
            /\ used' = free.used
            /\ UNCHANGED <<memory, file, lost>>
         \/ /\ ~refused
            /\ \E k \in 1 .. Len(fresh) :
                 LET new == [table |-> o, name |-> task[t].name,
                             header |-> fresh[1],
                             tree |-> Range(SubSeq(fresh, 2, k))]
                     u == free.used \cup TreePages(new)
                     X == With(indexes, oid, new)
                     backfill == [ok |-> FALSE, used |-> u, meta |-> meta,
                                  entry |-> catalog_meta_page_id, lost |-> {}]
                 IN  \E r \in {backfill} \cup Persisted(u,
                         BuildMetaSnapshot(tables, X, next_table_oid, oid + 1)) :
                       /\ indexes' = IF r.ok THEN X ELSE indexes
                       /\ next_index_oid' = IF r.ok THEN oid + 1 ELSE oid
                       /\ used' = IF r.ok THEN r.used ELSE r.used \ {new.header}
                       /\ lost' = lost \cup r.lost \cup
                                    (IF r.ok THEN {} ELSE new.tree)
                       /\ catalog_meta_page_id' = r.entry /\ meta' = r.meta
            /\ UNCHANGED <<tables, next_table_oid>>
      /\ UNCHANGED <<pinned, given>>

(* What DropIndex and DropTable have in common: persist what is left, and  *)
(* only then collect the pages and delete those that nobody has pinned;    *)
(* what could not be persisted comes back.  An index comes back with       *)
(* LoadIndex, which reads its header page: when it cannot, the index is    *)
(* gone from memory, and its pages are nobody's.                           *)
Drop(oids, xs) ==
  LET free == Reclaimed(used, pending_reclaim)
      T == Without(tables, oids)
      X == Without(indexes, xs)
  IN  /\ \E r \in Persisted(free.used,
               BuildMetaSnapshot(T, X, next_table_oid, next_index_oid)),
            back \in {TRUE} \cup {b \in {FALSE} : oids = {} /\ "restore" \in GivesUp} :
           LET pages == Collected(tables, indexes, oids, xs)
               gone == IF r.ok THEN pages ELSE {}
               rest == Reclaimed(r.used, free.pending \cup gone)
           IN  /\ tables' = IF r.ok THEN T ELSE tables
               /\ indexes' = IF r.ok \/ ~back THEN X ELSE indexes
               /\ catalog_meta_page_id' = r.entry /\ meta' = r.meta
               /\ used' = rest.used /\ pending_reclaim' = rest.pending
               /\ lost' = lost \cup r.lost \cup
                            (IF r.ok \/ back THEN {} ELSE pages)
      /\ UNCHANGED <<next_table_oid, next_index_oid, pinned, task, given>>

DropIndex(t) ==
  /\ task[t] = Idle
  /\ \E x \in DOMAIN indexes : Drop({}, {x})

DropTable(t) ==
  /\ task[t] = Idle
  /\ \E o \in DOMAIN tables : Drop({o}, IndexesOf(o))

-------------------------------------------------------------------------------
(* What clients do to tables and indexes, without latch_.                  *)

GrowTable(o) ==
  \E p \in Range(Lowest(1, Page \ used)) :
    /\ tables' = [tables EXCEPT ![o].heap = Append(@, p)]
    /\ used' = used \cup {p}
    /\ UNCHANGED <<indexes, next_table_oid, next_index_oid, file,
                   pending_reclaim, pinned, task, given, lost>>

(* A page without records is reclaimed, the first one too, when another    *)
(* follows; the catalog is not told.                                       *)
ShrinkTable(o) ==
  \E i \in DOMAIN tables[o].heap :
    /\ i > 1 \/ (HeadsMayGo /\ Len(tables[o].heap) > 1)
    /\ tables[o].heap[i] \notin pinned
    /\ tables' = [tables EXCEPT ![o].heap = RemoveAt(@, i)]
    /\ used' = used \ {tables[o].heap[i]}
    /\ UNCHANGED <<indexes, next_table_oid, next_index_oid, file,
                   pending_reclaim, pinned, task, given, lost>>

GrowIndex(x) ==
  \E p \in Range(Lowest(1, Page \ used)) :
    /\ indexes' = [indexes EXCEPT ![x].tree = @ \cup {p}]
    /\ used' = used \cup {p}
    /\ UNCHANGED <<tables, next_table_oid, next_index_oid, file,
                   pending_reclaim, pinned, task, given, lost>>

ShrinkIndex(x) ==
  \E p \in indexes[x].tree \ pinned :
    /\ indexes' = [indexes EXCEPT ![x].tree = @ \ {p}]
    /\ used' = used \ {p}
    /\ UNCHANGED <<tables, next_table_oid, next_index_oid, file,
                   pending_reclaim, pinned, task, given, lost>>

Pin ==
  /\ Cardinality(pinned) < MaxPins
  /\ \E p \in HeapPages(tables) \cup UNION {indexes[x].tree : x \in DOMAIN indexes} :
       pinned' = pinned \cup {p}
  /\ UNCHANGED <<memory, file, pending_reclaim, used, task, given, lost>>

Unpin ==
  /\ \E p \in pinned : pinned' = pinned \ {p}
  /\ UNCHANGED <<memory, file, pending_reclaim, used, task, given, lost>>

(* The database is closed, when nobody is in it, and opened again: the     *)
(* catalog is what LoadCatalogMeta makes of the file, the heaps and trees  *)
(* are found from their first pages, and the pages that waited to be       *)
(* deleted are forgotten.  A file that names other tables and indexes than *)
(* memory did is not followed further: ReopenRestoresCatalog is false      *)
(* already.                                                                *)
Reopen ==
  /\ \A t \in Thread : task[t] = Idle
  /\ pinned = {}
  /\ \E s \in Loaded :
       /\ {e.oid : e \in s.tables} = DOMAIN tables
       /\ {e.oid : e \in s.indexes} = DOMAIN indexes
       /\ tables' = [o \in {e.oid : e \in s.tables} |->
                       LET e == CHOOSE d \in s.tables : d.oid = o
                       IN  [name |-> e.name, heap |-> tables[o].heap]]
       /\ indexes' = [x \in {e.oid : e \in s.indexes} |->
                        LET e == CHOOSE d \in s.indexes : d.oid = x
                        IN  [table |-> e.table, name |-> e.name,
                             header |-> e.header, tree |-> indexes[x].tree]]
       /\ next_table_oid' = s.next_table /\ next_index_oid' = s.next_index
  /\ pending_reclaim' = {}
  /\ lost' = lost \cup pending_reclaim
  /\ UNCHANGED <<file, used, pinned, task, given>>

Next ==
  \/ \E t \in Thread :
       \/ \E n \in Name : StartCreateTable(t, n)
       \/ CreateTable(t)
       \/ \E n \in Name, x \in IndexName : StartCreateIndex(t, n, x)
       \/ CreateIndex(t)
       \/ DropIndex(t)
       \/ DropTable(t)
  \/ \E o \in DOMAIN tables : GrowTable(o) \/ ShrinkTable(o)
  \/ \E x \in DOMAIN indexes : GrowIndex(x) \/ ShrinkIndex(x)
  \/ Pin \/ Unpin
  \/ Reopen

Spec == Init /\ [][Next]_vars

-------------------------------------------------------------------------------
ChainPages == Range(MetaChain(catalog_meta_page_id))
Owner(p) ==
  {<<"table", o>> : o \in {q \in DOMAIN tables : p \in Range(tables[q].heap)}}
    \cup {<<"index", x>> : x \in {q \in DOMAIN indexes : p \in TreePages(indexes[q])}}
    \cup {<<"call", t>> : t \in {u \in Calls("create") : task[u].page = p}}
    \cup {x \in {<<"meta", 0>>} : p \in ChainPages}
    \cup {x \in {<<"pending", 0>>} : p \in pending_reclaim}
    \cup {x \in {<<"nobody", 0>>} : p \in lost}

(* Each variable has its type.                                             *)
TypeOK ==
  /\ DOMAIN tables \subseteq 0 .. MaxOid - 1
  /\ \A o \in DOMAIN tables :
       /\ tables[o].name \in Name
       /\ tables[o].heap \in Seq(Page) /\ tables[o].heap # <<>>
  /\ \A x \in DOMAIN indexes :
       /\ indexes[x].table \in DOMAIN tables /\ indexes[x].name \in IndexName
       /\ indexes[x].header \in Page /\ indexes[x].tree \subseteq Page
  /\ next_table_oid \in 0 .. MaxOid /\ next_index_oid \in 0 .. MaxOid
  /\ pending_reclaim \cup used \cup pinned \cup lost \subseteq Page
  /\ catalog_meta_page_id \in Page \cup {INVALID_PAGE_ID}
  /\ \A t \in Thread : task[t].op \in {"none", "create", "index"}
  /\ given \subseteq 0 .. MaxOid - 1

(* Whatever calls were made, refused or taken back by then: opened again,  *)
(* the database has the tables and indexes it has now, under their names   *)
(* and oids and with their first pages.  It is so as long as no call fails *)
(* once the metadata has begun to change in the pool or on the disk        *)
(* (GivesUp) and no heap's first page goes (HeadsMayGo).                   *)
ReopenRestoresCatalog ==
  \E s \in Loaded :
    LET now == BuildMetaSnapshot(tables, indexes, next_table_oid, next_index_oid)
    IN  /\ s.tables = now.tables
        /\ s.indexes = now.indexes

(* No page belongs to two: of the tables, the indexes, the metadata, what  *)
(* a call has just made, what waits to be deleted.  One that is freed and  *)
(* still waits would be deleted under its next owner.  And no page is      *)
(* described to the disk manager as free while somebody has it pinned.     *)
NoPageHasTwoOwners ==
  /\ TypeOK
  /\ \A p \in Page : Cardinality(Owner(p)) <= 1
  /\ pinned \subseteq used

(* Every page handed out has an owner, or is one of those that a failed    *)
(* CreateIndex, a failed DropIndex or a failed write of the metadata is    *)
(* known to leave behind, or that still waited to be deleted when the      *)
(* database was closed; and what has an owner was handed out.              *)
PagesAreAccountedFor == used = {p \in Page : Owner(p) # {}}

(* A table oid that was given to a caller is never given again, also when  *)
(* its table was dropped and the database opened again.                    *)
OidsAreNotReused ==
  \A o \in given : o < next_table_oid /\ \A s \in Loaded : o < s.next_table
===============================================================================
