------------------------------ MODULE DiskClient ------------------------------
(***************************************************************************)
(* The disk manager used without a cache: clients that remember which      *)
(* pages are theirs across a crash, as the catalog does.  An allocation    *)
(* hands a page to the client and a successful deallocation takes it back; *)
(* a page whose deallocation reported an error is not used again, but its  *)
(* deallocation may be retried.                                            *)
(***************************************************************************)
EXTENDS DiskManager

VARIABLES
  disk,                     \* the DiskManager and its file
  owned,                    \* pages handed out and not freed
  limbo,                    \* pages whose deallocation failed
  intact                    \* auxiliary: no header write has failed so far

vars == <<disk, owned, limbo, intact>>

Init ==
  /\ disk = NewFile
  /\ owned = {}
  /\ limbo = {}
  /\ intact = TRUE

(* An operation that leaves its members unlike the header could not write  *)
(* the header.                                                             *)
HeaderIsWritten(d) ==
  d.header = [next |-> d.next, free |-> d.free, catalog |-> d.catalog]

NotesHeader == intact' = (intact /\ HeaderIsWritten(disk'))

Allocate ==
  \E result \in AllocatePage(disk) :
    /\ disk' = result.disk
    /\ owned' = owned \cup ({result.page} \ {INVALID_PAGE_ID})
    /\ limbo' = limbo \ {result.page}
    /\ NotesHeader

Deallocate(p) ==
  /\ p \in owned \cup limbo
  /\ \E result \in DeallocatePage(disk, p) :
       /\ disk' = result.disk
       /\ owned' = owned \ {p}
       /\ limbo' = IF result.ok THEN limbo \ {p} ELSE limbo \cup {p}
       /\ NotesHeader

UpdatePage(p, c) ==
  /\ p \in owned
  /\ \E ok \in WriteEnds(disk, p) :
       disk' = IF ok THEN Write(disk, p, c) ELSE disk
  /\ UNCHANGED <<owned, limbo, intact>>

SetCatalog(p) ==
  /\ \E result \in SetCatalogMetaPageId(disk, p) : disk' = result.disk
  /\ NotesHeader
  /\ UNCHANGED <<owned, limbo>>

(* The process dies between two operations, or inside one: the file states *)
(* inside an operation are those its failing ends leave.                   *)
CrashAndReopen ==
  /\ disk' = Reopen(disk)
  /\ UNCHANGED <<owned, limbo, intact>>

Next ==
  \/ Allocate
  \/ \E p \in Page : Deallocate(p)
  \/ \E p \in Page, c \in Data : UpdatePage(p, c)
  \/ \E p \in Page \cup {0, INVALID_PAGE_ID} : SetCatalog(p)
  \/ CrashAndReopen

Spec == Init /\ [][Next]_vars

-------------------------------------------------------------------------------
(* The state is well typed. *)
TypeOK ==
  /\ disk \in Disk
  /\ owned \subseteq Page
  /\ limbo \subseteq Page
  /\ intact \in BOOLEAN

(* The free list ends, its nodes are allocated pages, and none of them,    *)
(* nor any page beyond next_page_id_, is in a client's hands.              *)
HandsOutOnlyFreePages(d) ==
  /\ FreeListHop(d)[MaxPage] = INVALID_PAGE_ID
  /\ FreePages(d) \subseteq Page \ owned
  /\ \A p \in FreePages(d) \cup owned : p < d.next

(* AllocatePage never hands out a page that is in use, whatever file       *)
(* accesses failed in the operations before; nor does it after a crash at  *)
(* any point: what the file's header says is enough to know every page in  *)
(* use (AllocatePage and DeallocatePage write the page before the header). *)
NoPageInUseIsReused ==
  /\ TypeOK
  /\ HandsOutOnlyFreePages(disk)
  /\ HandsOutOnlyFreePages(Reopen(disk))

(* The links of the free list are written over freed pages only: a page in *)
(* use changes only when its owner writes it.                              *)
OnlyTheOwnerWrites ==
  [][\A p \in owned \cap owned' :
       disk'.pages[p] # disk.pages[p] => \E c \in Data : UpdatePage(p, c)]_vars

(* Every page of the file is in use, free, or left behind by a reported    *)
(* deallocation error: none is lost for good, unless a header write has    *)
(* failed, which can lose one.                                             *)
NoPageIsLost ==
  intact => owned \cup limbo \cup FreePages(disk) = 1 .. disk.next - 1

(* The catalog entry the header names is a page the reopened file has,     *)
(* also when next_page_id_ ran ahead of a header that was not written.     *)
CatalogEntryExists ==
  disk.header.catalog \in 1 .. disk.header.next - 1 \cup {INVALID_PAGE_ID}
===============================================================================
