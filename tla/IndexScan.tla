------------------------------- MODULE IndexScan -------------------------------
(***************************************************************************)
(* storage/index/index_iterator.cxx over the tree of BPlusTree: a scan of  *)
(* the chain of leaves while others change the tree.  Begin finds its      *)
(* place under tree_latch_; from then on the iterator has the number of a  *)
(* leaf and an index into it, and takes neither that latch nor a pin: each *)
(* of its steps fetches the leaf again and finds what is there by then.    *)
(***************************************************************************)
EXTENDS BPlusTree

CONSTANT RemovalsMeanwhile  \* are keys removed while a scan is open

ASSUME IndexScanConstants == RemovalsMeanwhile \in BOOLEAN

VARIABLES
  iter,                     \* the iterator, and what its owner does with it next
  owed                      \* the keys that were there when the scan began, have
                            \* not been removed, and have not been returned

scanvars == <<nodes, root, header_root, task, iter, owed>>

At(p, i, pc) == [page |-> p, index |-> i, pc |-> pc]
AtEnd == At(INVALID_PAGE_ID, 1, "end")
Closed == At(INVALID_PAGE_ID, 1, "closed")

ScanInit ==
  /\ Init
  /\ iter = Closed
  /\ owed = {}

(* A fetched page that is no leaf, or none any more, ends the scan.        *)
IsReadable(p) == p \in DOMAIN nodes /\ IsLeaf(nodes[p])

(* One turn of AdvanceToValid's loop: this entry, the end, or the next     *)
(* leaf.                                                                   *)
Valid(p, i) ==
  IF ~IsReadable(p) THEN AtEnd
  ELSE IF i <= Size(nodes[p]) THEN At(p, i, "read")
  ELSE At(nodes[p].next, 1, "settle")

(* The whole loop, for Begin, which has the tree to itself.                *)
FirstValid(p, i) ==
  LET from[q \in PageId] ==
        LET first == Valid(q, 1)
        IN  IF first.pc = "settle" THEN from[first.page] ELSE first
      here == Valid(p, i)
  IN  IF here.pc = "settle" THEN from[here.page] ELSE here

-------------------------------------------------------------------------------
(* Begin() and Begin(key).                                                 *)
Begin ==
  /\ iter = Closed
  /\ task = Idle
  /\ iter' = FirstValid(FindLeftMostLeafPage, 1)
  /\ owed' = ToSet(Scan)
  /\ UNCHANGED vars

BeginAt(k) ==
  /\ iter = Closed
  /\ task = Idle
  /\ LET leaf == FindLeafPage(k)
     IN  iter' = IF leaf = INVALID_PAGE_ID THEN AtEnd
                 ELSE FirstValid(leaf, KeyIndex(nodes[leaf], k))
  /\ owed' = {j \in ToSet(Scan) : j >= k}
  /\ UNCHANGED vars

(* operator*.  The entry may be gone: the iterator then returns {0, RID{}} *)
(* and its owner, who finds no record there, goes on.                      *)
Read ==
  /\ iter.pc = "read"
  /\ iter' = [iter EXCEPT !.pc = "advance"]
  /\ owed' = IF IsReadable(iter.page) /\ iter.index <= Size(nodes[iter.page])
             THEN owed \ {nodes[iter.page].keys[iter.index]}
             ELSE owed
  /\ UNCHANGED vars

(* operator++ up to the next leaf.                                         *)
Ahead_KeepsIndex(p, i) ==
  IF ~IsReadable(p) THEN AtEnd
  ELSE IF i < Size(nodes[p]) THEN At(p, i + 1, "read")
  ELSE At(nodes[p].next, i, "settle")

Ahead_StaysInLeaf(p, i) ==
  IF ~IsReadable(p) THEN AtEnd
  ELSE IF i < Size(nodes[p]) THEN At(p, i + 1, "read")
  ELSE At(p, 1, "settle")

Ahead(p, i) ==
  IF ~IsReadable(p) THEN AtEnd
  ELSE IF i < Size(nodes[p]) THEN At(p, i + 1, "read")
  ELSE At(nodes[p].next, 1, "settle")

Advance ==
  /\ iter.pc = "advance"
  /\ iter' = Ahead(iter.page, iter.index)
  /\ UNCHANGED <<vars, owed>>

(* AdvanceToValid.                                                         *)
Settle ==
  /\ iter.pc = "settle"
  /\ iter' = Valid(iter.page, iter.index)
  /\ UNCHANGED <<vars, owed>>

Close ==
  /\ iter.pc = "end"
  /\ iter' = Closed
  /\ owed' = {}
  /\ UNCHANGED vars

-------------------------------------------------------------------------------
(* Other threads change the tree.                                          *)
TreeGrows ==
  /\ \/ \E k \in Key : StartNewTree(k) \/ InsertIntoLeaf(k) \/ SplitLeaf(k)
     \/ GrowRoot
     \/ InsertIntoParent
     \/ SplitInternal
  /\ UNCHANGED <<iter, owed>>

KeyGoes(k) ==
  /\ RemovalsMeanwhile \/ iter = Closed
  /\ RemoveFromRoot(k) \/ RemoveFromLeaf(k)
  /\ owed' = owed \ {k}
  /\ UNCHANGED iter

TreeShrinks ==
  /\ \/ AdjustRootAfterDelete
     \/ StopRebalancing
     \/ BorrowFromLeft
     \/ BorrowFromRight
     \/ MergeLeft
     \/ MergeRight
  /\ UNCHANGED <<iter, owed>>

ScanNext ==
  \/ Begin \/ \E k \in Key : BeginAt(k)
  \/ Read \/ Advance \/ Settle \/ Close
  \/ TreeGrows
  \/ \E k \in Key : KeyGoes(k)
  \/ TreeShrinks

(* Whoever has opened a scan calls Next until there is no more row; the    *)
(* iterator waits for nothing but the latch of a page.  Nobody need change *)
(* the tree.                                                               *)
ScanSpec ==
  /\ ScanInit
  /\ [][ScanNext]_scanvars
  /\ WF_scanvars(Read \/ Advance \/ Settle \/ Close)

-------------------------------------------------------------------------------
(* Properties.                                                             *)

(* A scan that has come to its end has returned every key that was there   *)
(* from its beginning: insertions that move entries under the iterator,    *)
(* along the leaf or into a new one, may make it repeat a key, but never   *)
(* pass one by.                                                            *)
ScanMissesNothing == iter.pc = "end" => owed = {}

(* Every scan comes to its end, also when leaves are split before it for   *)
(* as long as there are keys to insert: the chain leads it there, and what *)
(* it returns again is as little as was moved.                             *)
EveryScanEnds == iter # Closed ~> iter = Closed
===============================================================================
