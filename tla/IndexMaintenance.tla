--------------------------- MODULE IndexMaintenance ---------------------------
(***************************************************************************)
(* The executors (execution/*.cxx): INSERT, DELETE and UPDATE statements   *)
(* over the rows of a list, a table scan or an index scan, which keep the  *)
(* indexes of a table in step with its heap by hand (index_maintenance),   *)
(* and the backfill of a new index (catalog/catalog.cxx).                  *)
(*                                                                         *)
(* One statement runs at a time, as in the repository's tests; a step of   *)
(* it is what is done for one row.  A row has a key, its first column, and *)
(* a value that stands for the others; an UPDATE adds one to the value.    *)
(* While a row is processed one call may fail: of the heap, or an index's  *)
(* Insert, which then has changed nothing.                                 *)
(*                                                                         *)
(* Two kinds of failing call are taken for an answer and not noticed; they *)
(* are in Faults where they may happen:                                    *)
(*   "remove"  an index's Remove answers false with the key still in, and  *)
(*             that is read as a key that was not there;                   *)
(*   "read"    a page of a scan cannot be had, and that is read as the end *)
(*             of the scan, or as a position without a row.                *)
(***************************************************************************)
EXTENDS Integers, Sequences, FiniteSets, Functions

CONSTANTS
  Key,                      \* keys
  MaxRid,                   \* places for records in the heap
  MaxVal,                   \* bound on the values
  MaxIndex,                 \* bound on the indexes of the table
  MaxRows,                  \* bound on the rows an INSERT lists
  Faults,                   \* the failing calls that go unnoticed
  OneLeaf                   \* do the keys of an index fit a leaf?

ASSUME IndexMaintenanceConstants ==
  /\ Key \subseteq Int
  /\ MaxRid \in Nat /\ MaxVal \in Nat /\ MaxIndex \in Nat /\ MaxRows \in Nat
  /\ Faults \subseteq {"remove", "read"} /\ OneLeaf \in BOOLEAN

RID == 1 .. MaxRid          \* in the order a table scan meets them
END == MaxRid + 1           \* a table scan's end

VARIABLES
  heap,                     \* the records, by rid
  index,                    \* each index: rids by key
  stmt,                     \* the statement that runs, or the last one
  start                     \* ghost: the heap when it began

vars == <<heap, index, stmt, start>>

Without(f, gone) == [x \in DOMAIN f \ gone |-> f[x]]
Put(f, x, v) == [y \in DOMAIN f \cup {x} |-> IF y = x THEN v ELSE f[y]]
LeastOf(S) == CHOOSE x \in S : \A y \in S : x <= y

Free == RID \ DOMAIN heap
Running == stmt.state = "running"

-------------------------------------------------------------------------------
(* execution/index_maintenance.cxx: what its functions make of the indexes *)
(* X.  Call number i is the Insert of the i-th index; bad is the call that *)
(* fails, one behind the last for none.                                    *)

None == Len(index) + 1
Bad == 1 .. None

RollbackInsertedIndexes_LeavesFirst(X, k, n) ==
  [i \in DOMAIN X |-> IF 1 < i /\ i <= n THEN Without(X[i], {k}) ELSE X[i]]

RollbackInsertedIndexes(X, k, n) ==
  [i \in DOMAIN X |-> IF i <= n THEN Without(X[i], {k}) ELSE X[i]]

(* An index refuses a key it has; those that took it give it back.         *)
InsertIntoIndexes(X, k, r, bad) ==
  LET stop == LeastOf({bad, Len(X) + 1} \cup {i \in DOMAIN X : k \in DOMAIN X[i]})
      taken == [i \in DOMAIN X |-> IF i < stop THEN Put(X[i], k, r) ELSE X[i]]
  IN  IF stop > Len(X) THEN [ok |-> TRUE, index |-> taken]
      ELSE [ok |-> FALSE, index |-> RollbackInsertedIndexes(taken, k, stop - 1)]

(* The indexes whose Remove may answer false with the key still in.        *)
Misses == {None} \cup IF "remove" \in Faults THEN DOMAIN index ELSE {}

(* Index miss keeps its key, and is not among those it was removed from.   *)
RemoveFromIndexes(X, k, miss) ==
  [index |-> [i \in DOMAIN X |-> IF i = miss THEN X[i] ELSE Without(X[i], {k})],
   removed |-> {i \in DOMAIN X \ {miss} : k \in DOMAIN X[i]}]

RollbackRemovedIndexes(X, k, r, removed) ==
  [i \in DOMAIN X |-> IF i \in removed THEN Put(X[i], k, r) ELSE X[i]]

(* Index by index the key is removed and inserted with the new rid.        *)
RebindMovedRid(X, k, old, new, bad) ==
  [ok |-> bad > Len(X),
   index |-> [i \in DOMAIN X |->
               IF i < bad
               THEN Put(Without(X[i], {k}), k, IF bad > Len(X) THEN new ELSE old)
               ELSE IF i = bad
                    THEN IF k \in DOMAIN X[i] THEN Put(X[i], k, old) ELSE X[i]
                    ELSE X[i]]]

-------------------------------------------------------------------------------
Init ==
  /\ heap = <<>> /\ index = <<>>
  /\ stmt = [op |-> "none", state |-> "answered", rows |-> <<>>,
             scan |-> "none", at |-> END, only |-> {}]
  /\ start = <<>>

(* INSERT with the rows of a ValuesExecutor.                               *)
StartInsert ==
  /\ ~Running
  /\ \E n \in 1 .. MaxRows : \E rows \in [1 .. n -> Key] :
       stmt' = [op |-> "insert", state |-> "running", rows |-> rows,
                scan |-> "none", at |-> END, only |-> {}]
  /\ start' = heap
  /\ UNCHANGED <<heap, index>>

(* Where a table scan comes to from place r on, and an index scan from     *)
(* position i of the index's keys, counted through its leaves.             *)
SeqNext(r) ==
  LET on == {q \in DOMAIN heap : q >= r} IN IF on = {} THEN END ELSE LeastOf(on)

Position(k) == Cardinality({j \in DOMAIN index[1] : j <= k})
IndexNext(i) == IF i <= Cardinality(DOMAIN index[1]) THEN i ELSE END

(* Where an iterator is that should be at place p: at the end, when a page *)
(* on the way cannot be had.                                               *)
ThereOrEnd(p) == {p} \cup IF "read" \in Faults THEN {END} ELSE {}

(* DELETE or UPDATE of the rows that a FilterExecutor lets through, of a   *)
(* SeqScanExecutor or an IndexScanExecutor.                                *)
StartChange(op) ==
  /\ ~Running
  /\ \E only \in (SUBSET Key) \ {{}}, scan \in {"seq", "index"} :
       /\ scan = "index" => index # <<>>
       /\ \E at \in ThereOrEnd(IF scan = "seq" THEN SeqNext(1) ELSE IndexNext(1)) :
            stmt' = [op |-> op, state |-> "running", rows |-> <<>>, scan |-> scan,
                     only |-> only, at |-> at]
  /\ start' = heap
  /\ UNCHANGED <<heap, index>>

(* The scans' Next: the row where the iterator stands now, and the         *)
(* iterator moved on before anything is done with the row.  When keys went *)
(* the position of an index scan may be behind the last, where there is no *)
(* record.                                                                 *)
ScanRids ==
  IF stmt.scan = "seq" THEN {stmt.at}
  ELSE {index[1][k] : k \in {j \in DOMAIN index[1] : Position(j) = stmt.at}}

Advanced_OverOne ==
  IF stmt.scan = "seq" THEN SeqNext(stmt.at + 2) ELSE IndexNext(stmt.at + 1)

Advanced ==
  IF stmt.scan = "seq" THEN SeqNext(stmt.at + 1) ELSE IndexNext(stmt.at + 1)

(* Where the iterator is for the row after this one, when no key of its    *)
(* index goes to another leaf meanwhile; and where else it may be when one *)
(* does: its leaf has borrowed a key in front of its place, has lent one   *)
(* to the leaf before, or is merged into that.                             *)
Onward == ThereOrEnd(Advanced)

Drifted(far) ==
  IF stmt.scan = "index" /\ ~OneLeaf /\ Advanced # END
  THEN {stmt.at, IndexNext(far), END} ELSE {}

HasRow(op) == Running /\ stmt.op = op /\ stmt.at # END
Chosen == {r \in ScanRids \cap DOMAIN heap : heap[r].key \in stmt.only}

(* A row that the filter drops, a position where there is none; or a row   *)
(* that cannot be read: SeqScanExecutor answers that as its end, though it *)
(* marks itself as failed, IndexScanExecutor goes on to the next.          *)
Unread ==
  IF "read" \in Faults THEN IF stmt.scan = "seq" THEN {END} ELSE Onward ELSE {}

SkipRow ==
  /\ \E op \in {"delete", "update"} : HasRow(op)
  /\ \E at \in IF Chosen = {} THEN Onward ELSE Unread :
       stmt' = [stmt EXCEPT !.at = at]
  /\ UNCHANGED <<heap, index, start>>

(* A row whose key is missing, is to change, or that cannot be encoded, or *)
(* a call of the heap that refuses: the statement ends, what was done for  *)
(* the rows before stays.                                                  *)
Failed == [stmt EXCEPT !.state = "failed"]

Fail ==
  /\ Running
  /\ stmt.rows # <<>> \/ ((HasRow("delete") \/ HasRow("update")) /\ Chosen # {})
  /\ stmt' = Failed
  /\ UNCHANGED <<heap, index, start>>

(* InsertExecutor::Next, one row: into the heap, into the indexes, and out *)
(* of the heap when one refuses.                                           *)
InsertRow ==
  /\ Running /\ stmt.rows # <<>>
  /\ \E r \in Free, bad \in Bad :
       LET k == Head(stmt.rows)
           ins == InsertIntoIndexes(index, k, r, bad)
       IN  /\ heap' = IF ins.ok THEN Put(heap, r, [key |-> k, val |-> 0]) ELSE heap
           /\ index' = ins.index
           /\ stmt' = IF ins.ok THEN [stmt EXCEPT !.rows = Tail(@)] ELSE Failed
  /\ UNCHANGED start

(* DeleteExecutor::Next, one row: out of the indexes, out of the heap, and *)
(* into the indexes again when the heap refuses.                           *)
DeleteRow ==
  /\ HasRow("delete")
  /\ \E r \in Chosen, miss \in Misses :
       LET k == heap[r].key
           rem == RemoveFromIndexes(index, k, miss)
       IN  \/ /\ heap' = Without(heap, {r})
              /\ index' = rem.index
              /\ \E at \in Onward \cup Drifted(stmt.at + 1) :
                   stmt' = [stmt EXCEPT !.at = at]
           \/ /\ index' = RollbackRemovedIndexes(rem.index, k, r, rem.removed)
              /\ stmt' = Failed
              /\ UNCHANGED heap
  /\ UNCHANGED start

(* UpdateExecutor::Next, one row.  The heap leaves the record where it is  *)
(* or moves it; the indexes follow.                                        *)
ToUpdate ==
  IF HasRow("update") THEN {r \in Chosen : heap[r].val < MaxVal} ELSE {}

UpdateInPlace ==
  /\ \E r \in ToUpdate : heap' = [heap EXCEPT ![r].val = @ + 1]
  /\ \E at \in Onward : stmt' = [stmt EXCEPT !.at = at]
  /\ UNCHANGED <<index, start>>

UpdateMoved ==
  /\ \E old \in ToUpdate, new \in Free :
       LET bind == RebindMovedRid(index, heap[old].key, old, new, None)
       IN  /\ heap' = Put(Without(heap, {old}), new,
                          [heap[old] EXCEPT !.val = @ + 1])
           /\ index' = bind.index
  /\ \E at \in Onward \cup Drifted(stmt.at + 2) : stmt' = [stmt EXCEPT !.at = at]
  /\ UNCHANGED start

(* The record UpdateExecutor puts back.                                    *)
Restored_New(rec) == [rec EXCEPT !.val = @ + 1]
Restored(rec) == rec

(* An index did not follow: the moved record is deleted, the old one put   *)
(* back, wherever the heap has room, and the indexes are made to follow.   *)
UpdateUndone ==
  /\ \E old \in ToUpdate, new \in Free, bad \in Bad \ {None} :
       LET rec == heap[old]
           bind == RebindMovedRid(index, rec.key, old, new, bad)
           rem == RemoveFromIndexes(bind.index, rec.key, None)
           rest == Without(heap, {old})
       IN  \E r \in RID \ DOMAIN rest :
             /\ heap' = Put(rest, r, Restored(rec))
             /\ index' = InsertIntoIndexes(rem.index, rec.key, r, None).index
  /\ stmt' = Failed
  /\ UNCHANGED start

Answer ==
  /\ Running
  /\ IF stmt.op = "insert" THEN stmt.rows = <<>> ELSE stmt.at = END
  /\ stmt' = [stmt EXCEPT !.state = "answered"]
  /\ UNCHANGED <<heap, index, start>>

(* Catalog::CreateIndex fills a new index from a scan of the table, which  *)
(* has an end where a page cannot be had, and gives up at a key it meets a *)
(* second time.                                                            *)
CreateIndex ==
  /\ ~Running /\ Len(index) < MaxIndex
  /\ \E end \in IF "read" \in Faults THEN 1 .. END ELSE {END} :
       LET met == {r \in DOMAIN heap : r < end}
       IN  /\ IsInjective([r \in met |-> heap[r].key])
           /\ index' = Append(index, [k \in {heap[r].key : r \in met} |->
                                       CHOOSE r \in met : heap[r].key = k])
  /\ UNCHANGED <<heap, stmt, start>>

Next ==
  \/ StartInsert \/ StartChange("delete") \/ StartChange("update")
  \/ SkipRow \/ Fail
  \/ InsertRow \/ DeleteRow \/ UpdateInPlace \/ UpdateMoved \/ UpdateUndone
  \/ Answer
  \/ CreateIndex

Spec == Init /\ [][Next]_vars

-------------------------------------------------------------------------------
(* How many records there are of each kind, wherever they are.             *)
Contents(h) ==
  [rec \in {h[r] : r \in DOMAIN h} |-> Cardinality({r \in DOMAIN h : h[r] = rec})]
Records(h, k) == {r \in DOMAIN h : h[r].key = k}

(* Each variable has its type.                                             *)
TypeOK ==
  /\ DOMAIN heap \subseteq RID
  /\ \A r \in DOMAIN heap : heap[r] \in [key : Key, val : 0 .. MaxVal]
  /\ Len(index) <= MaxIndex
  /\ \A i \in DOMAIN index : DOMAIN index[i] \subseteq Key
  /\ stmt.op \in {"none", "insert", "delete", "update"}
  /\ stmt.state \in {"running", "answered", "failed"}
  /\ stmt.rows \in Seq(Key) /\ stmt.only \subseteq Key

(* After every row, done or taken back when the heap refused it or an      *)
(* index's Insert did: each index of the table has each record under its   *)
(* key, where the record is now, and nothing else; so no two records have  *)
(* a key once there is an index.  With a failing call that goes unnoticed  *)
(* it is not so, and the code does not have it so: after a Remove that     *)
(* could not find the key, DELETE takes the record from under its key, and *)
(* a backfill whose scan breaks off leaves keys out.                       *)
IndexesMatchTable ==
  /\ TypeOK
  /\ \A i \in DOMAIN index :
       /\ DOMAIN index[i] = {heap[r].key : r \in DOMAIN heap}
       /\ \A r \in DOMAIN heap : index[i][heap[r].key] = r

(* A row is done or not done.  A step changes no record but the one of its *)
(* row, and that one as the statement says; a row that failed leaves the   *)
(* table's contents as they were, compensated or not.                      *)
RowsAreDoneOrUndone ==
  [][Contents(heap') # Contents(heap) =>
       /\ stmt'.state = "running"
       /\ \E k \in IF stmt.op = "insert" THEN {Head(stmt.rows)} ELSE stmt.only :
            /\ \A j \in Key \ {k} :
                 \A r \in Records(heap, j) \cup Records(heap', j) :
                   r \in DOMAIN heap /\ r \in DOMAIN heap' /\ heap'[r] = heap[r]
            /\ Cardinality(Records(heap', k)) - Cardinality(Records(heap, k)) =
                 CASE stmt.op = "insert" -> 1
                   [] stmt.op = "delete" -> -1
                   [] stmt.op = "update" -> 0]_vars

(* The records of key k a statement was to change are all changed: deleted *)
(* or updated, and that once if it came by an index.                       *)
Done(k) ==
  IF stmt.op = "delete" THEN Records(heap, k) = {}
  ELSE /\ Cardinality(Records(heap, k)) = Cardinality(Records(start, k))
       /\ \A r \in Records(heap, k) : \E s \in Records(start, k) :
            IF stmt.scan = "index" THEN heap[r].val = start[s].val + 1
            ELSE heap[r].val > start[s].val

Answered(op, scans) ==
  stmt.state = "answered" /\ stmt.op = op /\ stmt.scan \in scans

(* A statement that was answered has changed each row it was to change,    *)
(* although it moves records, and takes keys out of the index and puts     *)
(* them in, under the scan that leads it; and it has left the others.      *)
(* That is for scans whose pages can all be had, and for an index in one   *)
(* leaf: with more leaves the statement's own Remove may move keys, or a   *)
(* whole leaf, away under its iterator, and rows are met twice or never.   *)
(* DELETE by an index is not among them at all: see below.                 *)
AnsweredStatementsAreComplete ==
  Answered("delete", {"seq"}) \/ Answered("update", {"seq", "index"}) =>
    /\ \A k \in stmt.only : Done(k)
    /\ \A k \in Key \ stmt.only :
         \A r \in Records(start, k) : r \in DOMAIN heap /\ heap[r] = start[r]

(* The same of a DELETE by an index.  index_iterator.h promises a scan of  *)
(* the whole index, and to keep the current position for its caller; but   *)
(* the position is a number, and the keys behind the deleted one move up.  *)
DeletesByIndexAreComplete ==
  Answered("delete", {"index"}) => \A k \in stmt.only : Done(k)
===============================================================================
