------------------------ MODULE IndexMaintenanceProofs ------------------------
(***************************************************************************)
(* Proof that the executors keep every index in step with its table, do a  *)
(* row or leave it, and do every row of the statements they answer, for    *)
(* any keys, any number of indexes and any bounds; that a row is done or   *)
(* left also when a failing call goes unnoticed, the rest when none does.  *)
(***************************************************************************)
EXTENDS IndexMaintenance, FiniteSetTheorems, WellFoundedInduction, TLAPS

Record == [key : Key, val : 0 .. MaxVal]
Dictionary == UNION {[S -> RID] : S \in SUBSET Key}
Table == UNION {[S -> Record] : S \in SUBSET RID}
Statement == [op : {"none", "insert", "delete", "update"},
              state : {"running", "answered", "failed"},
              rows : Seq(Key), scan : {"none", "seq", "index"},
              at : Nat, only : SUBSET Key]

(* Index x has the records of table h, each under its key, and no others.  *)
Matches(x, h) ==
  /\ DOMAIN x = {h[r].key : r \in DOMAIN h}
  /\ \A r \in DOMAIN h : x[h[r].key] = r

(* Values of the right shape, tables and indexes that are functions.  It   *)
(* is inductive on its own, whatever calls fail.                           *)
TypesInv ==
  /\ heap \in Table
  /\ index \in Seq(Dictionary) /\ Len(index) <= MaxIndex
  /\ stmt \in Statement

(* The inductive invariant: that, and the property.                        *)
IInv ==
  /\ TypesInv
  /\ \A i \in DOMAIN index : Matches(index[i], heap)

(* No call fails unnoticed, or is taken for another answer.                *)
FailuresAreNoticed == Faults = {}

-------------------------------------------------------------------------------
(* The least of a set of numbers. *)
LEMMA LeastIsLeast ==
  ASSUME NEW S \in SUBSET Nat, S # {}
  PROVE  LeastOf(S) \in S /\ \A y \in S : LeastOf(S) <= y
<1>1. PICK x \in S : \A y \in S : ~ (<<y, x>> \in OpToRel(<, Nat))
  BY NatLessThanWellFounded, WFMin
<1>2. ASSUME NEW y \in S PROVE x <= y
  <2>1. x \in Nat /\ y \in Nat
    OBVIOUS
  <2>2. <<y, x>> \in OpToRel(<, Nat) <=> y < x
    BY <2>1 DEF OpToRel
  <2>3. ~ (<<y, x>> \in OpToRel(<, Nat))
    BY <1>1, <1>2, Zenon
  <2>4. ~ (y < x)
    BY <2>2, <2>3, Zenon
  <2> QED
    BY <2>1, <2>4
<1> QED
  BY <1>2 DEF LeastOf

(* What Put and Without make of indexes and tables. *)
LEMMA Shapes ==
  /\ \A x \in Dictionary, k \in Key, r \in RID :
       Put(x, k, r) \in Dictionary /\ Without(x, {k}) \in Dictionary
  /\ \A h \in Table, r \in RID, rec \in Record :
       Put(h, r, rec) \in Table /\ Without(h, {r}) \in Table
<1>1. ASSUME NEW x \in Dictionary, NEW k \in Key, NEW r \in RID
      PROVE  Put(x, k, r) \in Dictionary /\ Without(x, {k}) \in Dictionary
  <2>1. PICK S \in SUBSET Key : x \in [S -> RID]
    BY <1>1 DEF Dictionary
  <2>2. Put(x, k, r) \in [S \cup {k} -> RID]
    BY <1>1, <2>1 DEF Put
  <2>3. Without(x, {k}) \in [S \ {k} -> RID]
    BY <1>1, <2>1 DEF Without
  <2>4. S \cup {k} \in SUBSET Key /\ S \ {k} \in SUBSET Key
    BY <1>1, <2>1
  <2> QED
    BY <2>2, <2>3, <2>4 DEF Dictionary
<1>2. ASSUME NEW h \in Table, NEW r \in RID, NEW rec \in Record
      PROVE  Put(h, r, rec) \in Table /\ Without(h, {r}) \in Table
  <2>1. PICK S \in SUBSET RID : h \in [S -> Record]
    BY <1>2 DEF Table
  <2>2. Put(h, r, rec) \in [S \cup {r} -> Record]
    BY <1>2, <2>1 DEF Put
  <2>3. Without(h, {r}) \in [S \ {r} -> Record]
    BY <1>2, <2>1 DEF Without
  <2>4. S \cup {r} \in SUBSET RID /\ S \ {r} \in SUBSET RID
    BY <1>2, <2>1
  <2> QED
    BY <2>2, <2>3, <2>4 DEF Table
<1> QED
  BY <1>1, <1>2

(* Elements of the sets are functions over the right domains.              *)
LEMMA Domains ==
  /\ \A x \in Dictionary : /\ DOMAIN x \subseteq Key
                           /\ x \in [DOMAIN x -> RID]
  /\ \A h \in Table : /\ DOMAIN h \subseteq RID
                      /\ h \in [DOMAIN h -> Record]
BY DEF Dictionary, Table

(* Taking a record out of the table and its key out of the index keeps the *)
(* two in step.                                                            *)
LEMMA MatchesWithout ==
  ASSUME NEW x \in Dictionary, NEW h \in Table, Matches(x, h),
         NEW r \in DOMAIN h
  PROVE  /\ Matches(Without(x, {h[r].key}), Without(h, {r}))
         /\ h[r].key \in DOMAIN x /\ x[h[r].key] = r
<1>1. \A s \in DOMAIN h : h[s].key = h[r].key => s = r
  BY DEF Matches
<1> QED
  BY <1>1, Domains DEF Matches, Without

(* Putting a record in where there is none, and a key that is not in.      *)
LEMMA MatchesPut ==
  ASSUME NEW x \in Dictionary, NEW h \in Table, Matches(x, h),
         NEW r \in RID \ DOMAIN h, NEW rec \in Record,
         rec.key \notin DOMAIN x
  PROVE  Matches(Put(x, rec.key, r), Put(h, r, rec))
BY Domains DEF Matches, Put

(* A key that was taken out and put in again leaves the index as it was.   *)
LEMMA PutBack ==
  ASSUME NEW x \in Dictionary, NEW k \in DOMAIN x
  PROVE  Put(Without(x, {k}), k, x[k]) = x
BY Domains DEF Put, Without

(* InsertIntoIndexesByKey puts the key in all the indexes or, when one has *)
(* it or refuses, leaves all of them as they were.                         *)
LEMMA InsertsAllOrNone ==
  ASSUME NEW X \in Seq(Dictionary), NEW k \in Key, NEW r \in RID,
         NEW bad \in 1 .. Len(X) + 1
  PROVE  LET ins == InsertIntoIndexes(X, k, r, bad)
             all == \A i \in DOMAIN X : k \notin DOMAIN X[i]
         IN  /\ ins.ok <=> bad = Len(X) + 1 /\ all
             /\ ins.ok => ins.index = [i \in DOMAIN X |-> Put(X[i], k, r)]
             /\ ~ins.ok => ins.index = X
<1> DEFINE S == {bad, Len(X) + 1} \cup {i \in DOMAIN X : k \in DOMAIN X[i]}
           stop == LeastOf(S)
           taken == [i \in DOMAIN X |-> IF i < stop THEN Put(X[i], k, r) ELSE X[i]]
           ins == InsertIntoIndexes(X, k, r, bad)
<1>1. /\ DOMAIN X = 1 .. Len(X) /\ Len(X) \in Nat
      /\ \A i \in DOMAIN X : X[i] \in Dictionary
  OBVIOUS
<1>2. S \in SUBSET Nat /\ S # {}
  BY <1>1
<1>3. stop \in S /\ \A y \in S : stop <= y
  BY <1>2, LeastIsLeast
<1>4. ins = IF stop > Len(X) THEN [ok |-> TRUE, index |-> taken]
            ELSE [ok |-> FALSE, index |-> RollbackInsertedIndexes(taken, k, stop - 1)]
  BY DEF InsertIntoIndexes
<1> HIDE DEF stop, ins
<1>5. stop \in Nat /\ stop <= Len(X) + 1 /\ stop <= bad
  BY <1>1, <1>3
<1>6. \A i \in DOMAIN X : i < stop => k \notin DOMAIN X[i]
  BY <1>1, <1>3
<1>7. CASE stop > Len(X)
  <2>1. stop = Len(X) + 1 /\ bad = Len(X) + 1
    BY <1>1, <1>5, <1>7
  <2>2. \A i \in DOMAIN X : k \notin DOMAIN X[i]
    BY <1>1, <1>6, <2>1
  <2>3. taken = [i \in DOMAIN X |-> Put(X[i], k, r)]
    BY <1>1, <2>1
  <2> QED
    BY <1>4, <1>7, <2>1, <2>2, <2>3 DEF ins
<1>8. CASE ~(stop > Len(X))
  <2>1. ~(bad = Len(X) + 1 /\ \A i \in DOMAIN X : k \notin DOMAIN X[i])
    BY <1>1, <1>3, <1>5, <1>8
  <2>2. \A i \in DOMAIN X : i < stop => Without(Put(X[i], k, r), {k}) = X[i]
    BY <1>1, <1>6, Domains DEF Put, Without
  <2>3. \A i \in DOMAIN X : (i <= stop - 1 <=> i < stop)
    BY <1>1, <1>5
  <2>4. \A i \in DOMAIN X :
          (IF i <= stop - 1 THEN Without(taken[i], {k}) ELSE taken[i]) = X[i]
    BY <2>2, <2>3
  <2>5. RollbackInsertedIndexes(taken, k, stop - 1) =
          [i \in DOMAIN X |->
             IF i <= stop - 1 THEN Without(taken[i], {k}) ELSE taken[i]]
    BY DEF RollbackInsertedIndexes
  <2>6. X = [i \in DOMAIN X |-> X[i]]
    BY <1>1
  <2>7. RollbackInsertedIndexes(taken, k, stop - 1) = [i \in DOMAIN X |-> X[i]]
    BY <2>4, <2>5
  <2> QED
    BY <1>4, <1>8, <2>1, <2>6, <2>7 DEF ins
<1> QED
  BY <1>7, <1>8 DEF ins

-------------------------------------------------------------------------------
LEMMA InitIInv == Init => IInv
<1> SUFFICES ASSUME Init PROVE IInv
  OBVIOUS
<1>1. heap \in [{} -> Record]
  BY DEF Init
<1>2. heap \in Table
  BY <1>1 DEF Table
<1>3. stmt \in Statement
  BY IndexMaintenanceConstants DEF Init, Statement, END
<1> QED
  BY <1>2, <1>3, IndexMaintenanceConstants DEF Init, IInv, TypesInv

(* Where the iterators of a statement may stand.                           *)
LEMMA Positions ==
  ASSUME TypesInv
  PROVE  /\ END \in Nat /\ RID \subseteq Nat
         /\ \A r \in Nat : SeqNext(r) \in Nat /\ IndexNext(r) \in Nat
         /\ \A r \in Nat : ThereOrEnd(r) \subseteq Nat
         /\ Advanced \in Nat
         /\ Onward \subseteq Nat /\ Unread \subseteq Nat
         /\ Drifted(stmt.at + 1) \subseteq Nat /\ Drifted(stmt.at + 2) \subseteq Nat
<1>1. END \in Nat /\ RID \subseteq Nat
  BY IndexMaintenanceConstants DEF END, RID
<1>2. ASSUME NEW r \in Nat PROVE SeqNext(r) \in Nat
  <2> DEFINE on == {q \in DOMAIN heap : q >= r}
  <2>1. on \in SUBSET Nat
    BY <1>1, Domains DEF IInv, TypesInv
  <2>2. on # {} => LeastOf(on) \in Nat
    BY <2>1, LeastIsLeast
  <2> QED
    BY <1>1, <2>2 DEF SeqNext
<1>3. ASSUME NEW r \in Nat PROVE IndexNext(r) \in Nat
  BY <1>1 DEF IndexNext
<1>4. stmt.at \in Nat /\ stmt.at + 1 \in Nat /\ stmt.at + 2 \in Nat
  BY DEF TypesInv, Statement
<1>5. Advanced \in Nat
  BY <1>2, <1>3, <1>4 DEF Advanced
<1>6. \A r \in Nat : ThereOrEnd(r) \subseteq Nat
  BY <1>1 DEF ThereOrEnd
<1>7. Onward \subseteq Nat
  BY <1>5, <1>6 DEF Onward
<1>8. Unread \subseteq Nat
  BY <1>1, <1>7 DEF Unread
<1>9. \A r \in Nat : Drifted(r) \subseteq Nat
  BY <1>1, <1>3, <1>4 DEF Drifted
<1> QED
  BY <1>1, <1>2, <1>3, <1>4, <1>5, <1>6, <1>7, <1>8, <1>9

(* Where they stand, and which indexes miss, when every failure is seen.   *)
LEMMA WhenNoticed ==
  ASSUME FailuresAreNoticed
  PROVE  /\ Misses = {None} /\ Unread = {} /\ Onward = {Advanced}
         /\ \A p : ThereOrEnd(p) = {p}
         /\ stmt.scan = "seq" \/ OneLeaf => \A far : Drifted(far) = {}
BY DEF FailuresAreNoticed, Misses, Unread, Onward, ThereOrEnd, Drifted

(* A list as long as X, of elements of the same set.                       *)
LEMMA SameLength ==
  ASSUME NEW D, NEW X \in Seq(D), NEW Y, Y \in [DOMAIN X -> D]
  PROVE  Y \in Seq(D) /\ Len(Y) = Len(X) /\ DOMAIN Y = DOMAIN X
OBVIOUS

(* All the indexes without the key of record r of the table.               *)
LEMMA AllWithout ==
  ASSUME IInv, NEW r \in DOMAIN heap
  PROVE  LET k == heap[r].key
             X == [i \in DOMAIN index |-> Without(index[i], {k})]
         IN  /\ k \in Key /\ r \in RID /\ heap[r] \in Record
             /\ X \in Seq(Dictionary) /\ Len(X) = Len(index)
             /\ DOMAIN X = DOMAIN index
             /\ Without(heap, {r}) \in Table
             /\ \A i \in DOMAIN index :
                  /\ k \in DOMAIN index[i] /\ index[i][k] = r
                  /\ X[i] = Without(index[i], {k})
                  /\ Matches(X[i], Without(heap, {r}))
<1> DEFINE k == heap[r].key
           X == [i \in DOMAIN index |-> Without(index[i], {k})]
<1>1. k \in Key /\ r \in RID /\ heap[r] \in Record
  BY Domains DEF IInv, TypesInv, Record
<1>2. index \in Seq(Dictionary) /\ \A i \in DOMAIN index : index[i] \in Dictionary
  BY DEF IInv, TypesInv
<1>3. X \in Seq(Dictionary) /\ Len(X) = Len(index) /\ DOMAIN X = DOMAIN index
  <2>1. \A i \in DOMAIN index : Without(index[i], {k}) \in Dictionary
    BY <1>1, <1>2, Shapes
  <2>2. X \in [DOMAIN index -> Dictionary]
    BY <2>1
  <2> HIDE DEF X
  <2> QED
    BY <1>2, <2>2, SameLength
<1>4. Without(heap, {r}) \in Table
  BY <1>1, Shapes DEF IInv, TypesInv
<1>5. \A i \in DOMAIN index :
        /\ k \in DOMAIN index[i] /\ index[i][k] = r
        /\ Matches(Without(index[i], {k}), Without(heap, {r}))
  BY MatchesWithout DEF IInv, TypesInv
<1> QED
  BY <1>1, <1>3, <1>4, <1>5

(* A step that changes neither the table nor an index.                     *)
LEMMA Steady ==
  ASSUME IInv, heap' = heap, index' = index, stmt' \in Statement
  PROVE  IInv'
BY DEF IInv, TypesInv

(* A step to a table and indexes that match.                               *)
LEMMA Reaches ==
  ASSUME heap' \in Table, index' \in Seq(Dictionary), Len(index') <= MaxIndex,
         stmt' \in Statement, \A i \in DOMAIN index' : Matches(index'[i], heap')
  PROVE  IInv'
BY DEF IInv, TypesInv

(* A step that puts a record in where there is room, and its key in all    *)
(* the indexes.                                                            *)
LEMMA PutReaches ==
  ASSUME NEW X \in Seq(Dictionary), NEW h \in Table, Len(X) <= MaxIndex,
         \A i \in DOMAIN X : Matches(X[i], h),
         NEW r \in RID \ DOMAIN h, NEW rec \in Record,
         \A i \in DOMAIN X : rec.key \notin DOMAIN X[i],
         heap' = Put(h, r, rec),
         index' = [i \in DOMAIN X |-> Put(X[i], rec.key, r)],
         stmt' \in Statement
  PROVE  IInv'
<1>1. rec.key \in Key
  BY DEF Record
<1>2. index' \in Seq(Dictionary) /\ Len(index') = Len(X) /\ DOMAIN index' = DOMAIN X
  <2>1. \A i \in DOMAIN X : X[i] \in Dictionary
    OBVIOUS
  <2>2. \A i \in DOMAIN X : Put(X[i], rec.key, r) \in Dictionary
    BY <1>1, <2>1, Shapes
  <2>3. index' \in [DOMAIN X -> Dictionary]
    BY <2>2
  <2> QED
    BY <2>3, SameLength
<1>3. heap' \in Table
  BY Shapes
<1>4. \A i \in DOMAIN index' : Matches(index'[i], heap')
  <2>1. ASSUME NEW i \in DOMAIN X PROVE Matches(Put(X[i], rec.key, r), Put(h, r, rec))
    <3>1. X[i] \in Dictionary
      OBVIOUS
    <3> QED
      BY <3>1, MatchesPut
  <2> QED
    BY <1>2, <2>1
<1> QED
  BY <1>2, <1>3, <1>4, Reaches

LEMMA InsertRowKeeps == ASSUME IInv, InsertRow PROVE IInv'
<1>1. PICK r \in Free, bad \in Bad :
        LET k == Head(stmt.rows)
            ins == InsertIntoIndexes(index, k, r, bad)
        IN  /\ heap' = IF ins.ok THEN Put(heap, r, [key |-> k, val |-> 0]) ELSE heap
            /\ index' = ins.index
            /\ stmt' = IF ins.ok THEN [stmt EXCEPT !.rows = Tail(@)] ELSE Failed
  BY DEF InsertRow
<1> DEFINE k == Head(stmt.rows)
           rec == [key |-> k, val |-> 0]
           ins == InsertIntoIndexes(index, k, r, bad)
<1>2. /\ stmt.rows \in Seq(Key) /\ stmt.rows # <<>>
      /\ heap \in Table /\ index \in Seq(Dictionary) /\ Len(index) <= MaxIndex
      /\ \A i \in DOMAIN index : Matches(index[i], heap)
  BY DEF IInv, TypesInv, Statement, InsertRow
<1>3. k \in Key /\ Tail(stmt.rows) \in Seq(Key)
  BY <1>2
<1>4. rec \in Record /\ rec.key = k /\ r \in RID \ DOMAIN heap
  BY <1>3, IndexMaintenanceConstants DEF Record, Free
<1>5. bad \in 1 .. Len(index) + 1
  BY DEF Bad, None
<1>6. /\ ins.ok => \A i \in DOMAIN index : k \notin DOMAIN index[i]
      /\ ins.ok => ins.index = [i \in DOMAIN index |-> Put(index[i], k, r)]
      /\ ~ins.ok => ins.index = index
  BY <1>2, <1>3, <1>4, <1>5, InsertsAllOrNone
<1>7. CASE ins.ok
  <2>1. /\ heap' = Put(heap, r, rec)
        /\ index' = [i \in DOMAIN index |-> Put(index[i], k, r)]
        /\ stmt' = [stmt EXCEPT !.rows = Tail(@)]
    BY <1>1, <1>6, <1>7
  <2>2. stmt' \in Statement
    BY <1>3, <2>1 DEF IInv, TypesInv, Statement
  <2> HIDE DEF k, rec, ins
  <2>3. \A i \in DOMAIN index : rec.key \notin DOMAIN index[i]
    BY <1>4, <1>6, <1>7
  <2>4. index' = [i \in DOMAIN index |-> Put(index[i], rec.key, r)]
    BY <1>4, <2>1
  <2> QED
    BY <1>2, <1>4, <2>1, <2>2, <2>3, <2>4, PutReaches
<1>8. CASE ~ins.ok
  <2>1. heap' = heap /\ index' = index /\ stmt' = Failed
    BY <1>1, <1>6, <1>8
  <2>2. stmt' \in Statement
    BY <2>1 DEF IInv, TypesInv, Statement, Failed
  <2> QED
    BY <2>1, <2>2, Steady
<1> QED
  BY <1>7, <1>8

(* Where a row leaves its statement.                                       *)
LEMMA StatementGoesOn ==
  ASSUME TypesInv
  PROVE  /\ \A p \in Nat : [stmt EXCEPT !.at = p] \in Statement
         /\ Failed \in Statement
<1>1. stmt \in Statement
  BY DEF TypesInv
<1>2. \A p \in Nat : [stmt EXCEPT !.at = p] \in Statement
  BY <1>1 DEF Statement
<1>3. Failed \in Statement
  BY <1>1 DEF Statement, Failed
<1> QED
  BY <1>2, <1>3

LEMMA DeleteRowKeeps == ASSUME FailuresAreNoticed, IInv, DeleteRow PROVE IInv'
<1>1. PICK r \in Chosen :
        LET k == heap[r].key
            rem == RemoveFromIndexes(index, k, None)
        IN  \/ /\ heap' = Without(heap, {r})
               /\ index' = rem.index
               /\ \E at \in Onward \cup Drifted(stmt.at + 1) :
                    stmt' = [stmt EXCEPT !.at = at]
            \/ /\ index' = RollbackRemovedIndexes(rem.index, k, r, rem.removed)
               /\ stmt' = Failed
               /\ UNCHANGED heap
  BY WhenNoticed DEF DeleteRow
<1> DEFINE k == heap[r].key
           X == [i \in DOMAIN index |-> Without(index[i], {k})]
           removed == {i \in DOMAIN index : k \in DOMAIN index[i]}
           rem == RemoveFromIndexes(index, k, None)
<1>2. rem.index = X /\ rem.removed = removed
  <2>1. None \notin DOMAIN index
    BY DEF None, IInv, TypesInv
  <2> QED
    BY <2>1 DEF RemoveFromIndexes
<1>3. r \in DOMAIN heap
  BY DEF Chosen
<1>4. /\ X \in Seq(Dictionary) /\ Len(X) = Len(index) /\ DOMAIN X = DOMAIN index
      /\ Without(heap, {r}) \in Table
      /\ \A i \in DOMAIN index :
           /\ k \in DOMAIN index[i] /\ index[i][k] = r
           /\ Matches(X[i], Without(heap, {r}))
  BY <1>3, AllWithout
<1>5. /\ index \in Seq(Dictionary) /\ Len(index) <= MaxIndex
      /\ \A i \in DOMAIN index : index[i] \in Dictionary
      /\ Failed \in Statement
      /\ \A at \in Onward \cup Drifted(stmt.at + 1) : [stmt EXCEPT !.at = at] \in Statement
  BY StatementGoesOn, Positions DEF IInv, TypesInv
<1>6. CASE /\ heap' = Without(heap, {r}) /\ index' = X
           /\ \E at \in Onward \cup Drifted(stmt.at + 1) : stmt' = [stmt EXCEPT !.at = at]
  <2> HIDE DEF X, k
  <2> QED
    BY <1>4, <1>5, <1>6, Reaches
<1>7. CASE /\ index' = RollbackRemovedIndexes(X, k, r, removed)
           /\ stmt' = Failed /\ heap' = heap
  <2>1. removed = DOMAIN index
    BY <1>4
  <2>2. \A i \in DOMAIN index : Put(X[i], k, r) = index[i]
    BY <1>4, <1>5, PutBack
  <2>3. index' = [i \in DOMAIN index |-> index[i]]
    <3>1. index' = [i \in DOMAIN X |->
                      IF i \in removed THEN Put(X[i], k, r) ELSE X[i]]
      BY <1>7 DEF RollbackRemovedIndexes
    <3> HIDE DEF X, k, removed
    <3> QED
      BY <1>4, <2>1, <2>2, <3>1
  <2>4. index' = index
    BY <1>5, <2>3
  <2> QED
    BY <1>5, <1>7, <2>4, Steady
<1>8. \/ /\ heap' = Without(heap, {r}) /\ index' = rem.index
         /\ \E at \in Onward \cup Drifted(stmt.at + 1) : stmt' = [stmt EXCEPT !.at = at]
      \/ /\ index' = RollbackRemovedIndexes(rem.index, k, r, rem.removed)
         /\ stmt' = Failed /\ heap' = heap
  BY <1>1
<1> HIDE DEF rem, X, removed, k
<1> QED
  BY <1>2, <1>6, <1>7, <1>8

LEMMA UpdateInPlaceKeeps == ASSUME IInv, UpdateInPlace PROVE IInv'
<1>1. PICK r \in ToUpdate : heap' = [heap EXCEPT ![r].val = @ + 1]
  BY DEF UpdateInPlace
<1>2. /\ r \in DOMAIN heap /\ heap[r].val < MaxVal
      /\ heap \in Table /\ heap \in [DOMAIN heap -> Record]
      /\ DOMAIN heap \in SUBSET RID
  BY Domains DEF IInv, TypesInv, ToUpdate, Chosen
<1>3. [heap[r] EXCEPT !.val = @ + 1] \in Record
  BY <1>2, IndexMaintenanceConstants DEF Record
<1>4. heap' \in [DOMAIN heap -> Record] /\ DOMAIN heap' = DOMAIN heap
  BY <1>1, <1>2, <1>3
<1>5. heap' \in Table
  BY <1>2, <1>4 DEF Table
<1>6. \A s \in DOMAIN heap : heap'[s].key = heap[s].key
  BY <1>1, <1>2 DEF Record
<1>7. \A x : Matches(x, heap) => Matches(x, heap')
  BY <1>4, <1>6 DEF Matches
<1>8. index' = index /\ stmt' \in Statement
  BY Positions, StatementGoesOn DEF UpdateInPlace, IInv
<1> QED
  BY <1>5, <1>7, <1>8 DEF IInv, TypesInv

LEMMA UpdateMovedKeeps == ASSUME IInv, UpdateMoved PROVE IInv'
<1>1. PICK old \in ToUpdate, new \in Free :
        LET bind == RebindMovedRid(index, heap[old].key, old, new, None)
        IN  /\ heap' = Put(Without(heap, {old}), new,
                           [heap[old] EXCEPT !.val = @ + 1])
            /\ index' = bind.index
  BY DEF UpdateMoved
<1> DEFINE k == heap[old].key
           rec == [heap[old] EXCEPT !.val = @ + 1]
           X == [i \in DOMAIN index |-> Without(index[i], {k})]
           h == Without(heap, {old})
<1>2. /\ old \in DOMAIN heap /\ heap[old].val < MaxVal
      /\ new \in RID \ DOMAIN heap
  BY DEF ToUpdate, Chosen, Free
<1>3. /\ k \in Key /\ heap[old] \in Record
      /\ X \in Seq(Dictionary) /\ Len(X) = Len(index) /\ DOMAIN X = DOMAIN index
      /\ h \in Table /\ \A i \in DOMAIN index : Matches(X[i], h)
  BY <1>2, AllWithout
<1>4. rec \in Record /\ rec.key = k
  BY <1>2, <1>3, IndexMaintenanceConstants DEF Record
<1>5. /\ index \in Seq(Dictionary) /\ Len(index) <= MaxIndex
      /\ DOMAIN index = 1 .. Len(index) /\ Len(index) \in Nat
      /\ stmt' \in Statement
  BY StatementGoesOn, Positions DEF IInv, TypesInv, UpdateMoved
<1>6. index' = [i \in DOMAIN X |-> Put(X[i], rec.key, new)]
  <2>1. index' = [i \in DOMAIN index |-> Put(Without(index[i], {k}), k, new)]
    BY <1>1, <1>5 DEF RebindMovedRid, None
  <2> QED
    BY <1>3, <1>4, <2>1
<1>7. /\ new \in RID \ DOMAIN h
      /\ \A i \in DOMAIN X : rec.key \notin DOMAIN X[i]
  BY <1>2, <1>3, <1>4 DEF Without
<1>8. heap' = Put(h, new, rec)
  BY <1>1
<1> HIDE DEF X, h, rec, k
<1> QED
  BY <1>3, <1>4, <1>5, <1>6, <1>7, <1>8, PutReaches

LEMMA UpdateUndoneKeeps == ASSUME IInv, UpdateUndone PROVE IInv'
<1>1. PICK old \in ToUpdate, new \in Free, bad \in Bad \ {None} :
        LET rec == heap[old]
            bind == RebindMovedRid(index, rec.key, old, new, bad)
            rem == RemoveFromIndexes(bind.index, rec.key, None)
            rest == Without(heap, {old})
        IN  \E r \in RID \ DOMAIN rest :
              /\ heap' = Put(rest, r, Restored(rec))
              /\ index' = InsertIntoIndexes(rem.index, rec.key, r, None).index
  BY DEF UpdateUndone
<1> DEFINE rec == heap[old]
           k == rec.key
           X == [i \in DOMAIN index |-> Without(index[i], {k})]
           h == Without(heap, {old})
           bind == RebindMovedRid(index, k, old, new, bad)
           rem == RemoveFromIndexes(bind.index, k, None)
<1>2. PICK r \in RID \ DOMAIN h :
        /\ heap' = Put(h, r, rec)
        /\ index' = InsertIntoIndexes(rem.index, k, r, None).index
  BY <1>1 DEF Restored
<1>3. old \in DOMAIN heap
  BY DEF ToUpdate, Chosen
<1>4. /\ k \in Key /\ rec \in Record
      /\ X \in Seq(Dictionary) /\ Len(X) = Len(index) /\ DOMAIN X = DOMAIN index
      /\ h \in Table /\ \A i \in DOMAIN index : Matches(X[i], h)
  BY <1>3, AllWithout
<1>5. /\ index \in Seq(Dictionary) /\ Len(index) <= MaxIndex
      /\ DOMAIN index = 1 .. Len(index) /\ Len(index) \in Nat
      /\ \A i \in DOMAIN index : index[i] \in Dictionary
      /\ stmt' \in Statement
  BY StatementGoesOn DEF IInv, TypesInv, UpdateUndone
<1>6. rem.index = X
  <2>1. bad \in Nat /\ bad <= Len(index)
    BY <1>5 DEF Bad, None
  <2>2. bind.index = [i \in DOMAIN index |->
          IF i < bad THEN Put(Without(index[i], {k}), k, old)
          ELSE IF i = bad
               THEN IF k \in DOMAIN index[i] THEN Put(index[i], k, old) ELSE index[i]
               ELSE index[i]]
    BY <2>1, <1>5 DEF RebindMovedRid
  <2>3. DOMAIN bind.index = DOMAIN index
    BY <2>2
  <2>4. \A i \in DOMAIN index : Without(bind.index[i], {k}) = Without(index[i], {k})
    <3>1. \A i \in DOMAIN index :
            /\ Without(Put(Without(index[i], {k}), k, old), {k}) = Without(index[i], {k})
            /\ Without(Put(index[i], k, old), {k}) = Without(index[i], {k})
      BY DEF Put, Without
    <3> QED
      BY <2>2, <3>1
  <2>5. rem.index = [i \in DOMAIN bind.index |-> Without(bind.index[i], {k})]
    <3>1. None \notin DOMAIN bind.index
      BY <1>5, <2>3 DEF None
    <3> QED
      BY <3>1 DEF RemoveFromIndexes
  <2> HIDE DEF bind
  <2> QED
    BY <2>3, <2>4, <2>5
<1>7. \A i \in DOMAIN X : k \notin DOMAIN X[i]
  BY <1>4 DEF Without
<1>8. index' = [i \in DOMAIN X |-> Put(X[i], k, r)]
  <2>1. None = Len(X) + 1 /\ None \in 1 .. Len(X) + 1
    BY <1>4, <1>5 DEF None
  <2>2. index' = InsertIntoIndexes(rem.index, k, r, None).index /\ r \in RID
    BY <1>2
  <2> HIDE DEF X, h, rem, k
  <2>3. index' = InsertIntoIndexes(X, k, r, None).index
    BY <1>6, <2>2
  <2> DEFINE ins == InsertIntoIndexes(X, k, r, None)
  <2>4. /\ ins.ok <=> None = Len(X) + 1 /\ \A i \in DOMAIN X : k \notin DOMAIN X[i]
        /\ ins.ok => ins.index = [i \in DOMAIN X |-> Put(X[i], k, r)]
    <3>1. X \in Seq(Dictionary) /\ k \in Key /\ r \in RID /\ None \in 1 .. Len(X) + 1
      BY <1>4, <2>1, <2>2
    <3> QED
      BY ONLY <3>1, InsertsAllOrNone
  <2> QED
    BY <1>7, <2>1, <2>3, <2>4
<1>9. \A i \in DOMAIN X : rec.key \notin DOMAIN X[i]
  BY <1>7
<1>10. index' = [i \in DOMAIN X |-> Put(X[i], rec.key, r)]
  BY <1>8
<1> HIDE DEF X, h, rec, k
<1> QED
  BY <1>2, <1>4, <1>5, <1>9, <1>10, PutReaches

LEMMA CreateIndexKeeps == ASSUME FailuresAreNoticed, IInv, CreateIndex PROVE IInv'
<1> DEFINE new == [k \in {heap[r].key : r \in DOMAIN heap} |->
                     CHOOSE r \in DOMAIN heap : heap[r].key = k]
<1>1. /\ heap' = heap /\ index' = Append(index, new) /\ stmt' = stmt
      /\ Len(index) < MaxIndex
      /\ IsInjective([r \in DOMAIN heap |-> heap[r].key])
  <2> HIDE DEF new
  <2>1. \A r \in DOMAIN heap : r < END
    <3>1. DOMAIN heap \subseteq RID
      BY Domains DEF IInv, TypesInv
    <3> QED
      BY <3>1, IndexMaintenanceConstants DEF RID, END
  <2> DEFINE met == {r \in DOMAIN heap : r < END}
  <2>2. met = DOMAIN heap
    BY <2>1
  <2>3. /\ IsInjective([r \in met |-> heap[r].key])
        /\ index' = Append(index, [k \in {heap[r].key : r \in met} |->
                                     CHOOSE r \in met : heap[r].key = k])
    BY DEF CreateIndex, FailuresAreNoticed
  <2> HIDE DEF met
  <2>4. /\ IsInjective([r \in DOMAIN heap |-> heap[r].key])
        /\ index' = Append(index, new)
    BY <2>2, <2>3 DEF new
  <2> QED
    BY <2>4 DEF CreateIndex
<1>2. /\ heap \in Table /\ index \in Seq(Dictionary) /\ stmt \in Statement
      /\ \A i \in DOMAIN index : Matches(index[i], heap)
  BY DEF IInv, TypesInv
<1>3. \A r, s \in DOMAIN heap : heap[r].key = heap[s].key => r = s
  BY <1>1 DEF IsInjective
<1>4. Matches(new, heap)
  BY <1>3 DEF Matches
<1>5. new \in Dictionary
  <2> DEFINE S == {heap[r].key : r \in DOMAIN heap}
  <2>1. S \in SUBSET Key
    BY <1>2, Domains DEF Record
  <2>2. \A k \in S : (CHOOSE r \in DOMAIN heap : heap[r].key = k) \in RID
    BY <1>2, Domains
  <2>3. new \in [S -> RID]
    BY <2>2
  <2> QED
    BY <2>1, <2>3 DEF Dictionary
<1> HIDE DEF new
<1>6. /\ index' \in Seq(Dictionary) /\ Len(index') = Len(index) + 1
      /\ \A i \in DOMAIN index' : Matches(index'[i], heap')
  <2>1. /\ index' \in Seq(Dictionary) /\ Len(index') = Len(index) + 1
        /\ \A i \in DOMAIN index' : i \in DOMAIN index \/ i = Len(index) + 1
        /\ \A i \in DOMAIN index : index'[i] = index[i]
        /\ index'[Len(index) + 1] = new
    BY <1>1, <1>2, <1>5
  <2> QED
    BY <1>1, <1>2, <1>4, <2>1
<1>7. Len(index') <= MaxIndex
  BY <1>1, <1>2, <1>6, IndexMaintenanceConstants
<1> QED
  BY <1>1, <1>2, <1>6, <1>7, Reaches

(* The steps that change only the statement.                               *)
LEMMA StatementStepsKeep ==
  ASSUME TypesInv,
         \/ StartInsert \/ StartChange("delete") \/ StartChange("update")
         \/ SkipRow \/ Fail \/ Answer \/ UNCHANGED vars
  PROVE  heap' = heap /\ index' = index /\ stmt' \in Statement
<1>1. heap' = heap /\ index' = index
  BY DEF StartInsert, StartChange, SkipRow, Fail, Answer, vars
<1>2. CASE StartInsert
  <2>1. PICK n \in 1 .. MaxRows : \E rows \in [1 .. n -> Key] :
          stmt' = [op |-> "insert", state |-> "running", rows |-> rows,
                   scan |-> "none", at |-> END, only |-> {}]
    BY <1>2 DEF StartInsert
  <2>2. PICK rows \in [1 .. n -> Key] :
          stmt' = [op |-> "insert", state |-> "running", rows |-> rows,
                   scan |-> "none", at |-> END, only |-> {}]
    BY <2>1
  <2>3. rows \in Seq(Key)
    BY <2>1, <2>2, IndexMaintenanceConstants
  <2>4. stmt' \in Statement
    BY <2>2, <2>3, Positions DEF Statement
  <2> QED
    BY <1>1, <2>4
<1>3. ASSUME NEW op \in {"delete", "update"}, StartChange(op) PROVE stmt' \in Statement
  <2>1. PICK only \in (SUBSET Key) \ {{}}, scan \in {"seq", "index"} :
          \E at \in ThereOrEnd(IF scan = "seq" THEN SeqNext(1) ELSE IndexNext(1)) :
            stmt' = [op |-> op, state |-> "running", rows |-> <<>>, scan |-> scan,
                     only |-> only, at |-> at]
    BY <1>3 DEF StartChange
  <2>2. (IF scan = "seq" THEN SeqNext(1) ELSE IndexNext(1)) \in Nat /\ <<>> \in Seq(Key)
    BY Positions
  <2>3. ThereOrEnd(IF scan = "seq" THEN SeqNext(1) ELSE IndexNext(1)) \subseteq Nat
    BY <2>2, Positions
  <2> QED
    BY <2>1, <2>2, <2>3 DEF Statement
<1>4. CASE SkipRow \/ Fail \/ Answer \/ UNCHANGED vars
  <2>1. \/ \E at \in Onward \cup Unread : stmt' = [stmt EXCEPT !.at = at]
        \/ stmt' = Failed
        \/ stmt' = [stmt EXCEPT !.state = "answered"]
        \/ stmt' = stmt
    BY <1>4 DEF SkipRow, Fail, Answer, vars
  <2>2. stmt \in Statement
    BY DEF TypesInv
  <2>3. [stmt EXCEPT !.state = "answered"] \in Statement
    BY <2>2 DEF Statement
  <2>4. stmt' \in Statement
    BY <2>1, <2>2, <2>3, StatementGoesOn, Positions
  <2> QED
    BY <1>1, <2>4
<1> QED
  BY <1>1, <1>2, <1>3, <1>4

LEMMA NextKeepsIInv == FailuresAreNoticed /\ IInv /\ [Next]_vars => IInv'
<1> SUFFICES ASSUME FailuresAreNoticed, IInv, [Next]_vars PROVE IInv'
  OBVIOUS
<1>1. CASE InsertRow \/ DeleteRow \/ UpdateInPlace \/ UpdateMoved \/ UpdateUndone
           \/ CreateIndex
  BY <1>1, InsertRowKeeps, DeleteRowKeeps, UpdateInPlaceKeeps, UpdateMovedKeeps,
     UpdateUndoneKeeps, CreateIndexKeeps
<1>2. CASE \/ StartInsert \/ StartChange("delete") \/ StartChange("update")
           \/ SkipRow \/ Fail \/ Answer \/ UNCHANGED vars
  <2>1. heap' = heap /\ index' = index /\ stmt' \in Statement
    BY <1>2, StatementStepsKeep DEF IInv
  <2> QED
    BY <2>1, Steady
<1> QED
  BY <1>1, <1>2 DEF Next

LEMMA IInvImpliesProperty == IInv => IndexesMatchTable
<1> SUFFICES ASSUME IInv PROVE IndexesMatchTable
  OBVIOUS
<1>1. TypeOK
  <2>1. DOMAIN heap \subseteq RID /\ \A r \in DOMAIN heap : heap[r] \in Record
    BY Domains DEF IInv, TypesInv
  <2>2. \A i \in DOMAIN index : DOMAIN index[i] \subseteq Key
    BY Domains DEF IInv, TypesInv
  <2> QED
    BY <2>1, <2>2 DEF TypeOK, IInv, TypesInv, Statement, Record
<1> QED
  BY <1>1 DEF IndexesMatchTable, IInv, TypesInv, Matches

-------------------------------------------------------------------------------
(* Whatever rows a statement processes, and whichever call the executors   *)
(* can see fail for one of them, a call of the heap or an index's Insert:  *)
(* after each row every index of the table has each record under its key,  *)
(* where the record is now, and nothing else.  So does InsertExecutor,     *)
(* DeleteExecutor and UpdateExecutor for a row, the compensation of the    *)
(* failed call included, and Catalog::CreateIndex for a new index.  The    *)
(* hypothesis leaves out the failing calls that are taken for an answer: a *)
(* Remove that could not find its key, a scan that could not read a page.  *)
THEOREM IndexesAlwaysMatchTable ==
  ASSUME FailuresAreNoticed
  PROVE  Spec => []IndexesMatchTable
<1>1. IInv /\ [Next]_vars => IInv'
  BY NextKeepsIInv
<1> QED
  BY InitIInv, <1>1, IInvImpliesProperty, PTL DEF Spec

-------------------------------------------------------------------------------
(* How many records there are.                                             *)

LEMMA TableFinite ==
  ASSUME NEW h \in Table
  PROVE  /\ IsFiniteSet(DOMAIN h)
         /\ \A k : /\ IsFiniteSet(Records(h, k)) /\ Cardinality(Records(h, k)) \in Nat
                   /\ Records(h, k) \in SUBSET DOMAIN h
<1>1. IsFiniteSet(RID)
  <2>1. 1 \in Int /\ MaxRid \in Int /\ RID = 1 .. MaxRid
    BY IndexMaintenanceConstants DEF RID
  <2> QED
    BY <2>1, FS_Interval
<1>2. IsFiniteSet(DOMAIN h)
  BY <1>1, Domains, FS_Subset
<1>3. ASSUME NEW k
      PROVE  /\ IsFiniteSet(Records(h, k)) /\ Cardinality(Records(h, k)) \in Nat
             /\ Records(h, k) \in SUBSET DOMAIN h
  <2>1. Records(h, k) \in SUBSET DOMAIN h
    BY DEF Records
  <2>2. IsFiniteSet(Records(h, k))
    BY <1>2, <2>1, FS_Subset
  <2> QED
    BY <2>1, <2>2, FS_CardinalityType
<1> QED
  BY <1>2, <1>3

(* One out, another one in.                                                *)
LEMMA OneForAnother ==
  ASSUME NEW S, IsFiniteSet(S), NEW a \in S, NEW b, b \notin S \ {a},
         NEW T, T = (S \ {a}) \cup {b}
  PROVE  Cardinality(T) = Cardinality(S)
<1>1. IsFiniteSet(S \ {a}) /\ Cardinality(S \ {a}) = Cardinality(S) - 1
  BY FS_RemoveElement
<1>2. Cardinality(T) = Cardinality(S \ {a}) + 1
  BY <1>1, FS_AddElement
<1>3. Cardinality(S) \in Nat
  BY FS_CardinalityType
<1> QED
  BY <1>1, <1>2, <1>3

(* What the steps on the table make of the records of a key.               *)
LEMMA RecordsAfterPut ==
  ASSUME NEW h \in Table, NEW r \in RID \ DOMAIN h, NEW rec \in Record
  PROVE  /\ \A s \in DOMAIN h : Put(h, r, rec)[s] = h[s]
         /\ \A j : j # rec.key => Records(Put(h, r, rec), j) = Records(h, j)
         /\ Cardinality(Records(Put(h, r, rec), rec.key)) =
              Cardinality(Records(h, rec.key)) + 1
<1> DEFINE g == Put(h, r, rec)
<1>1. /\ DOMAIN g = DOMAIN h \cup {r} /\ g[r] = rec
      /\ \A s \in DOMAIN h : g[s] = h[s]
  BY DEF Put
<1>2. \A j : j # rec.key => Records(g, j) = Records(h, j)
  BY <1>1 DEF Records
<1>3. Records(g, rec.key) = Records(h, rec.key) \cup {r}
  BY <1>1 DEF Records
<1>4. IsFiniteSet(Records(h, rec.key)) /\ r \notin Records(h, rec.key)
  BY TableFinite DEF Records
<1> HIDE DEF g
<1>5. Cardinality(Records(g, rec.key)) = Cardinality(Records(h, rec.key)) + 1
  BY <1>3, <1>4, FS_AddElement
<1> QED
  BY <1>1, <1>2, <1>5 DEF g

LEMMA RecordsAfterWithout ==
  ASSUME NEW h \in Table, NEW r \in DOMAIN h
  PROVE  /\ DOMAIN Without(h, {r}) = DOMAIN h \ {r}
         /\ \A s \in DOMAIN h \ {r} : Without(h, {r})[s] = h[s]
         /\ \A j : j # h[r].key => Records(Without(h, {r}), j) = Records(h, j)
         /\ Cardinality(Records(Without(h, {r}), h[r].key)) =
              Cardinality(Records(h, h[r].key)) - 1
<1> DEFINE g == Without(h, {r})
           k == h[r].key
<1>1. DOMAIN g = DOMAIN h \ {r} /\ \A s \in DOMAIN h \ {r} : g[s] = h[s]
  BY DEF Without
<1>2. \A j : j # k => Records(g, j) = Records(h, j)
  BY <1>1 DEF Records
<1>3. Records(g, k) = Records(h, k) \ {r} /\ r \in Records(h, k)
  BY <1>1 DEF Records
<1>4. IsFiniteSet(Records(h, k))
  BY TableFinite
<1> HIDE DEF g, k
<1>5. Cardinality(Records(g, k)) = Cardinality(Records(h, k)) - 1
  BY <1>3, <1>4, FS_RemoveElement
<1> QED
  BY <1>1, <1>2, <1>5 DEF g, k

(* A record that is taken out and put in, here or elsewhere, with another  *)
(* value or the same.                                                      *)
LEMMA RecordsAfterMove ==
  ASSUME NEW h \in Table, NEW old \in DOMAIN h,
         NEW r \in RID \ (DOMAIN h \ {old}), NEW rec \in Record,
         rec.key = h[old].key, NEW g, g = Put(Without(h, {old}), r, rec)
  PROVE  /\ \A j : j # rec.key => Records(g, j) = Records(h, j)
         /\ \A j : Cardinality(Records(g, j)) = Cardinality(Records(h, j))
<1>1. /\ DOMAIN g = (DOMAIN h \ {old}) \cup {r} /\ g[r] = rec
      /\ \A s \in DOMAIN h \ {old} : s # r /\ g[s] = h[s]
  BY DEF Put, Without
<1>2. \A j : j # rec.key => Records(g, j) = Records(h, j)
  BY <1>1 DEF Records
<1>3. Records(g, rec.key) = (Records(h, rec.key) \ {old}) \cup {r}
  BY <1>1 DEF Records
<1>4. /\ IsFiniteSet(Records(h, rec.key)) /\ old \in Records(h, rec.key)
      /\ r \notin Records(h, rec.key) \ {old}
  <2>1. IsFiniteSet(Records(h, rec.key))
    BY TableFinite
  <2> QED
    BY <2>1 DEF Records
<1>5. Cardinality(Records(g, rec.key)) = Cardinality(Records(h, rec.key))
  <2> DEFINE S == Records(h, rec.key)
             T == Records(g, rec.key)
  <2>1. IsFiniteSet(S) /\ old \in S /\ r \notin S \ {old} /\ T = (S \ {old}) \cup {r}
    BY <1>3, <1>4
  <2> HIDE DEF S, T
  <2>2. Cardinality(T) = Cardinality(S)
    BY ONLY <2>1, OneForAnother
  <2> QED
    BY <2>2 DEF S, T
<1>6. \A j : Cardinality(Records(g, j)) = Cardinality(Records(h, j))
  BY <1>2, <1>5
<1> QED
  BY <1>2, <1>6

(* A record that is put back as it was leaves the contents as they were.   *)
LEMMA SameContents ==
  ASSUME NEW h \in Table, NEW old \in DOMAIN h,
         NEW r \in RID \ (DOMAIN h \ {old})
  PROVE  Contents(Put(Without(h, {old}), r, h[old])) = Contents(h)
<1> DEFINE g == Put(Without(h, {old}), r, h[old])
           At(f, rec) == {s \in DOMAIN f : f[s] = rec}
           Values(f) == {f[s] : s \in DOMAIN f}
<1>1. /\ DOMAIN g = (DOMAIN h \ {old}) \cup {r} /\ g[r] = h[old]
      /\ \A s \in DOMAIN h \ {old} : s # r /\ g[s] = h[s]
  BY DEF Put, Without
<1> HIDE DEF g
<1>2. Values(g) = Values(h)
  BY <1>1
<1>3. ASSUME NEW rec PROVE Cardinality(At(g, rec)) = Cardinality(At(h, rec))
  <2>1. CASE rec # h[old]
    <3>1. At(g, rec) = At(h, rec)
      BY <1>1, <2>1
    <3> QED
      BY <3>1
  <2>2. CASE rec = h[old]
    <3>1. At(g, rec) = (At(h, rec) \ {old}) \cup {r}
      BY <1>1, <2>2
    <3>2. old \in At(h, rec) /\ r \notin At(h, rec) \ {old}
      BY <2>2
    <3>3. IsFiniteSet(At(h, rec))
      <4>1. At(h, rec) \in SUBSET DOMAIN h
        OBVIOUS
      <4> QED
        BY <4>1, TableFinite, FS_Subset
    <3> HIDE DEF At
    <3> QED
      BY <3>1, <3>2, <3>3, OneForAnother
  <2> QED
    BY <2>1, <2>2
<1>4. \A f : Contents(f) = [rec \in Values(f) |-> Cardinality(At(f, rec))]
  BY DEF Contents
<1> HIDE DEF At, Values
<1> QED
  BY <1>2, <1>3, <1>4 DEF g

-------------------------------------------------------------------------------
(* Rows are done or not done.                                              *)

(* Whatever the functions of index_maintenance do, they leave as many      *)
(* indexes, and functions from keys to rids.                               *)
LEMMA IndexTypes ==
  ASSUME NEW X \in Seq(Dictionary), NEW k \in Key, NEW r \in RID, NEW s \in RID,
         NEW Y,
         \/ \E bad \in 1 .. Len(X) + 1 : Y = InsertIntoIndexes(X, k, r, bad).index
         \/ \E miss : Y = RemoveFromIndexes(X, k, miss).index
         \/ \E removed : Y = RollbackRemovedIndexes(X, k, r, removed)
         \/ \E bad : Y = RebindMovedRid(X, k, r, s, bad).index
  PROVE  Y \in Seq(Dictionary) /\ Len(Y) = Len(X)
<1>1. /\ X \in [DOMAIN X -> Dictionary]
      /\ \A i \in DOMAIN X : X[i] \in Dictionary
  OBVIOUS
<1>2. \A x \in Dictionary :
        /\ Put(x, k, r) \in Dictionary /\ Without(x, {k}) \in Dictionary
        /\ Put(Without(x, {k}), k, r) \in Dictionary
        /\ Put(Without(x, {k}), k, s) \in Dictionary
  BY Shapes
<1>3. ASSUME NEW bad \in 1 .. Len(X) + 1, Y = InsertIntoIndexes(X, k, r, bad).index
      PROVE  Y \in [DOMAIN X -> Dictionary]
  <2> DEFINE ins == InsertIntoIndexes(X, k, r, bad)
  <2>1. ins.index = [i \in DOMAIN X |-> Put(X[i], k, r)] \/ ins.index = X
    BY InsertsAllOrNone
  <2> HIDE DEF ins
  <2>2. CASE ins.index = X
    BY <1>1, <2>2, <1>3 DEF ins
  <2>3. CASE ins.index = [i \in DOMAIN X |-> Put(X[i], k, r)]
    <3>1. Y = [i \in DOMAIN X |-> Put(X[i], k, r)]
      BY <1>3, <2>3 DEF ins
    <3> QED
      BY <1>1, <1>2, <3>1
  <2> QED
    BY <2>1, <2>2, <2>3
<1>4. ASSUME NEW miss, Y = RemoveFromIndexes(X, k, miss).index
      PROVE  Y \in [DOMAIN X -> Dictionary]
  <2>1. Y = [i \in DOMAIN X |-> IF i = miss THEN X[i] ELSE Without(X[i], {k})]
    BY <1>4 DEF RemoveFromIndexes
  <2> QED
    BY <1>1, <1>2, <2>1
<1>5. ASSUME NEW removed, Y = RollbackRemovedIndexes(X, k, r, removed)
      PROVE  Y \in [DOMAIN X -> Dictionary]
  BY <1>1, <1>2, <1>5 DEF RollbackRemovedIndexes
<1>6. ASSUME NEW bad, Y = RebindMovedRid(X, k, r, s, bad).index
      PROVE  Y \in [DOMAIN X -> Dictionary]
  <2>1. Y = [i \in DOMAIN X |->
               IF i < bad
               THEN Put(Without(X[i], {k}), k, IF bad > Len(X) THEN s ELSE r)
               ELSE IF i = bad
                    THEN IF k \in DOMAIN X[i] THEN Put(X[i], k, r) ELSE X[i]
                    ELSE X[i]]
    BY <1>6 DEF RebindMovedRid
  <2>2. ASSUME NEW i \in DOMAIN X PROVE Y[i] \in Dictionary
    <3>1. /\ Put(Without(X[i], {k}), k, s) \in Dictionary
          /\ Put(Without(X[i], {k}), k, r) \in Dictionary
          /\ Put(X[i], k, r) \in Dictionary /\ X[i] \in Dictionary
      BY <1>1, <1>2
    <3> QED
      BY <2>1, <3>1
  <2> QED
    BY <2>1, <2>2
<1>7. Y \in [DOMAIN X -> Dictionary]
  BY <1>3, <1>4, <1>5, <1>6
<1> QED
  BY <1>7, SameLength

(* A step to a table and indexes of the right shape.                       *)
LEMMA ReachesTypes ==
  ASSUME TypesInv, heap' \in Table, index' \in Seq(Dictionary),
         Len(index') = Len(index), stmt' \in Statement
  PROVE  TypesInv'
BY DEF TypesInv

LEMMA InsertRowTypes == ASSUME TypesInv, InsertRow PROVE TypesInv'
<1>1. PICK r \in Free, bad \in Bad :
        LET k == Head(stmt.rows)
            ins == InsertIntoIndexes(index, k, r, bad)
        IN  /\ heap' = IF ins.ok THEN Put(heap, r, [key |-> k, val |-> 0]) ELSE heap
            /\ index' = ins.index
            /\ stmt' = IF ins.ok THEN [stmt EXCEPT !.rows = Tail(@)] ELSE Failed
  BY DEF InsertRow
<1> DEFINE k == Head(stmt.rows)
           rec == [key |-> k, val |-> 0]
<1>2. /\ stmt.rows \in Seq(Key) /\ stmt.rows # <<>>
      /\ heap \in Table /\ index \in Seq(Dictionary) /\ stmt \in Statement
  BY DEF TypesInv, Statement, InsertRow
<1>3. k \in Key /\ Tail(stmt.rows) \in Seq(Key)
  BY <1>2
<1>4. rec \in Record /\ r \in RID
  BY <1>3, IndexMaintenanceConstants DEF Record, Free
<1>5. bad \in 1 .. Len(index) + 1
  BY DEF Bad, None
<1>6. heap' = Put(heap, r, rec) \/ heap' = heap
  BY <1>1
<1>7. heap' \in Table
  BY <1>2, <1>4, <1>6, Shapes
<1>8. index' \in Seq(Dictionary) /\ Len(index') = Len(index)
  <2>1. index' = InsertIntoIndexes(index, k, r, bad).index
    BY <1>1
  <2> HIDE DEF k
  <2> QED
    BY <1>2, <1>3, <1>4, <1>5, <2>1, IndexTypes
<1>9. stmt' \in Statement
  <2>1. stmt' = [stmt EXCEPT !.rows = Tail(@)] \/ stmt' = Failed
    BY <1>1
  <2> QED
    BY <1>2, <1>3, <2>1, StatementGoesOn DEF Statement
<1> QED
  BY <1>7, <1>8, <1>9, ReachesTypes

LEMMA DeleteRowTypes == ASSUME TypesInv, DeleteRow PROVE TypesInv'
<1>1. PICK r \in Chosen, miss \in Misses :
        LET k == heap[r].key
            rem == RemoveFromIndexes(index, k, miss)
        IN  \/ heap' = Without(heap, {r}) /\ index' = rem.index
            \/ /\ index' = RollbackRemovedIndexes(rem.index, k, r, rem.removed)
               /\ heap' = heap
  BY DEF DeleteRow
<1> DEFINE k == heap[r].key
           X == RemoveFromIndexes(index, k, miss).index
<1>2. /\ r \in DOMAIN heap /\ r \in RID /\ heap \in Table
      /\ heap[r] \in Record /\ index \in Seq(Dictionary)
  BY Domains DEF Chosen, TypesInv
<1>3. k \in Key
  BY <1>2 DEF Record
<1>4. heap' \in Table
  BY <1>1, <1>2, Shapes, IndexMaintenanceConstants DEF Record
<1>5. \/ index' = X
      \/ \E removed : index' = RollbackRemovedIndexes(X, k, r, removed)
  BY <1>1
<1> HIDE DEF k
<1>6. X \in Seq(Dictionary) /\ Len(X) = Len(index)
  BY <1>2, <1>3, IndexTypes
<1> HIDE DEF X
<1>7. index' \in Seq(Dictionary) /\ Len(index') = Len(index)
  BY <1>2, <1>3, <1>5, <1>6, IndexTypes
<1>8. stmt' \in Statement
  BY StatementGoesOn, Positions DEF DeleteRow
<1> QED
  BY <1>4, <1>7, <1>8, ReachesTypes

LEMMA UpdateTypes ==
  ASSUME TypesInv, UpdateInPlace \/ UpdateMoved \/ UpdateUndone
  PROVE  TypesInv'
<1>0. stmt' \in Statement
  BY StatementGoesOn, Positions DEF UpdateInPlace, UpdateMoved, UpdateUndone
<1>1. /\ heap \in Table /\ index \in Seq(Dictionary)
      /\ \A old \in ToUpdate :
           /\ old \in DOMAIN heap /\ old \in RID /\ heap[old] \in Record
           /\ [heap[old] EXCEPT !.val = @ + 1] \in Record
           /\ heap[old].key \in Key
  <2>1. /\ heap \in Table /\ index \in Seq(Dictionary)
        /\ heap \in [DOMAIN heap -> Record] /\ DOMAIN heap \subseteq RID
    BY Domains DEF TypesInv
  <2>2. ASSUME NEW old \in ToUpdate
        PROVE  /\ old \in DOMAIN heap /\ heap[old] \in Record
               /\ heap[old].val < MaxVal
    BY <2>1 DEF ToUpdate, Chosen
  <2> QED
    BY <2>1, <2>2, IndexMaintenanceConstants DEF Record
<1>2. CASE UpdateInPlace
  <2>1. PICK r \in ToUpdate : heap' = [heap EXCEPT ![r].val = @ + 1]
    BY <1>2 DEF UpdateInPlace
  <2>2. heap' = [heap EXCEPT ![r] = [heap[r] EXCEPT !.val = @ + 1]]
    BY <1>1, <2>1
  <2>3. heap' \in [DOMAIN heap -> Record] /\ DOMAIN heap \in SUBSET RID
    BY <1>1, <2>2, Domains
  <2>4. heap' \in Table
    BY <2>3 DEF Table
  <2>5. index' = index
    BY <1>2 DEF UpdateInPlace
  <2> QED
    BY <1>0, <1>1, <2>4, <2>5, ReachesTypes
<1>3. CASE UpdateMoved
  <2>1. PICK old \in ToUpdate, new \in Free :
          /\ heap' = Put(Without(heap, {old}), new, [heap[old] EXCEPT !.val = @ + 1])
          /\ index' = RebindMovedRid(index, heap[old].key, old, new, None).index
    BY <1>3 DEF UpdateMoved
  <2> DEFINE rec == [heap[old] EXCEPT !.val = @ + 1]
             k == heap[old].key
  <2>2. new \in RID /\ rec \in Record /\ old \in RID /\ k \in Key
    BY <1>1 DEF Free
  <2>3. heap' = Put(Without(heap, {old}), new, rec)
    BY <2>1
  <2>4. index' = RebindMovedRid(index, k, old, new, None).index
    BY <2>1
  <2> HIDE DEF rec, k
  <2>5. heap' \in Table
    BY <1>1, <2>2, <2>3, Shapes
  <2>6. index' \in Seq(Dictionary) /\ Len(index') = Len(index)
    BY <1>1, <2>2, <2>4, IndexTypes
  <2> QED
    BY <1>0, <2>5, <2>6, ReachesTypes
<1>4. CASE UpdateUndone
  <2>1. PICK old \in ToUpdate, new \in Free, bad \in Bad \ {None} :
          LET rec == heap[old]
              bind == RebindMovedRid(index, rec.key, old, new, bad)
              rem == RemoveFromIndexes(bind.index, rec.key, None)
              rest == Without(heap, {old})
          IN  \E r \in RID \ DOMAIN rest :
                /\ heap' = Put(rest, r, Restored(rec))
                /\ index' = InsertIntoIndexes(rem.index, rec.key, r, None).index
    BY <1>4 DEF UpdateUndone
  <2> DEFINE rec == heap[old]
             k == rec.key
             X == RebindMovedRid(index, k, old, new, bad).index
             Y == RemoveFromIndexes(X, k, None).index
  <2>2. PICK r \in RID : /\ heap' = Put(Without(heap, {old}), r, rec)
                         /\ index' = InsertIntoIndexes(Y, k, r, None).index
    BY <2>1 DEF Restored
  <2>3. new \in RID /\ old \in RID /\ rec \in Record /\ k \in Key
    BY <1>1 DEF Free
  <2> HIDE DEF rec, k
  <2>4. heap' \in Table
    BY <1>1, <2>2, <2>3, Shapes
  <2>5. X \in Seq(Dictionary) /\ Len(X) = Len(index)
    BY <1>1, <2>3, IndexTypes
  <2> HIDE DEF X
  <2>6. Y \in Seq(Dictionary) /\ Len(Y) = Len(index)
    BY <1>1, <2>3, <2>5, IndexTypes
  <2> HIDE DEF Y
  <2>7. None \in 1 .. Len(Y) + 1
    BY <1>1, <2>6 DEF None
  <2>8. index' \in Seq(Dictionary) /\ Len(index') = Len(Y)
    BY <2>2, <2>3, <2>6, <2>7, IndexTypes
  <2> QED
    BY <1>0, <2>4, <2>6, <2>8, ReachesTypes
<1> QED
  BY <1>2, <1>3, <1>4

LEMMA CreateIndexTypes == ASSUME TypesInv, CreateIndex PROVE TypesInv'
<1>1. PICK met \in SUBSET DOMAIN heap :
        index' = Append(index, [k \in {heap[r].key : r \in met} |->
                                  CHOOSE r \in met : heap[r].key = k])
  BY DEF CreateIndex
<1> DEFINE S == {heap[r].key : r \in met}
           new == [k \in S |-> CHOOSE r \in met : heap[r].key = k]
<1>2. /\ heap \in [DOMAIN heap -> Record] /\ DOMAIN heap \subseteq RID
      /\ index \in Seq(Dictionary) /\ Len(index) < MaxIndex
      /\ heap' = heap /\ stmt' = stmt
  BY Domains DEF TypesInv, CreateIndex
<1>3. S \in SUBSET Key
  BY <1>2 DEF Record
<1>4. new \in [S -> RID]
  <2>1. \A k \in S : (CHOOSE r \in met : heap[r].key = k) \in RID
    BY <1>2
  <2> QED
    BY <2>1
<1>5. new \in Dictionary
  BY <1>3, <1>4 DEF Dictionary
<1> HIDE DEF S, new
<1>6. index' = Append(index, new)
  BY <1>1 DEF new, S
<1>7. index' \in Seq(Dictionary) /\ Len(index') = Len(index) + 1
  BY <1>2, <1>5, <1>6
<1>8. Len(index') <= MaxIndex
  BY <1>2, <1>7, IndexMaintenanceConstants
<1> QED
  BY <1>2, <1>7, <1>8 DEF TypesInv

LEMMA NextKeepsTypes == TypesInv /\ [Next]_vars => TypesInv'
<1> SUFFICES ASSUME TypesInv, [Next]_vars PROVE TypesInv'
  OBVIOUS
<1>1. CASE InsertRow \/ DeleteRow \/ UpdateInPlace \/ UpdateMoved \/ UpdateUndone
           \/ CreateIndex
  BY <1>1, InsertRowTypes, DeleteRowTypes, UpdateTypes, CreateIndexTypes
<1>2. CASE \/ StartInsert \/ StartChange("delete") \/ StartChange("update")
           \/ SkipRow \/ Fail \/ Answer \/ UNCHANGED vars
  <2>1. heap' = heap /\ index' = index /\ stmt' \in Statement
    BY <1>2, StatementStepsKeep
  <2> QED
    BY <2>1 DEF TypesInv
<1> QED
  BY <1>1, <1>2 DEF Next

(* What a step may do with the table's records.                            *)
RowDone ==
  /\ stmt'.state = "running"
  /\ \E k \in IF stmt.op = "insert" THEN {Head(stmt.rows)} ELSE stmt.only :
       /\ \A j \in Key \ {k} :
            \A r \in Records(heap, j) \cup Records(heap', j) :
              r \in DOMAIN heap /\ r \in DOMAIN heap' /\ heap'[r] = heap[r]
       /\ Cardinality(Records(heap', k)) - Cardinality(Records(heap, k)) =
            CASE stmt.op = "insert" -> 1
              [] stmt.op = "delete" -> -1
              [] stmt.op = "update" -> 0

(* Only an INSERT lists rows.                                              *)
InsertsList == stmt.rows # <<>> => stmt.op = "insert"

LEMMA InsertsListKept == TypesInv /\ InsertsList /\ [Next]_vars => InsertsList'
<1> SUFFICES ASSUME TypesInv, InsertsList, [Next]_vars PROVE InsertsList'
  OBVIOUS
<1>0. stmt \in Statement
  BY DEF TypesInv
<1>1. CASE StartInsert
  BY <1>1 DEF StartInsert, InsertsList
<1>2. ASSUME NEW op, StartChange(op) PROVE InsertsList'
  BY <1>2 DEF StartChange, InsertsList
<1>3. CASE InsertRow
  <2>1. stmt.op = "insert"
    BY <1>3 DEF InsertRow, InsertsList
  <2>2. \/ stmt' = [stmt EXCEPT !.rows = Tail(@)]
        \/ stmt' = [stmt EXCEPT !.state = "failed"]
    BY <1>3 DEF InsertRow, Failed
  <2> QED
    BY <1>0, <2>1, <2>2 DEF InsertsList, Statement
<1>4. CASE SkipRow \/ Fail \/ DeleteRow \/ UpdateInPlace \/ UpdateMoved
           \/ UpdateUndone \/ Answer \/ CreateIndex \/ UNCHANGED vars
  <2>1. \/ \E at : stmt' = [stmt EXCEPT !.at = at]
        \/ stmt' = [stmt EXCEPT !.state = "failed"]
        \/ stmt' = [stmt EXCEPT !.state = "answered"]
        \/ stmt' = stmt
    BY <1>4 DEF SkipRow, Fail, DeleteRow, UpdateInPlace, UpdateMoved,
                UpdateUndone, Answer, CreateIndex, Failed, vars
  <2> QED
    BY <1>0, <2>1 DEF InsertsList, Statement
<1> QED
  BY <1>1, <1>2, <1>3, <1>4 DEF Next

LEMMA InsertRowDone ==
  ASSUME TypesInv, InsertsList, InsertRow, heap' # heap
  PROVE  RowDone
<1>1. PICK r \in Free, bad \in Bad :
        LET k == Head(stmt.rows)
            ins == InsertIntoIndexes(index, k, r, bad)
        IN  /\ heap' = IF ins.ok THEN Put(heap, r, [key |-> k, val |-> 0]) ELSE heap
            /\ stmt' = IF ins.ok THEN [stmt EXCEPT !.rows = Tail(@)] ELSE Failed
  BY DEF InsertRow
<1> DEFINE k == Head(stmt.rows)
           rec == [key |-> k, val |-> 0]
<1>2. heap' = Put(heap, r, rec) /\ stmt' = [stmt EXCEPT !.rows = Tail(@)]
  BY <1>1
<1>3. k \in Key /\ stmt.op = "insert" /\ stmt.state = "running"
  BY DEF TypesInv, Statement, InsertRow, InsertsList, Running
<1>4. rec \in Record /\ r \in RID \ DOMAIN heap /\ heap \in Table /\ rec.key = k
  BY <1>3, IndexMaintenanceConstants DEF Record, Free, TypesInv
<1>5. stmt'.state = "running"
  BY <1>2, <1>3
<1> HIDE DEF rec, k
<1>6. /\ \A s \in DOMAIN heap : heap'[s] = heap[s]
      /\ \A j : j # k => Records(heap', j) = Records(heap, j)
      /\ Cardinality(Records(heap', k)) = Cardinality(Records(heap, k)) + 1
  BY <1>2, <1>4, RecordsAfterPut
<1>7. /\ DOMAIN heap' = DOMAIN heap \cup {r}
      /\ Cardinality(Records(heap, k)) \in Nat
  BY <1>2, <1>4, TableFinite DEF Put
<1>8. \A j \in Key \ {k} : \A s \in Records(heap, j) \cup Records(heap', j) :
        s \in DOMAIN heap /\ s \in DOMAIN heap' /\ heap'[s] = heap[s]
  BY <1>6, <1>7 DEF Records
<1>9. Cardinality(Records(heap', k)) - Cardinality(Records(heap, k)) = 1
  BY <1>6, <1>7
<1> QED
  BY <1>3, <1>5, <1>8, <1>9 DEF RowDone, k

LEMMA DeleteRowDone ==
  ASSUME TypesInv, DeleteRow, heap' # heap
  PROVE  RowDone
<1>1. PICK r \in Chosen : /\ heap' = Without(heap, {r})
                          /\ \E at : stmt' = [stmt EXCEPT !.at = at]
  BY DEF DeleteRow
<1> DEFINE k == heap[r].key
<1>1a. heap' = Without(heap, {r})
  BY <1>1
<1>2. /\ r \in DOMAIN heap /\ k \in stmt.only /\ heap \in Table
      /\ stmt.op = "delete" /\ stmt.state = "running"
  BY DEF DeleteRow, HasRow, Running, Chosen, TypesInv
<1>3. stmt'.state = "running"
  BY <1>1, <1>2 DEF TypesInv, Statement
<1> HIDE DEF k
<1>4. /\ DOMAIN heap' = DOMAIN heap \ {r}
      /\ \A s \in DOMAIN heap \ {r} : heap'[s] = heap[s]
      /\ \A j : j # k => Records(heap', j) = Records(heap, j)
      /\ Cardinality(Records(heap', k)) = Cardinality(Records(heap, k)) - 1
  BY <1>1a, <1>2, RecordsAfterWithout DEF k
<1>5. Cardinality(Records(heap, k)) \in Nat
  BY <1>2, TableFinite
<1>6. \A j \in Key \ {k} : \A s \in Records(heap, j) \cup Records(heap', j) :
        s \in DOMAIN heap /\ s \in DOMAIN heap' /\ heap'[s] = heap[s]
  BY <1>4 DEF Records
<1>7. Cardinality(Records(heap', k)) - Cardinality(Records(heap, k)) = -1
  BY <1>4, <1>5
<1> QED
  BY <1>2, <1>3, <1>6, <1>7 DEF RowDone

(* What a step of an UPDATE makes of the table: a record of a row it was   *)
(* to change is somewhere, and its value one larger.                       *)
Updates(old, r, rec) ==
  /\ old \in DOMAIN heap /\ r \in RID \ (DOMAIN heap \ {old})
  /\ old \in ScanRids /\ heap[old].key \in stmt.only
  /\ rec \in Record /\ rec.key = heap[old].key /\ rec.val = heap[old].val + 1
  /\ DOMAIN heap' = (DOMAIN heap \ {old}) \cup {r} /\ heap'[r] = rec
  /\ \A s \in DOMAIN heap \ {old} : s # r /\ heap'[s] = heap[s]
  /\ \A j : j # rec.key => Records(heap', j) = Records(heap, j)
  /\ \A j : Cardinality(Records(heap', j)) = Cardinality(Records(heap, j))

LEMMA UpdateDoes ==
  ASSUME TypesInv, UpdateInPlace \/ UpdateMoved
  PROVE  /\ \E old, r, rec : Updates(old, r, rec)
         /\ HasRow("update") /\ start' = start
         /\ \E at \in Onward \cup Drifted(stmt.at + 2) : stmt' = [stmt EXCEPT !.at = at]
<1>1. CASE UpdateInPlace
  <2>1. PICK old \in ToUpdate : heap' = [heap EXCEPT ![old].val = @ + 1]
    BY <1>1 DEF UpdateInPlace
  <2> DEFINE rec == [heap[old] EXCEPT !.val = @ + 1]
  <2>2. /\ old \in DOMAIN heap /\ heap[old].val < MaxVal /\ old \in ScanRids
        /\ heap[old].key \in stmt.only /\ HasRow("update")
        /\ heap \in Table /\ heap \in [DOMAIN heap -> Record]
        /\ DOMAIN heap \in SUBSET RID
    BY Domains DEF TypesInv, ToUpdate, Chosen
  <2>3. rec \in Record /\ rec.key = heap[old].key /\ rec.val = heap[old].val + 1
    BY <2>2, IndexMaintenanceConstants DEF Record
  <2>4. heap' = Put(Without(heap, {old}), old, rec)
    BY <2>1, <2>2 DEF Put, Without
  <2>5. old \in RID \ (DOMAIN heap \ {old})
    BY <2>2
  <2> HIDE DEF rec
  <2>6. /\ DOMAIN heap' = (DOMAIN heap \ {old}) \cup {old} /\ heap'[old] = rec
        /\ \A s \in DOMAIN heap \ {old} : s # old /\ heap'[s] = heap[s]
        /\ \A j : j # rec.key => Records(heap', j) = Records(heap, j)
        /\ \A j : Cardinality(Records(heap', j)) = Cardinality(Records(heap, j))
    <3>1. /\ DOMAIN heap' = (DOMAIN heap \ {old}) \cup {old} /\ heap'[old] = rec
          /\ \A s \in DOMAIN heap \ {old} : s # old /\ heap'[s] = heap[s]
      BY <2>2, <2>4 DEF Put, Without
    <3>2. /\ \A j : j # rec.key => Records(heap', j) = Records(heap, j)
          /\ \A j : Cardinality(Records(heap', j)) = Cardinality(Records(heap, j))
      BY <2>2, <2>3, <2>4, <2>5, RecordsAfterMove
    <3> QED
      BY <3>1, <3>2
  <2>7. Updates(old, old, rec)
    BY <2>2, <2>3, <2>5, <2>6 DEF Updates
  <2> QED
    BY <1>1, <2>2, <2>7 DEF UpdateInPlace
<1>2. CASE UpdateMoved
  <2>1. PICK old \in ToUpdate, new \in Free :
          heap' = Put(Without(heap, {old}), new, [heap[old] EXCEPT !.val = @ + 1])
    BY <1>2 DEF UpdateMoved
  <2> DEFINE rec == [heap[old] EXCEPT !.val = @ + 1]
  <2>2. /\ old \in DOMAIN heap /\ heap[old].val < MaxVal /\ old \in ScanRids
        /\ heap[old].key \in stmt.only /\ HasRow("update")
        /\ heap \in Table /\ heap \in [DOMAIN heap -> Record]
        /\ new \in RID \ (DOMAIN heap \ {old})
    BY Domains DEF TypesInv, ToUpdate, Chosen, Free
  <2>3. rec \in Record /\ rec.key = heap[old].key /\ rec.val = heap[old].val + 1
    BY <2>2, IndexMaintenanceConstants DEF Record
  <2>4. heap' = Put(Without(heap, {old}), new, rec)
    BY <2>1
  <2> HIDE DEF rec
  <2>5. /\ DOMAIN heap' = (DOMAIN heap \ {old}) \cup {new} /\ heap'[new] = rec
        /\ \A s \in DOMAIN heap \ {old} : s # new /\ heap'[s] = heap[s]
        /\ \A j : j # rec.key => Records(heap', j) = Records(heap, j)
        /\ \A j : Cardinality(Records(heap', j)) = Cardinality(Records(heap, j))
    <3>1. /\ DOMAIN heap' = (DOMAIN heap \ {old}) \cup {new} /\ heap'[new] = rec
          /\ \A s \in DOMAIN heap \ {old} : s # new /\ heap'[s] = heap[s]
      BY <2>2, <2>4 DEF Put, Without
    <3>2. /\ \A j : j # rec.key => Records(heap', j) = Records(heap, j)
          /\ \A j : Cardinality(Records(heap', j)) = Cardinality(Records(heap, j))
      BY <2>2, <2>3, <2>4, RecordsAfterMove
    <3> QED
      BY <3>1, <3>2
  <2>6. Updates(old, new, rec)
    BY <2>2, <2>3, <2>5 DEF Updates
  <2> QED
    BY <1>2, <2>2, <2>6 DEF UpdateMoved
<1> QED
  BY <1>1, <1>2

LEMMA UpdateRowDone ==
  ASSUME TypesInv, UpdateInPlace \/ UpdateMoved
  PROVE  RowDone
<1>1. PICK old, r, rec : Updates(old, r, rec)
  BY UpdateDoes
<1> DEFINE k == rec.key
<1>2. /\ k \in stmt.only /\ stmt.op = "update" /\ stmt'.state = "running"
  BY <1>1, UpdateDoes DEF Updates, HasRow, Running, TypesInv, Statement
<1>3. /\ heap \in Table /\ Cardinality(Records(heap, k)) \in Nat
      /\ Cardinality(Records(heap', k)) = Cardinality(Records(heap, k))
  BY <1>1, TableFinite DEF Updates, TypesInv
<1>4. \A j \in Key \ {k} : \A s \in Records(heap, j) \cup Records(heap', j) :
        s \in DOMAIN heap /\ s \in DOMAIN heap' /\ heap'[s] = heap[s]
  <2>1. \A j \in Key \ {k} :
          Records(heap', j) = Records(heap, j) /\ old \notin Records(heap, j)
    BY <1>1 DEF Updates, Records
  <2>2. \A s \in DOMAIN heap \ {old} : s \in DOMAIN heap' /\ heap'[s] = heap[s]
    BY <1>1 DEF Updates
  <2> HIDE DEF k
  <2> QED
    BY <2>1, <2>2 DEF Records
<1>5. Cardinality(Records(heap', k)) - Cardinality(Records(heap, k)) = 0
  BY <1>3
<1> HIDE DEF k
<1> QED
  BY <1>2, <1>4, <1>5 DEF RowDone

LEMMA UndoneAsBefore ==
  ASSUME TypesInv, UpdateUndone
  PROVE  Contents(heap') = Contents(heap)
<1>1. PICK old \in ToUpdate : \E r \in RID \ DOMAIN Without(heap, {old}) :
        heap' = Put(Without(heap, {old}), r, Restored(heap[old]))
  BY DEF UpdateUndone
<1>2. PICK r \in RID \ DOMAIN Without(heap, {old}) :
        heap' = Put(Without(heap, {old}), r, heap[old])
  BY <1>1 DEF Restored
<1>3. heap \in Table /\ old \in DOMAIN heap
  BY DEF TypesInv, ToUpdate, Chosen
<1>4. DOMAIN Without(heap, {old}) = DOMAIN heap \ {old}
  BY DEF Without
<1> QED
  BY <1>2, <1>3, <1>4, SameContents

LEMMA StepDoesRow ==
  ASSUME TypesInv, InsertsList, [Next]_vars, Contents(heap') # Contents(heap)
  PROVE  RowDone
<1>1. heap' # heap
  OBVIOUS
<1>2. CASE InsertRow
  BY <1>1, <1>2, InsertRowDone
<1>3. CASE DeleteRow
  BY <1>1, <1>3, DeleteRowDone
<1>4. CASE UpdateInPlace \/ UpdateMoved
  BY <1>4, UpdateRowDone
<1>5. CASE UpdateUndone
  BY <1>5, UndoneAsBefore
<1>6. CASE StartInsert \/ StartChange("delete") \/ StartChange("update")
           \/ SkipRow \/ Fail \/ Answer \/ CreateIndex \/ UNCHANGED vars
  BY <1>1, <1>6 DEF StartInsert, StartChange, SkipRow, Fail, Answer, CreateIndex, vars
<1> QED
  BY <1>2, <1>3, <1>4, <1>5, <1>6 DEF Next

(* A row is done or not done: a step changes no record but that of its row *)
(* and that as the statement says; a row for which a call failed leaves    *)
(* the table's contents as they were, what UpdateExecutor takes back of a  *)
(* record that was moved already included.  It is so whatever the scan and *)
(* the indexes answer, failing calls that go unnoticed included.           *)
THEOREM RowsAlwaysDoneOrUndone == Spec => RowsAreDoneOrUndone
<1>1. Init => TypesInv /\ InsertsList
  BY InitIInv DEF Init, InsertsList, IInv
<1>2. TypesInv /\ InsertsList /\ [Next]_vars => (TypesInv /\ InsertsList)'
  BY NextKeepsTypes, InsertsListKept
<1>3. TypesInv /\ InsertsList /\ [Next]_vars =>
        [Contents(heap') # Contents(heap) => RowDone]_vars
  BY StepDoesRow
<1>4. RowsAreDoneOrUndone <=> [][Contents(heap') # Contents(heap) => RowDone]_vars
  BY DEF RowsAreDoneOrUndone, RowDone
<1> QED
  BY <1>1, <1>2, <1>3, <1>4, PTL DEF Spec

-------------------------------------------------------------------------------
(* Answered statements are complete, when every failing call is noticed.   *)

(* Does the statement's scan keep its place whatever the statement does?   *)
KeepsPlace == stmt.scan = "seq" \/ OneLeaf

(* The record r, under key k, is behind place p of the scan.               *)
Behind(k, r, p) ==
  IF stmt.scan = "seq" THEN r < p ELSE p = END \/ Position(k) < p

Passed(r) == Behind(heap[r].key, r, stmt.at)

(* The records the statement does not speak of are as they were.           *)
OthersStay ==
  \A r \in DOMAIN start : start[r].key \notin stmt.only =>
    r \in DOMAIN heap /\ heap[r] = start[r]

(* A DELETE leaves none behind that it speaks of.                          *)
AllDeleted == \A r \in DOMAIN heap : heap[r].key \in stmt.only => ~Passed(r)

(* Each record comes from one there was; behind the scan it is updated, in *)
(* front of it a table scan may have put one that is.                      *)
ComesFrom(r) ==
  \E s \in Records(start, heap[r].key) :
    IF stmt.scan = "index"
    THEN heap[r].val = start[s].val + IF Passed(r) THEN 1 ELSE 0
    ELSE /\ heap[r].val >= start[s].val
         /\ Passed(r) => heap[r].val > start[s].val

AllUpdated ==
  /\ \A k \in stmt.only :
       Cardinality(Records(heap, k)) = Cardinality(Records(start, k))
  /\ \A r \in DOMAIN heap : heap[r].key \in stmt.only => ComesFrom(r)

Progress ==
  /\ start \in Table
  /\ stmt.op \in {"delete", "update"} /\ stmt.state # "failed" =>
       /\ stmt.scan \in {"seq", "index"}
       /\ stmt.scan = "index" => index # <<>>
       /\ stmt.state = "answered" => stmt.at = END
       /\ stmt.op = "update" \/ stmt.scan = "seq" => OthersStay
       /\ stmt.op = "delete" /\ stmt.scan = "seq" => AllDeleted
       /\ stmt.op = "update" /\ KeepsPlace => AllUpdated

(* A table scan passes no record that it does not come to.                 *)
LEMMA SeqPasses ==
  ASSUME IInv, NEW n \in Nat, NEW r \in DOMAIN heap, r < SeqNext(n)
  PROVE  r < n
<1> DEFINE on == {q \in DOMAIN heap : q >= n}
<1>1. on \in SUBSET Nat /\ r \in Nat
  BY Domains, Positions DEF IInv, TypesInv
<1>2. CASE on = {}
  BY <1>1, <1>2
<1>3. CASE on # {}
  <2>1. SeqNext(n) = LeastOf(on)
    BY <1>3 DEF SeqNext
  <2>2. LeastOf(on) \in on /\ \A y \in on : LeastOf(on) <= y
    BY <1>1, <1>3, LeastIsLeast
  <2>3. r \notin on
    BY <1>1, <2>1, <2>2
  <2> QED
    BY <1>1, <2>3
<1> QED
  BY <1>2, <1>3

(* The keys of an index have different positions, all before the end.      *)
LEMMA KeysPlaced ==
  ASSUME IInv, index # <<>>
  PROVE  LET keys == DOMAIN index[1]
         IN  /\ keys = {heap[r].key : r \in DOMAIN heap}
             /\ \A r \in DOMAIN heap : index[1][heap[r].key] = r
             /\ Cardinality(keys) \in Nat /\ Cardinality(keys) < END
             /\ \A k \in keys : Position(k) \in 1 .. Cardinality(keys)
             /\ \A j, k \in keys : Position(j) = Position(k) => j = k
<1> DEFINE keys == DOMAIN index[1]
           UpTo(k) == {j \in keys : j <= k}
<1>1. /\ 1 \in DOMAIN index /\ index[1] \in Dictionary /\ heap \in Table
      /\ Matches(index[1], heap)
  BY DEF IInv, TypesInv
<1>2. /\ keys = {heap[r].key : r \in DOMAIN heap}
      /\ \A r \in DOMAIN heap : index[1][heap[r].key] = r
  BY <1>1 DEF Matches
<1>3. index[1] \in Injection(keys, RID)
  <2>1. index[1] \in [keys -> RID]
    BY <1>1, Domains
  <2>2. \A j, k \in keys : index[1][j] = index[1][k] => j = k
    BY <1>2
  <2> QED
    BY <2>1, <2>2 DEF Injection, IsInjective
<1>4. IsFiniteSet(RID) /\ Cardinality(RID) = MaxRid
  <2>1. 1 \in Int /\ MaxRid \in Int /\ RID = 1 .. MaxRid /\ MaxRid \in Nat
    BY IndexMaintenanceConstants DEF RID
  <2>2. /\ IsFiniteSet(1 .. MaxRid)
        /\ Cardinality(1 .. MaxRid) = IF 1 > MaxRid THEN 0 ELSE MaxRid - 1 + 1
    BY <2>1, FS_Interval
  <2> QED
    BY <2>1, <2>2
<1>5. IsFiniteSet(keys) /\ Cardinality(keys) <= MaxRid
  BY <1>3, <1>4, FS_Injection
<1>6. Cardinality(keys) \in Nat /\ Cardinality(keys) < END
  <2>1. Cardinality(keys) \in Nat
    BY <1>5, FS_CardinalityType
  <2> QED
    BY <1>5, <2>1, IndexMaintenanceConstants DEF END
<1>7. keys \subseteq Int
  BY <1>1, Domains, IndexMaintenanceConstants
<1>8. \A k : Position(k) = Cardinality(UpTo(k))
  BY DEF Position
<1>9. \A k \in keys : /\ IsFiniteSet(UpTo(k)) /\ k \in UpTo(k)
                      /\ Cardinality(UpTo(k)) \in Nat
                      /\ Cardinality(UpTo(k)) <= Cardinality(keys)
                      /\ Cardinality(UpTo(k)) # 0
  <2> SUFFICES ASSUME NEW k \in keys
               PROVE  /\ IsFiniteSet(UpTo(k)) /\ k \in UpTo(k)
                      /\ Cardinality(UpTo(k)) \in Nat
                      /\ Cardinality(UpTo(k)) <= Cardinality(keys)
                      /\ Cardinality(UpTo(k)) # 0
    OBVIOUS
  <2>1. UpTo(k) \in SUBSET keys /\ k \in UpTo(k)
    BY <1>7
  <2>2. IsFiniteSet(UpTo(k)) /\ Cardinality(UpTo(k)) <= Cardinality(keys)
    BY <1>5, <2>1, FS_Subset
  <2>3. Cardinality(UpTo(k)) \in Nat
    BY <2>2, FS_CardinalityType
  <2>4. Cardinality(UpTo(k)) # 0
    BY <2>1, <2>2, FS_EmptySet
  <2> QED
    BY <2>1, <2>2, <2>3, <2>4
<1>10. ASSUME NEW j \in keys, NEW k \in keys, j < k
       PROVE  Cardinality(UpTo(j)) # Cardinality(UpTo(k))
  <2>1. UpTo(j) \in SUBSET UpTo(k) /\ k \notin UpTo(j)
    BY <1>7, <1>10
  <2>2. UpTo(j) # UpTo(k) /\ IsFiniteSet(UpTo(k))
    BY <1>9, <2>1
  <2> QED
    BY <2>1, <2>2, FS_Subset
<1>11. \A j, k \in keys : Cardinality(UpTo(j)) = Cardinality(UpTo(k)) => j = k
  <2> SUFFICES ASSUME NEW j \in keys, NEW k \in keys, j # k
               PROVE  Cardinality(UpTo(j)) # Cardinality(UpTo(k))
    OBVIOUS
  <2>1. j < k \/ k < j
    BY <1>7
  <2> HIDE DEF UpTo
  <2> QED
    BY <1>10, <2>1
<1> HIDE DEF UpTo, keys
<1>12. \A k \in keys : Position(k) \in 1 .. Cardinality(keys)
  BY <1>6, <1>8, <1>9
<1>13. \A j, k \in keys : Position(j) = Position(k) => j = k
  BY <1>8, <1>11
<1> QED
  BY <1>2, <1>6, <1>12, <1>13 DEF keys

LEMMA IndexPasses ==
  ASSUME IInv, index # <<>>, NEW n \in Nat, NEW k \in DOMAIN index[1]
  PROVE  IndexNext(n) = END \/ Position(k) < IndexNext(n) <=> Position(k) < n
<1> DEFINE c == Cardinality(DOMAIN index[1])
<1>1. c \in Nat /\ c < END /\ Position(k) \in 1 .. c /\ END \in Nat
  BY KeysPlaced, Positions DEF IInv
<1>2. IndexNext(n) = IF n <= c THEN n ELSE END
  BY DEF IndexNext
<1> HIDE DEF c
<1> QED
  BY <1>1, <1>2

(* Moved on, a scan has passed what it had, and the row it stood at.       *)
LEMMA ScanPasses ==
  ASSUME IInv, NEW r \in DOMAIN heap, stmt.at # END,
         stmt.scan \in {"seq", "index"}, stmt.scan = "index" => index # <<>>
  PROVE  /\ Behind(heap[r].key, r, Advanced) => Passed(r) \/ r \in ScanRids
         /\ stmt.scan = "index" =>
              (Passed(r) \/ r \in ScanRids => Behind(heap[r].key, r, Advanced))
         /\ r \in ScanRids => ~Passed(r)
<1> DEFINE k == heap[r].key
<1>1. stmt.at \in Nat /\ stmt.at + 1 \in Nat
  BY DEF IInv, TypesInv, Statement
<1>2. CASE stmt.scan = "seq"
  <2>1. ScanRids = {stmt.at} /\ Advanced = SeqNext(stmt.at + 1)
    BY <1>2 DEF ScanRids, Advanced
  <2>2. r \in Nat
    BY Domains, Positions DEF IInv, TypesInv
  <2>3. r < Advanced => r < stmt.at + 1
    BY <1>1, <2>1, SeqPasses
  <2>4. r < Advanced => r < stmt.at \/ r = stmt.at
    BY <1>1, <2>2, <2>3
  <2> QED
    BY <1>1, <1>2, <2>1, <2>2, <2>4 DEF Behind, Passed
<1>3. CASE stmt.scan = "index"
  <2>1. /\ ScanRids = {index[1][j] : j \in {i \in DOMAIN index[1] : Position(i) = stmt.at}}
        /\ Advanced = IndexNext(stmt.at + 1)
    BY <1>3 DEF ScanRids, Advanced
  <2>2. /\ k \in DOMAIN index[1] /\ index[1][k] = r
        /\ Position(k) \in Nat
        /\ \A j \in DOMAIN index[1] : index[1][j] = r => j = k
    <3>1. /\ DOMAIN index[1] = {heap[q].key : q \in DOMAIN heap}
          /\ \A q \in DOMAIN heap : index[1][heap[q].key] = q
      BY <1>3, KeysPlaced
    <3>2. Position(k) \in Nat
      BY <1>3, <3>1, KeysPlaced
    <3> QED
      BY <3>1, <3>2
  <2> HIDE DEF k
  <2>3. r \in ScanRids <=> Position(k) = stmt.at
    BY <2>1, <2>2
  <2>4. Advanced = END \/ Position(k) < Advanced <=> Position(k) < stmt.at + 1
    BY <1>1, <1>3, <2>1, <2>2, IndexPasses
  <2>5. Position(k) < stmt.at + 1 <=> Position(k) < stmt.at \/ Position(k) = stmt.at
    BY <1>1, <2>2
  <2>6. Position(k) = stmt.at => ~ (Position(k) < stmt.at)
    BY <1>1
  <2> QED
    BY <1>3, <2>3, <2>4, <2>5, <2>6 DEF Behind, Passed, k
<1> QED
  BY <1>2, <1>3

(* A scan stands at one row.                                               *)
LEMMA OneRow ==
  ASSUME IInv, NEW q \in DOMAIN heap \cap ScanRids, NEW r \in DOMAIN heap \cap ScanRids,
         stmt.scan \in {"seq", "index"}, stmt.scan = "index" => index # <<>>
  PROVE  q = r
<1>1. CASE stmt.scan = "seq"
  BY <1>1 DEF ScanRids
<1>2. CASE stmt.scan = "index"
  <2>1. /\ \A s \in DOMAIN heap : index[1][heap[s].key] = s
        /\ DOMAIN index[1] = {heap[s].key : s \in DOMAIN heap}
        /\ \A j, k \in DOMAIN index[1] : Position(j) = Position(k) => j = k
    BY <1>2, KeysPlaced
  <2>2. PICK j \in DOMAIN index[1] : Position(j) = stmt.at /\ index[1][j] = q
    BY <1>2 DEF ScanRids
  <2>3. PICK k \in DOMAIN index[1] : Position(k) = stmt.at /\ index[1][k] = r
    BY <1>2 DEF ScanRids
  <2> QED
    BY <2>1, <2>2, <2>3
<1> QED
  BY <1>1, <1>2

(* What is behind the scan after a step that moves it on.                  *)
LEMMA PassedThen ==
  ASSUME TypesInv, stmt' = [stmt EXCEPT !.at = Advanced],
         stmt.scan = "seq" \/ DOMAIN index'[1] = DOMAIN index[1], NEW r
  PROVE  Passed(r)' <=> Behind(heap'[r].key, r, Advanced)
<1>1. stmt'.at = Advanced /\ stmt'.scan = stmt.scan
  BY DEF TypesInv, Statement
<1>2. ASSUME DOMAIN index'[1] = DOMAIN index[1], NEW k
      PROVE  Position(k)' = Position(k)
  BY <1>2 DEF Position
<1> QED
  BY <1>1, <1>2 DEF Passed, Behind, END

(* A step that leaves table and place alone.                               *)
LEMMA StandingStill ==
  ASSUME Progress, heap' = heap, index' = index, start' = start,
         stmt' = stmt \/ (stmt' = [stmt EXCEPT !.state = "answered"] /\ stmt \in Statement
                            /\ stmt.state # "failed"
                            /\ (stmt.op \in {"delete", "update"} => stmt.at = END))
  PROVE  Progress'
<1>1. /\ stmt'.op = stmt.op /\ stmt'.scan = stmt.scan /\ stmt'.at = stmt.at
      /\ stmt'.only = stmt.only
  BY DEF Statement
<1>2. \A r : Passed(r)' <=> Passed(r)
  BY <1>1 DEF Passed, Behind, Position, END
<1>3. \A r : ComesFrom(r)' <=> ComesFrom(r)
  BY <1>1, <1>2 DEF ComesFrom, Records
<1>4. AllDeleted' <=> AllDeleted
  BY <1>1, <1>2 DEF AllDeleted
<1>4a. AllUpdated' <=> AllUpdated
  <2>1. \A k : Records(heap, k)' = Records(heap, k) /\ Records(start, k)' = Records(start, k)
    BY DEF Records
  <2> QED
    BY <1>1, <1>3, <2>1 DEF AllUpdated
<1>4b. OthersStay' <=> OthersStay
  BY <1>1 DEF OthersStay
<1>5. stmt.state = "failed" => stmt'.state = "failed"
  OBVIOUS
<1>6. stmt'.state = "answered" /\ stmt.state # "failed" /\ stmt.op \in {"delete", "update"}
        => stmt.at = END
  BY DEF Progress
<1> QED
  BY <1>1, <1>4, <1>4a, <1>4b, <1>5, <1>6 DEF Progress, KeepsPlace, Table, END, Record, RID

(* A statement begins.                                                     *)
LEMMA StartChangeProgress ==
  ASSUME FailuresAreNoticed, IInv, NEW op \in {"delete", "update"}, StartChange(op)
  PROVE  Progress'
<1>0. TypesInv
  BY DEF IInv
<1>1. PICK only \in (SUBSET Key) \ {{}}, scan \in {"seq", "index"} :
        /\ scan = "index" => index # <<>>
        /\ stmt' = [op |-> op, state |-> "running", rows |-> <<>>, scan |-> scan,
                    only |-> only,
                    at |-> IF scan = "seq" THEN SeqNext(1) ELSE IndexNext(1)]
  <2>1. PICK only \in (SUBSET Key) \ {{}}, scan \in {"seq", "index"} :
          /\ scan = "index" => index # <<>>
          /\ \E at \in ThereOrEnd(IF scan = "seq" THEN SeqNext(1) ELSE IndexNext(1)) :
               stmt' = [op |-> op, state |-> "running", rows |-> <<>>, scan |-> scan,
                        only |-> only, at |-> at]
    BY DEF StartChange
  <2>2. ThereOrEnd(IF scan = "seq" THEN SeqNext(1) ELSE IndexNext(1)) =
          {IF scan = "seq" THEN SeqNext(1) ELSE IndexNext(1)}
    BY WhenNoticed
  <2> QED
    BY <2>1, <2>2
<1>2. heap' = heap /\ index' = index /\ start' = heap /\ heap \in Table
  BY DEF StartChange, IInv, TypesInv
<1>3. /\ stmt'.op = op /\ stmt'.state = "running" /\ stmt'.scan = scan
      /\ stmt'.at = IF scan = "seq" THEN SeqNext(1) ELSE IndexNext(1)
  BY <1>1
<1>4. ASSUME NEW r \in DOMAIN heap PROVE ~Passed(r)'
  <2>1. Passed(r)' <=> IF scan = "seq" THEN r < stmt'.at
                       ELSE stmt'.at = END \/ Position(heap[r].key) < stmt'.at
    BY <1>2, <1>3 DEF Passed, Behind, Position, END
  <2>2. CASE scan = "seq"
    <3>1. r < SeqNext(1) => r < 1
      BY SeqPasses
    <3>2. ~ (r < 1)
      BY <1>2, Domains, IndexMaintenanceConstants DEF RID
    <3> QED
      BY <1>3, <2>1, <2>2, <3>1, <3>2
  <2>3. CASE scan = "index"
    <3>1. /\ DOMAIN index[1] = {heap[q].key : q \in DOMAIN heap}
          /\ \A k \in DOMAIN index[1] : Position(k) \in 1 .. Cardinality(DOMAIN index[1])
      BY <1>1, <2>3, KeysPlaced
    <3> DEFINE k == heap[r].key
    <3>2. k \in DOMAIN index[1] /\ ~ (Position(k) < 1)
      <4>1. k \in DOMAIN index[1]
        BY <3>1
      <4>2. Position(k) \in 1 .. Cardinality(DOMAIN index[1])
        BY <3>1, <4>1
      <4>3. \A n : \A p \in 1 .. n : ~ (p < 1)
        OBVIOUS
      <4> QED
        BY <4>1, <4>2, <4>3
    <3> HIDE DEF k
    <3>3. IndexNext(1) = END \/ Position(k) < IndexNext(1) <=> Position(k) < 1
      BY <1>1, <2>3, <3>2, IndexPasses
    <3> QED
      BY <1>3, <2>1, <2>3, <3>2, <3>3 DEF k
  <2> QED
    BY <2>2, <2>3
<1>5. OthersStay'
  BY <1>2 DEF OthersStay
<1>6. AllDeleted'
  BY <1>2, <1>4 DEF AllDeleted
<1>7. AllUpdated'
  <2>1. ASSUME NEW r \in DOMAIN heap PROVE ComesFrom(r)'
    <3>1. r \in Records(heap, heap[r].key)
      BY DEF Records
    <3>2. heap[r].val \in Nat
      BY <1>2, Domains, IndexMaintenanceConstants DEF Record
    <3>3. IF stmt'.scan = "index"
          THEN heap[r].val = heap[r].val + IF Passed(r)' THEN 1 ELSE 0
          ELSE /\ heap[r].val >= heap[r].val
               /\ Passed(r)' => heap[r].val > heap[r].val
      BY <1>4, <3>2
    <3> QED
      BY <1>2, <3>1, <3>3 DEF ComesFrom
  <2> QED
    BY <1>2, <2>1 DEF AllUpdated
<1> QED
  BY <1>1, <1>2, <1>3, <1>5, <1>6, <1>7 DEF Progress, Table, Record, RID

(* A row that is passed over.                                              *)
LEMMA SkipRowProgress ==
  ASSUME FailuresAreNoticed, IInv, Progress, SkipRow
  PROVE  Progress'
<1>0. TypesInv
  BY DEF IInv
<1>1. /\ stmt.op \in {"delete", "update"} /\ stmt.state = "running" /\ stmt.at # END
      /\ stmt' = [stmt EXCEPT !.at = Advanced] /\ Chosen = {}
      /\ heap' = heap /\ index' = index /\ start' = start
  BY WhenNoticed DEF SkipRow, HasRow, Running
<1>2. /\ stmt'.op = stmt.op /\ stmt'.scan = stmt.scan /\ stmt'.only = stmt.only
      /\ stmt'.state = "running"
  BY <1>1 DEF IInv, TypesInv, Statement
<1>3. stmt.scan \in {"seq", "index"} /\ (stmt.scan = "index" => index # <<>>)
  BY <1>1 DEF Progress
<1>4. ASSUME NEW r \in DOMAIN heap, heap[r].key \in stmt.only
      PROVE  /\ Passed(r)' => Passed(r)
             /\ stmt.scan = "index" => (Passed(r)' <=> Passed(r))
  <2>1. r \notin ScanRids
    BY <1>1, <1>4 DEF Chosen
  <2>2. Passed(r)' <=> Behind(heap[r].key, r, Advanced)
    BY <1>0, <1>1, PassedThen
  <2> QED
    BY <1>1, <1>3, <2>1, <2>2, ScanPasses
<1>5. OthersStay => OthersStay'
  BY <1>1, <1>2 DEF OthersStay
<1>6. AllDeleted => AllDeleted'
  BY <1>1, <1>2, <1>4 DEF AllDeleted
<1>7. AllUpdated => AllUpdated'
  <2>1. ASSUME NEW r \in DOMAIN heap, heap[r].key \in stmt.only, ComesFrom(r)
        PROVE  ComesFrom(r)'
    BY <1>1, <1>2, <1>4, <2>1 DEF ComesFrom, Records
  <2> QED
    BY <1>1, <1>2, <2>1 DEF AllUpdated, Records
<1> QED
  BY <1>1, <1>2, <1>3, <1>5, <1>6, <1>7 DEF Progress, KeepsPlace, Table, Record, RID

(* A row that is deleted, or the statement fails at it.                    *)
LEMMA DeleteRowProgress ==
  ASSUME FailuresAreNoticed, IInv, Progress, DeleteRow
  PROVE  Progress'
<1>0. TypesInv
  BY DEF IInv
<1>1. PICK d \in Chosen :
        \/ /\ heap' = Without(heap, {d})
           /\ index' = RemoveFromIndexes(index, heap[d].key, None).index
           /\ \E at \in Onward \cup Drifted(stmt.at + 1) : stmt' = [stmt EXCEPT !.at = at]
        \/ stmt' = Failed
  BY WhenNoticed DEF DeleteRow
<1>2. /\ stmt.op = "delete" /\ stmt.state = "running" /\ stmt.at # END
      /\ start' = start
      /\ d \in DOMAIN heap /\ d \in ScanRids /\ heap[d].key \in stmt.only
      /\ stmt \in Statement
  BY DEF DeleteRow, HasRow, Running, Chosen, IInv, TypesInv
<1>3. CASE stmt' = Failed
  <2>1. stmt'.state = "failed"
    BY <1>2, <1>3 DEF Failed, Statement
  <2> QED
    BY <1>2, <2>1 DEF Progress, Table, Record, RID
<1>4. CASE /\ heap' = Without(heap, {d})
           /\ index' = RemoveFromIndexes(index, heap[d].key, None).index
           /\ \E at \in Onward \cup Drifted(stmt.at + 1) : stmt' = [stmt EXCEPT !.at = at]
  <2>1. /\ stmt'.op = "delete" /\ stmt'.scan = stmt.scan /\ stmt'.only = stmt.only
        /\ stmt'.state = "running"
    BY <1>2, <1>4 DEF Statement
  <2>2. stmt.scan \in {"seq", "index"} /\ (stmt.scan = "index" => index # <<>>)
    BY <1>2 DEF Progress
  <2>3. /\ DOMAIN heap' = DOMAIN heap \ {d}
        /\ \A r \in DOMAIN heap' : heap'[r] = heap[r]
    BY <1>4 DEF Without
  <2>4. DOMAIN index' = DOMAIN index
    BY <1>4 DEF RemoveFromIndexes
  <2>5. index # <<>> => index' # <<>>
    <3>1. index # <<>> => 1 \in DOMAIN index
      BY DEF IInv, TypesInv
    <3> QED
      BY <2>4, <3>1
  <2>6. stmt.scan = "seq" /\ OthersStay => OthersStay'
    BY <1>2, <2>1, <2>3 DEF OthersStay
  <2>7. stmt.scan = "seq" /\ AllDeleted => AllDeleted'
    <3> SUFFICES ASSUME stmt.scan = "seq", AllDeleted,
                        NEW r \in DOMAIN heap', heap'[r].key \in stmt.only, Passed(r)'
                 PROVE  FALSE
      BY <2>1 DEF AllDeleted
    <3>0. stmt' = [stmt EXCEPT !.at = Advanced]
      BY <1>4, WhenNoticed
    <3>1. Behind(heap[r].key, r, Advanced)
      BY <1>0, <2>3, <3>0, PassedThen
    <3>2. r \in DOMAIN heap /\ r # d
      BY <2>3
    <3>3. r \in ScanRids
      BY <1>2, <2>2, <2>3, <3>1, <3>2, ScanPasses DEF AllDeleted
    <3> QED
      BY <1>2, <2>2, <3>2, <3>3, OneRow
  <2> QED
    BY <1>2, <2>1, <2>2, <2>5, <2>6, <2>7 DEF Progress, KeepsPlace, Table, Record, RID
<1> QED
  BY <1>1, <1>3, <1>4

(* A row that is updated, where it was or elsewhere.                       *)
LEMMA UpdateRowProgress ==
  ASSUME FailuresAreNoticed, IInv, Progress, UpdateInPlace \/ UpdateMoved, IInv'
  PROVE  Progress'
<1>0. TypesInv
  BY DEF IInv
<1>1. PICK old, new, rec : Updates(old, new, rec)
  BY <1>0, UpdateDoes
<1>2. /\ stmt.op = "update" /\ stmt.state = "running" /\ stmt.at # END
      /\ start' = start /\ stmt \in Statement
      /\ \E at : stmt' = [stmt EXCEPT !.at = at]
      /\ KeepsPlace => stmt' = [stmt EXCEPT !.at = Advanced]
  <2>1. /\ HasRow("update") /\ start' = start
        /\ \E at \in Onward \cup Drifted(stmt.at + 2) : stmt' = [stmt EXCEPT !.at = at]
    BY <1>0, UpdateDoes
  <2>2. KeepsPlace => Onward \cup Drifted(stmt.at + 2) = {Advanced}
    BY WhenNoticed DEF KeepsPlace
  <2> QED
    BY <1>0, <2>1, <2>2 DEF HasRow, Running, TypesInv
<1>3. /\ stmt'.op = "update" /\ stmt'.scan = stmt.scan /\ stmt'.only = stmt.only
      /\ stmt'.state = "running"
  BY <1>2 DEF Statement
<1>4. /\ stmt.scan \in {"seq", "index"} /\ (stmt.scan = "index" => index # <<>>)
      /\ OthersStay /\ (KeepsPlace => AllUpdated) /\ start \in Table
  BY <1>2 DEF Progress
<1>5. /\ old \in DOMAIN heap /\ old \in ScanRids /\ heap[old].key \in stmt.only
      /\ rec.key = heap[old].key /\ rec.val = heap[old].val + 1
      /\ DOMAIN heap' = (DOMAIN heap \ {old}) \cup {new} /\ heap'[new] = rec
      /\ \A s \in DOMAIN heap \ {old} : s # new /\ heap'[s] = heap[s]
      /\ \A j : Cardinality(Records(heap', j)) = Cardinality(Records(heap, j))
  BY <1>1 DEF Updates
<1>6. DOMAIN index' = DOMAIN index
  BY DEF UpdateInPlace, UpdateMoved, RebindMovedRid
<1>7. index # <<>> => index' # <<>> /\ 1 \in DOMAIN index
  <2>1. index # <<>> => 1 \in DOMAIN index
    BY DEF IInv, TypesInv
  <2> QED
    BY <1>6, <2>1
<1>8. stmt.scan = "seq" \/ DOMAIN index'[1] = DOMAIN index[1]
  <2> SUFFICES ASSUME stmt.scan = "index" PROVE DOMAIN index'[1] = DOMAIN index[1]
    BY <1>4
  <2>1. Matches(index[1], heap) /\ Matches(index'[1], heap')
    BY <1>4, <1>6, <1>7 DEF IInv, TypesInv
  <2>2. {heap'[r].key : r \in DOMAIN heap'} = {heap[r].key : r \in DOMAIN heap}
    BY <1>5
  <2> QED
    BY <2>1, <2>2 DEF Matches
<1>9. OthersStay'
  BY <1>2, <1>3, <1>4, <1>5 DEF OthersStay
<1>10. KeepsPlace => \A r : Passed(r)' <=> Behind(heap'[r].key, r, Advanced)
  BY <1>0, <1>2, <1>8, PassedThen
<1>11. ASSUME KeepsPlace PROVE ComesFrom(new)'
  <2>1. PICK s \in Records(start, heap[old].key) :
          IF stmt.scan = "index"
          THEN heap[old].val = start[s].val + IF Passed(old) THEN 1 ELSE 0
          ELSE heap[old].val >= start[s].val
    BY <1>4, <1>5, <1>11 DEF AllUpdated, ComesFrom
  <2>2. heap[old].val \in Int /\ start[s].val \in Int
    <3>1. heap \in [DOMAIN heap -> Record] /\ start \in [DOMAIN start -> Record]
      BY <1>4, Domains DEF IInv, TypesInv
    <3>2. s \in DOMAIN start
      BY DEF Records
    <3> QED
      BY <1>5, <3>1, <3>2 DEF Record
  <2>3. ~Passed(old)
    BY <1>2, <1>4, <1>5, ScanPasses
  <2>4. s \in Records(start', heap'[new].key)
    BY <1>2, <1>5, <2>1
  <2>5. CASE stmt.scan = "index"
    <3>1. Behind(heap[old].key, old, Advanced)
      BY <1>2, <1>4, <1>5, <2>5, ScanPasses
    <3>2. Behind(rec.key, new, Advanced)
      BY <1>5, <2>5, <3>1 DEF Behind
    <3>3. Passed(new)'
      BY <1>5, <1>10, <1>11, <3>2
    <3>4. heap'[new].val = start'[s].val + 1
      BY <1>2, <1>5, <2>1, <2>2, <2>3, <2>5
    <3> QED
      BY <1>3, <2>4, <2>5, <3>3, <3>4 DEF ComesFrom
  <2>6. CASE stmt.scan = "seq"
    <3>1. heap'[new].val > start'[s].val /\ heap'[new].val >= start'[s].val
      BY <1>2, <1>5, <2>1, <2>2, <2>6
    <3> QED
      BY <1>3, <2>4, <2>6, <3>1 DEF ComesFrom
  <2> QED
    BY <1>4, <2>5, <2>6
<1>12. ASSUME KeepsPlace, NEW r \in DOMAIN heap \ {old}, heap[r].key \in stmt.only
       PROVE  ComesFrom(r)'
  <2>1. r \notin ScanRids
    BY <1>4, <1>5, OneRow
  <2>2. Passed(r)' <=> Behind(heap[r].key, r, Advanced)
    BY <1>5, <1>10, <1>12
  <2>3. /\ Passed(r)' => Passed(r)
        /\ stmt.scan = "index" => (Passed(r)' <=> Passed(r))
    BY <1>2, <1>4, <2>1, <2>2, ScanPasses
  <2>4. ComesFrom(r)
    BY <1>4, <1>12 DEF AllUpdated
  <2>5. heap'[r] = heap[r] /\ Records(start, heap[r].key)' = Records(start, heap[r].key)
    BY <1>2, <1>5 DEF Records
  <2> QED
    BY <1>2, <1>3, <2>3, <2>4, <2>5 DEF ComesFrom, Records
<1>13. ASSUME KeepsPlace PROVE AllUpdated'
  <2>1. \A k \in stmt.only :
          Cardinality(Records(heap', k)) = Cardinality(Records(start', k))
    BY <1>2, <1>4, <1>5, <1>13 DEF AllUpdated
  <2>2. \A r \in DOMAIN heap' : heap'[r].key \in stmt.only => ComesFrom(r)'
    BY <1>5, <1>11, <1>12, <1>13
  <2> QED
    BY <1>3, <2>1, <2>2 DEF AllUpdated, Records
<1> QED
  BY <1>2, <1>3, <1>4, <1>7, <1>9, <1>13 DEF Progress, KeepsPlace, Table, Record, RID

(* A new index, when no statement runs.                                    *)
LEMMA CreateIndexProgress ==
  ASSUME IInv, Progress, CreateIndex
  PROVE  Progress'
<1>1. heap' = heap /\ stmt' = stmt /\ start' = start /\ stmt.state # "running"
  BY DEF CreateIndex, Running
<1>2. index' # <<>>
  BY DEF CreateIndex, IInv, TypesInv
<1>3. stmt.state # "failed" => stmt.state = "answered"
  BY <1>1 DEF IInv, TypesInv, Statement
<1>4. ASSUME stmt.at = END, stmt.scan \in {"seq", "index"}, NEW r
      PROVE  Passed(r)' <=> Passed(r)
  BY <1>1, <1>4 DEF Passed, Behind, END
<1>5. ASSUME stmt.at = END, stmt.scan \in {"seq", "index"}
      PROVE  (AllDeleted => AllDeleted') /\ (AllUpdated => AllUpdated')
             /\ (OthersStay => OthersStay')
  <2>1. \A r : ComesFrom(r) => ComesFrom(r)'
    BY <1>1, <1>4, <1>5 DEF ComesFrom, Records
  <2>2. AllDeleted => AllDeleted'
    BY <1>1, <1>4, <1>5 DEF AllDeleted
  <2>3. AllUpdated => AllUpdated'
    <3>1. \A k : Records(heap, k)' = Records(heap, k) /\ Records(start, k)' = Records(start, k)
      BY <1>1 DEF Records
    <3> QED
      BY <1>1, <2>1, <3>1 DEF AllUpdated
  <2>4. OthersStay => OthersStay'
    BY <1>1 DEF OthersStay
  <2> QED
    BY <2>2, <2>3, <2>4
<1> QED
  BY <1>1, <1>2, <1>3, <1>5 DEF Progress, KeepsPlace, Table, END, Record, RID

LEMMA StepsProgress ==
  ASSUME FailuresAreNoticed, IInv, InsertsList, Progress, [Next]_vars, IInv'
  PROVE  Progress'
<1>0. stmt \in Statement /\ start \in Table
  BY DEF IInv, TypesInv, Progress
<1>1. CASE StartInsert
  <2>1. stmt'.op = "insert" /\ start' = heap
    BY <1>1 DEF StartInsert
  <2> QED
    BY <2>1 DEF Progress, IInv, TypesInv, Table, Record, RID
<1>2. CASE StartChange("delete") \/ StartChange("update")
  BY <1>2, StartChangeProgress
<1>3. CASE SkipRow
  BY <1>3, SkipRowProgress
<1>4. CASE InsertRow
  <2>1. /\ stmt.op = "insert" /\ start' = start
        /\ stmt' = [stmt EXCEPT !.rows = Tail(@)] \/ stmt' = [stmt EXCEPT !.state = "failed"]
    BY <1>4 DEF InsertRow, InsertsList, Failed
  <2>2. stmt'.op = "insert"
    BY <1>0, <2>1 DEF Statement
  <2> QED
    BY <1>0, <2>1, <2>2 DEF Progress, Table, Record, RID
<1>5. CASE DeleteRow
  BY <1>5, DeleteRowProgress
<1>6. CASE UpdateInPlace \/ UpdateMoved
  BY <1>6, UpdateRowProgress
<1>7. CASE Fail \/ UpdateUndone
  <2>1. stmt' = [stmt EXCEPT !.state = "failed"] /\ start' = start
    BY <1>7 DEF Fail, UpdateUndone, Failed
  <2>2. stmt'.state = "failed"
    BY <1>0, <2>1 DEF Statement
  <2> QED
    BY <1>0, <2>1, <2>2 DEF Progress, Table, Record, RID
<1>8. CASE Answer
  <2>1. /\ stmt' = [stmt EXCEPT !.state = "answered"] /\ stmt.state = "running"
        /\ stmt.op \in {"delete", "update"} => stmt.at = END
        /\ heap' = heap /\ index' = index /\ start' = start
    BY <1>8 DEF Answer, Running
  <2> QED
    BY <1>0, <2>1, StandingStill
<1>9. CASE CreateIndex
  BY <1>9, CreateIndexProgress
<1>10. CASE UNCHANGED vars
  BY <1>10, StandingStill DEF vars
<1> QED
  BY <1>1, <1>2, <1>3, <1>4, <1>5, <1>6, <1>7, <1>8, <1>9, <1>10 DEF Next

LEMMA ProgressInit == Init => Progress
<1> SUFFICES ASSUME Init PROVE Progress
  OBVIOUS
<1>1. start \in [{} -> Record] /\ stmt.op = "none"
  BY DEF Init
<1> QED
  BY <1>1 DEF Progress, Table

LEMMA CompleteWhenAnswered ==
  ASSUME IInv, Progress, KeepsPlace
  PROVE  AnsweredStatementsAreComplete
<1> SUFFICES ASSUME Answered("delete", {"seq"}) \/ Answered("update", {"seq", "index"})
             PROVE  /\ \A k \in stmt.only : Done(k)
                    /\ \A k \in Key \ stmt.only :
                         \A r \in Records(start, k) : r \in DOMAIN heap /\ heap[r] = start[r]
  BY DEF AnsweredStatementsAreComplete
<1>1. /\ stmt.op \in {"delete", "update"} /\ stmt.state = "answered" /\ stmt.at = END
      /\ stmt.scan \in {"seq", "index"} /\ OthersStay
      /\ stmt.op = "delete" => stmt.scan = "seq" /\ AllDeleted
      /\ stmt.op = "update" => AllUpdated
  BY DEF Answered, Progress
<1>2. \A r \in DOMAIN heap : Passed(r)
  <2>1. \A r \in DOMAIN heap : r < END
    BY Domains, IndexMaintenanceConstants DEF IInv, TypesInv, RID, END
  <2> QED
    BY <1>1, <2>1 DEF Passed, Behind
<1>3. \A k \in Key \ stmt.only :
        \A r \in Records(start, k) : r \in DOMAIN heap /\ heap[r] = start[r]
  BY <1>1 DEF OthersStay, Records
<1>4. CASE stmt.op = "delete"
  <2>1. \A r \in DOMAIN heap : heap[r].key \notin stmt.only
    BY <1>1, <1>2, <1>4 DEF AllDeleted
  <2>2. \A k \in stmt.only : Records(heap, k) = {}
    BY <2>1 DEF Records
  <2> QED
    BY <1>3, <1>4, <2>2 DEF Done
<1>5. CASE stmt.op = "update"
  <2>1. ASSUME NEW k \in stmt.only PROVE Done(k)
    <3>1. Cardinality(Records(heap, k)) = Cardinality(Records(start, k))
      BY <1>1, <1>5 DEF AllUpdated
    <3>2. ASSUME NEW r \in Records(heap, k)
          PROVE  \E s \in Records(start, k) :
                   IF stmt.scan = "index" THEN heap[r].val = start[s].val + 1
                   ELSE heap[r].val > start[s].val
      <4>1. r \in DOMAIN heap /\ heap[r].key = k
        BY DEF Records
      <4>2. ComesFrom(r) /\ Passed(r)
        BY <1>1, <1>2, <1>5, <4>1 DEF AllUpdated
      <4> QED
        BY <4>1, <4>2 DEF ComesFrom
    <3> QED
      BY <1>5, <3>1, <3>2 DEF Done
  <2> QED
    BY <1>3, <2>1
<1> QED
  BY <1>1, <1>4, <1>5

LEMMA ProgressIsMade ==
  ASSUME FailuresAreNoticed
  PROVE  Spec => [](IInv /\ Progress)
<1>1. Init => IInv /\ InsertsList /\ Progress
  BY InitIInv, ProgressInit DEF Init, InsertsList
<1>2. IInv /\ InsertsList /\ Progress /\ [Next]_vars => (IInv /\ InsertsList /\ Progress)'
  BY NextKeepsIInv, InsertsListKept, StepsProgress DEF IInv
<1> QED
  BY <1>1, <1>2, PTL DEF Spec

(* A DELETE or an UPDATE led by a table scan (DeleteExecutor and           *)
(* UpdateExecutor over SeqScanExecutor) that was answered has changed each *)
(* row it was to change and left the others, although it takes records out *)
(* of the table, or moves them, under the scan; however many leaves an     *)
(* index has.  The hypothesis leaves out scans with a page that cannot be  *)
(* had.                                                                    *)
THEOREM TableScansAreComplete ==
  ASSUME FailuresAreNoticed
  PROVE  Spec => [](stmt.scan = "seq" => AnsweredStatementsAreComplete)
<1>1. IInv /\ Progress => (stmt.scan = "seq" => AnsweredStatementsAreComplete)
  BY CompleteWhenAnswered DEF KeepsPlace
<1> QED
  BY <1>1, ProgressIsMade, PTL

(* The same, and of an UPDATE led by an index scan too, which rebinds keys *)
(* of the index under its iterator (IndexScanExecutor, RebindMovedRid):    *)
(* for indexes of a single leaf, whatever its keys, and scans whose pages  *)
(* can all be had.  With more leaves it is not so, and TLC shows it: the   *)
(* Remove of a row borrows or merges leaves under the iterator.            *)
THEOREM AnswersAreComplete ==
  ASSUME FailuresAreNoticed, OneLeaf
  PROVE  Spec => []AnsweredStatementsAreComplete
<1>1. IInv /\ Progress => AnsweredStatementsAreComplete
  BY CompleteWhenAnswered DEF KeepsPlace
<1> QED
  BY <1>1, ProgressIsMade, PTL
===============================================================================
