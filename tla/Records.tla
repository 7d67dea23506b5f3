-------------------------------- MODULE Records --------------------------------
(***************************************************************************)
(* What a table page promises: a map from slots to tuples.  An operation   *)
(* on one record leaves the others alone, and a slot keeps its record      *)
(* until that record is deleted or, because it has to grow and the page    *)
(* cannot hold it any more, is moved to another page.                      *)
(***************************************************************************)

CONSTANTS
  SlotId,                   \* slot numbers
  Tuple                     \* what a record can be

VARIABLE records            \* the record in each slot that has one

Init == records = [s \in {} |-> {}]

Put(s, t) ==
  /\ s \notin DOMAIN records
  /\ records' = [r \in DOMAIN records \cup {s} |->
                   IF r = s THEN t ELSE records[r]]

Overwrite(s, t) ==
  /\ s \in DOMAIN records
  /\ records' = [records EXCEPT ![s] = t]

Remove(s) ==
  /\ s \in DOMAIN records
  /\ records' = [r \in DOMAIN records \ {s} |-> records[r]]

Next ==
  \/ \E s \in SlotId, t \in Tuple : Put(s, t) \/ Overwrite(s, t)
  \/ \E s \in SlotId : Remove(s)

Spec == Init /\ [][Next]_records
===============================================================================
