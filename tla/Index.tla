--------------------------------- MODULE Index ---------------------------------
(***************************************************************************)
(* What an index promises: a set of keys, each with the record it leads    *)
(* to.  A record id stays with its key for as long as the key is there, so *)
(* the set of keys says everything.                                        *)
(***************************************************************************)

CONSTANT Key                \* the keys clients use

VARIABLE keys               \* those that are in the index

Init == keys = {}

Add(k) ==
  /\ k \notin keys
  /\ keys' = keys \cup {k}

Drop(k) ==
  /\ k \in keys
  /\ keys' = keys \ {k}

Next == \E k \in Key : Add(k) \/ Drop(k)

Spec == Init /\ [][Next]_keys
===============================================================================
