--------------------------------- MODULE MCWal ---------------------------------
(* Wal for TLC: clients and pages are interchangeable. *)
EXTENDS Wal, TLC

Symmetry == Permutations(Client) \cup Permutations(Page)
            \cup Permutations(Tuple)
===============================================================================
