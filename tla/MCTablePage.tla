------------------------------ MODULE MCTablePage ------------------------------
(* TablePage for TLC: the bytes of tuples are interchangeable. *)
EXTENDS TablePage, TLC

Symmetry == Permutations(Byte)
===============================================================================
