------------------------------- MODULE MCCatalog -------------------------------
(* Threads are alike, and so are the names of tables.                      *)
EXTENDS Catalog

Symmetry == Permutations(Thread) \cup Permutations(Name)
===============================================================================
