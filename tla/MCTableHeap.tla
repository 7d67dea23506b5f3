------------------------------ MODULE MCTableHeap ------------------------------
(* Values for the constants of TableHeap: tuples of one or two units.      *)
EXTENDS TableHeap

MCLength == {1, 2}
MCOwner == CHOOSE f \in [Rec -> Thread] : IsInjective(f)
===============================================================================
