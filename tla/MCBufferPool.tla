----------------------------- MODULE MCBufferPool -----------------------------
(* The clients are interchangeable. *)
EXTENDS BufferPool, TLC

ClientSymmetry == Permutations(Client)
===============================================================================
