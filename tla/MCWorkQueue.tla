----------------------------- MODULE MCWorkQueue ----------------------------
(* Symmetry: threads are interchangeable, and so are items.                *)
EXTENDS WorkQueue

Symmetry == Permutations(Threads) \cup Permutations(Work)
=============================================================================
