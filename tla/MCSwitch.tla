------------------------------ MODULE MCSwitch ------------------------------
(***************************************************************************)
(* Switch on small instances.                                              *)
(***************************************************************************)
EXTENDS Switch, TLC

(* Thread structures and descriptors are interchangeable.                  *)
MCSymmetry == Permutations(Threads) \cup Permutations(Fds)
=============================================================================
