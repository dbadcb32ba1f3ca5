------------------------------- MODULE MCChat -------------------------------
(* Two clients that come, send, hang up or fall silent in any order.       *)
EXTENDS Chat

Symmetry == Permutations(Conns)
=============================================================================
