------------------------------- MODULE MCQueue ------------------------------
(* Groups of two, so that five elements span three groups.                 *)
EXTENDS Queue
=============================================================================
