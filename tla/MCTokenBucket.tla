---------------------------- MODULE MCTokenBucket ---------------------------
(* Requests of up to three tokens on a bucket of two: some can be served   *)
(* by one tick, some need two, and some never can be.                      *)
EXTENDS Heartbeat
=============================================================================
