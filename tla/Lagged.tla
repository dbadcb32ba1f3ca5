------------------------------- MODULE Lagged -------------------------------
(***************************************************************************)
(* The lagged Fibonacci generator of misc.c: a table of the last numbers,  *)
(* of which pos is the latest.  A position is a word, and an index its low *)
(* bits: the table's size is a power of two.                               *)
(***************************************************************************)
EXTENDS Integers, SequencesExt

CONSTANTS LagA, LagB, TableSize, NumberBits

(* lb_misc_lfg_initialize, with any first table instead of the one there.  *)
FirstTable(iv) == [pos |-> -1, arr |-> iv, latest |-> 0]

(* lbi_misc_lfg_index.  As the size divides 2^64, it does not matter that  *)
(* a position below zero wraps around.                                     *)
Index(x) == (x % TableSize) + 1

(* lb_misc_lfg_next *)
NextNumber(rg) ==
  LET pos == rg.pos + 1
      sum == (rg.arr[Index(pos - LagA)] + rg.arr[Index(pos - LagB)]) % 2 ^ NumberBits
  IN  [pos |-> pos, arr |-> [rg.arr EXCEPT ![Index(pos)] = sum], latest |-> sum]
=============================================================================
