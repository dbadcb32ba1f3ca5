-------------------------------- MODULE Alloc -------------------------------
(***************************************************************************)
(* alloc.c as operators on the allocator's memory: a piece of the heap     *)
(* that grows with brk, and bins of free blocks, one for each power of     *)
(* two.  Addresses are bytes from the start of the heap.                   *)
(*                                                                         *)
(* A record of memory has the fields of lb_sbrk_t and the lists that       *)
(* lb_alloc_t.head starts.  lb_alloc_direct and its two operations are     *)
(* lb_alloc and lb_alloc_free with the bin looked up beforehand.           *)
(***************************************************************************)
EXTENDS Integers, Sequences

CONSTANTS Pointer,    \* sizeof(void*)
          Alignment,  \* LB_MAXIMUM_ALIGNMENT
          Increment,  \* LB_SBRK_INCREMENT
          Bins        \* LB_ALLOC_BINS

(* The powers of two that a word can hold.                                 *)
Power[n \in 0..Bins] == IF n = 0 THEN 1 ELSE 2 * Power[n - 1]

ASSUME AllocAssumption ==
  /\ Bins \in Nat \ {0} /\ Increment \in Nat \ {0}
  /\ \E p \in 1..Bins, a \in 0..Bins :
       Pointer = Power[p] /\ Alignment = Power[a] /\ a <= p

Memory == [rbrk : Nat, cbrk : Nat, left : Nat, head : [0..(Bins - 1) -> Seq(Nat)]]

(* lb_sbrk_initialize, lb_alloc_initialize *)
NoMemory == [rbrk |-> 0, cbrk |-> 0, left |-> 0, head |-> [b \in 0..(Bins - 1) |-> <<>>]]

(* lb_bsr: the place of the highest bit that is set.                       *)
Bsr(x) == CHOOSE n \in 0..(Bins - 1) : Power[n] <= x /\ x < Power[n + 1]

(* lb_alloc_bin behind LBI_ALLOC_PROLOGUE: "we can't deliver less than a   *)
(* pointer's worth".                                                       *)
Bin(size) == Bsr((IF size < Pointer THEN Pointer ELSE size) - 1)
BinSize(bin) == Power[bin + 1]

(* "check that we didn't end up out of bounds with the bin somehow"        *)
Allocable(size) == size \in Nat /\ size <= Power[Bins]
Rounded(size) == BinSize(Bin(size))

(* Mutant: one increment at most.                                          *)
BugIncrements(lacking) == IF lacking > 0 THEN 1 ELSE 0

Increments(lacking) ==
  IF lacking > 0 THEN (lacking + Increment - 1) \div Increment ELSE 0

(* lb_sbrk: the program break moves by whole increments.                   *)
Sbrk(m, size) ==
  LET aligned == ((size + Alignment - 1) \div Alignment) * Alignment
      more == Increments(aligned - m.left)
  IN  [rbrk |-> m.rbrk + more * Increment,
       cbrk |-> m.cbrk + aligned,
       left |-> m.left + more * Increment - aligned,
       head |-> m.head]

(* lb_alloc: the address it returns, and the memory afterwards.            *)
Place(m, size) ==
  IF m.head[Bin(size)] # <<>> THEN Head(m.head[Bin(size)]) ELSE m.cbrk

Alloc(m, size) ==
  IF m.head[Bin(size)] # <<>> THEN [m EXCEPT !.head[Bin(size)] = Tail(@)]
  ELSE Sbrk(m, Rounded(size))

(* lb_alloc_free: blocks know neither their size nor their bin.            *)
Free(m, at, size) == [m EXCEPT !.head[Bin(size)] = <<at>> \o @]
=============================================================================
