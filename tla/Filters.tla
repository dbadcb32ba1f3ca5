------------------------------ MODULE Filters ------------------------------
(***************************************************************************)
(* What lb_stack_delete_all leaves of a stack or a queue: the elements in  *)
(* a set, in their order.  A recursive function, as the loop in stack.c,   *)
(* so that more than one instance of it can be reasoned about.             *)
(***************************************************************************)
EXTENDS Naturals, Sequences

Kept(s, S) ==
  LET kept[i \in 0..Len(s)] ==
        IF i = 0 THEN <<>>
        ELSE IF s[i] \in S THEN Append(kept[i - 1], s[i]) ELSE kept[i - 1]
  IN  kept[Len(s)]
=============================================================================
