-------------------------------- MODULE Queue -------------------------------
(***************************************************************************)
(* queue.c on two stacks of stack.c: pushes go to sk_inp, pulls come from  *)
(* sk_out, which is refilled in one go when it is empty.  PutBack is       *)
(* lb_work_queue_resubmit, which pushes on sk_out behind queue.c's back.   *)
(***************************************************************************)
EXTENDS Stack

CONSTANTS Elem,      \* the pointers queued
          Null,      \* the NULL pointer, which may be one of Elem
          MaxItems,  \* bound of the model on the number of elements
          MaxMany    \* bound of the model on a push of many

ASSUME BoundsAssumption == MaxItems \in Nat /\ MaxMany \in Nat

VARIABLES sk_inp, sk_out,  \* the two stacks
          pulled           \* what the last call returned

vars == <<sk_inp, sk_out, pulled>>

Size == sk_inp.len + sk_out.len

Init == sk_inp = Create /\ sk_out = Create /\ pulled = <<>>

(* lb_queue_push for one element, lb_queue_push_many for several.          *)
PushElems(s) ==
  /\ Size + Len(s) <= MaxItems
  /\ sk_inp' = PushMany(sk_inp, s)
  /\ UNCHANGED sk_out /\ pulled' = <<>>

(* lb_queue_push_many_non_null *)
PushElemsNonNull(s) ==
  /\ Size + Len(s) <= MaxItems
  /\ sk_inp' = PushManyNonNull(sk_inp, s, Null)
  /\ UNCHANGED sk_out /\ pulled' = <<>>

PutBack(e) ==
  /\ Size < MaxItems
  /\ sk_out' = Push(sk_out, e)
  /\ UNCHANGED sk_inp /\ pulled' = <<>>

(* Mutant: refills although sk_out still holds elements.                   *)
BugRefill(qu) ==
  LET all == PullAll(qu.inp)
  IN  [qu EXCEPT !.inp = all.rest, !.out = PushMany(@, all.elms)]

(* The two stacks before the pull proper.                                  *)
Refill(qu) ==
  IF Sense(qu.out) THEN qu
  ELSE LET all == PullAll(qu.inp)
       IN  [qu EXCEPT !.inp = all.rest, !.out = PushMany(@, all.elms)]

(* lb_queue_pull: the stacks, and what came out of them so far.            *)
PullOne(qu) ==
  LET full == Refill(qu)
  IN  [inp |-> full.inp, out |-> Pull(full.out), got |-> Append(qu.got, Top(full.out))]

(* lb_queue_pull for n = 1, lb_queue_pull_many.  Pulling more than there   *)
(* is is illegal (LB_ILLEGAL).                                             *)
PullElems(n) ==
  /\ n <= Size
  /\ LET after[i \in 0..n] ==
           IF i = 0 THEN [inp |-> sk_inp, out |-> sk_out, got |-> <<>>]
           ELSE PullOne(after[i - 1])
     IN  /\ sk_inp' = after[n].inp
         /\ sk_out' = after[n].out
         /\ pulled' = after[n].got

DeleteElem(e) ==
  /\ sk_inp' = DeleteAll(sk_inp, e)
  /\ sk_out' = DeleteAll(sk_out, e)
  /\ pulled' = <<>>

(* lb_queue_delete, whatever the queue holds, and lb_queue_create.         *)
Renew == sk_inp' = Create /\ sk_out' = Create /\ pulled' = <<>>

Next == \/ \E e \in Elem : PutBack(e) \/ DeleteElem(e)
        \/ \E n \in 1..MaxMany : \E s \in [1..n -> Elem] :
             PushElems(s) \/ PushElemsNonNull(s)
        \/ \E n \in 0..MaxItems : PullElems(n)
        \/ Renew

Spec == Init /\ [][Next]_vars

-----------------------------------------------------------------------------

items == Contents(sk_out) \o Reverse(Contents(sk_inp))
FifoSpec == INSTANCE Fifo

(* The two stacks are a first-in first-out queue that can also take        *)
(* elements back at the front and drop all copies of one, and gives many   *)
(* in the order of single pulls, refills in between (queue.c 45-106;       *)
(* work_queue.c 66-83).                                                    *)
ImplementsFifo == FifoSpec!Spec
=============================================================================
