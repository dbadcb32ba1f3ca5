-------------------------------- MODULE Fifo --------------------------------
(***************************************************************************)
(* What a queue of queue.c promises: elements come out in the order they   *)
(* went in, singly or many at a time, except those put back at the front   *)
(* (work_queue.c reaches into the queue for that), and removing an element *)
(* keeps the others in order.                                              *)
(***************************************************************************)
EXTENDS Naturals, Sequences, Filters

CONSTANTS Elem,   \* what is queued
          Null,   \* the NULL pointer, which may be one of Elem
          MaxMany \* bound of the model on what is pushed at once

VARIABLES items,  \* the queue, next element out first
          pulled  \* the elements that the last call returned

vars == <<items, pulled>>

Init == items = <<>> /\ pulled = <<>>

NonNull(s) == Kept(s, Elem \ {Null})

PushMany(s) == items' = items \o s /\ pulled' = <<>>

PutBack(e) == items' = <<e>> \o items /\ pulled' = <<>>

PullMany(n) ==
  /\ n <= Len(items)
  /\ pulled' = SubSeq(items, 1, n)
  /\ items' = SubSeq(items, n + 1, Len(items))

DeleteElem(e) ==
  /\ items' = Kept(items, Elem \ {e})
  /\ pulled' = <<>>

(* The queue is given up and another one made in its place.                *)
Renew == items' = <<>> /\ pulled' = <<>>

Next == \/ \E e \in Elem : PutBack(e) \/ DeleteElem(e)
        \/ \E n \in 1..MaxMany : \E s \in [1..n -> Elem] :
             PushMany(s) \/ PushMany(NonNull(s))
        \/ \E n \in 0..Len(items) : PullMany(n)
        \/ Renew

Spec == Init /\ [][Next]_vars
=============================================================================
