-------------------------------- MODULE Stack -------------------------------
(***************************************************************************)
(* stack.c: a stack in groups of GroupLength pointers, linked from the     *)
(* newest.  An empty group is kept until the next pull from below it, so   *)
(* a push and a pull at a group boundary do not allocate each time.        *)
(***************************************************************************)
EXTENDS Naturals, SequencesExt, Filters

CONSTANTS GroupLength,  \* LB_STACK_GROUP_LENGTH
          Junk          \* what a freshly allocated group holds

ASSUME GroupLengthAssumption == GroupLength \in Nat \ {0}

(* groups: the chain from head; used: head_used; len.                      *)
Create == [groups |-> <<>>, used |-> GroupLength, len |-> 0]

Sense(sk) == sk.len > 0

Grow(sk) ==
  IF sk.used < GroupLength THEN sk
  ELSE [sk EXCEPT !.groups = <<[i \in 1..GroupLength |-> Junk]>> \o @, !.used = 0]

Push(sk, e) ==
  LET grown == Grow(sk)
  IN  [groups |-> [grown.groups EXCEPT ![1][grown.used + 1] = e],
       used |-> grown.used + 1, len |-> grown.len + 1]

(* The head group is empty: free it, the group below is full.              *)
Shrink(sk) ==
  IF sk.used > 0 THEN sk
  ELSE [sk EXCEPT !.groups = Tail(@), !.used = GroupLength]

Top(sk) == LET shrunk == Shrink(sk) IN Head(shrunk.groups)[shrunk.used]
Pull(sk) ==
  LET shrunk == Shrink(sk)
  IN  [groups |-> shrunk.groups, used |-> shrunk.used - 1, len |-> shrunk.len - 1]

(* The loop of the three push_many: those of elms that are in S.           *)
PushThose(sk, elms, S) ==
  LET pushed[i \in 0..Len(elms)] ==
        IF i = 0 THEN sk
        ELSE IF elms[i] \in S THEN Push(pushed[i - 1], elms[i]) ELSE pushed[i - 1]
  IN  pushed[Len(elms)]

PushMany(sk, elms) == PushThose(sk, elms, Range(elms))
PushManyReverse(sk, elms) == PushMany(sk, Reverse(elms))
PushManyNonNull(sk, elms, null) == PushThose(sk, elms, Range(elms) \ {null})

(* pull_many of everything: the elements as they come, and what is left.   *)
PullAll(sk) ==
  LET after[n \in 0..sk.len] == IF n = 0 THEN sk ELSE Pull(after[n - 1])
  IN  [elms |-> [n \in 1..sk.len |-> Top(after[n - 1])], rest |-> after[sk.len]]

DeleteAll(sk, bad) ==
  LET all == PullAll(sk)
  IN  PushManyReverse(all.rest, Kept(all.elms, Range(all.elms) \ {bad}))

(* The elements, the next to be pulled first: those of the head group from *)
(* the last used down, then the groups below, which are full.              *)
Contents(sk) ==
  [i \in 1..sk.len |->
     IF i <= sk.used THEN sk.groups[1][sk.used - i + 1]
     ELSE LET below == i - sk.used - 1
          IN  sk.groups[2 + (below \div GroupLength)]
                       [GroupLength - (below % GroupLength)]]
=============================================================================
