----------------------------- MODULE TokenBucket ----------------------------
(***************************************************************************)
(* token_bucket.c among threads of the switch: tokens trickle in, up to a  *)
(* limit, and threads obtain some or slumber until there are enough.       *)
(*                                                                         *)
(* Threads are as in Scheduler, cut to what matters here; a step is what   *)
(* runs between two calls that can switch.  Submits stay below the width   *)
(* of uintptr_t.                                                           *)
(*                                                                         *)
(* A cleanup handler gets the thread that runs the destruct (switch.c      *)
(* 736), not the one that is destructed: obtain's handler takes the wrong  *)
(* thread out of qu_wait, where a pointer to a freed thread is left until  *)
(* the next submit.                                                        *)
(***************************************************************************)
EXTENDS Naturals, Sequences, FiniteSets, Functions, Filters

CONSTANTS Threads,       \* thread structures, reused after a destruct
          Limit,         \* tb->lim
          MaxAmount,     \* bound of the model on what is asked for or given
          TrickleEvery,  \* tb->trickle_every
          MaxWait        \* bound of the model on the length of qu_wait

ASSUME BucketAssumption ==
  Limit \in Nat /\ MaxAmount \in Nat /\ TrickleEvery \in Nat \ {0}

VARIABLES
  amt,            \* tb->amt
  trickle_count,  \* tb->trickle_count
  qu_wait,        \* tb->qu_wait, the next to be pulled first
  status,         \* where the switch has each thread
  need,           \* tokens a thread is inside obtain for; 0 outside
  aborted         \* LB_ASSURE failed on a freed thread

vars == <<amt, trickle_count, qu_wait, status, need, aborted>>

(* zombie: destructed while on the runnable list.                          *)
Status == {"absent", "ready", "running", "asleep", "away", "zombie"}

TypeOK ==
  /\ amt \in 0..Limit
  /\ trickle_count \in 0..(TrickleEvery - 1)
  /\ qu_wait \in Seq(Threads)
  /\ status \in [Threads -> Status]
  /\ need \in [Threads -> 0..MaxAmount]
  /\ aborted \in BOOLEAN

Init ==
  /\ amt = 0 /\ trickle_count = 0
  /\ qu_wait = <<>>
  /\ status = [t \in Threads |-> "ready"]
  /\ need = [t \in Threads |-> 0]
  /\ aborted = FALSE

Running(t) == status[t] = "running"
LoopRuns == \A t \in Threads : ~Running(t)

(* A running thread on its own account: not just woken inside obtain.      *)
InClientCode(t) == Running(t) /\ need[t] = 0

(* Mutant: tokens over the limit are kept.                                 *)
BugFill(n) == amt + n
Fill(n) == IF amt + n <= Limit THEN amt + n ELSE Limit

(* Mutant: wakes the thread that waits longest only.                       *)
BugWakeAll ==
  /\ status' = [t \in Threads |->
       IF qu_wait # <<>> /\ t = Head(qu_wait) THEN "ready" ELSE status[t]]
  /\ qu_wait' = IF qu_wait = <<>> THEN <<>> ELSE Tail(qu_wait)
  /\ UNCHANGED aborted

(* Everyone in the queue is disturbed.  Of a freed structure the first     *)
(* word, which was sw, links the allocator's free list, and the LB_ASSURE  *)
(* of lb_switch_disturb fails.                                             *)
WakeAll ==
  /\ status' = [t \in Threads |->
       IF t \in Range(qu_wait) /\ status[t] = "asleep" THEN "ready" ELSE status[t]]
  /\ qu_wait' = <<>>
  /\ aborted' = \E t \in Range(qu_wait) : status[t] = "absent"

Add(n) == amt' = Fill(n) /\ WakeAll

(* lb_token_bucket_submit, and its by_switch variant.                      *)
Submit(n) ==
  /\ LoopRuns \/ \E t \in Threads : InClientCode(t)
  /\ Add(n)
  /\ UNCHANGED <<trickle_count, need>>

TrickleDue == trickle_count + 1 >= TrickleEvery

(* lb_token_bucket_submit_trickle_by_switch.                               *)
Trickle ==
  /\ LoopRuns \/ \E t \in Threads : InClientCode(t)
  /\ IF TrickleDue
     THEN trickle_count' = 0 /\ Add(1)
     ELSE /\ trickle_count' = trickle_count + 1
          /\ UNCHANGED <<amt, qu_wait, status, aborted>>
  /\ UNCHANGED <<need>>

Create(t) ==
  /\ LoopRuns \/ \E u \in Threads : InClientCode(u)
  /\ status[t] = "absent"
  /\ status' = [status EXCEPT ![t] = "ready"]
  /\ UNCHANGED <<amt, trickle_count, qu_wait, need, aborted>>

Dispatch(t) ==
  /\ LoopRuns
  /\ status[t] = "ready"
  /\ status' = [status EXCEPT ![t] = "running"]
  /\ UNCHANGED <<amt, trickle_count, qu_wait, need, aborted>>

(* The event loop frees a zombie it finds on the runnable list.            *)
FreeZombie(t) ==
  /\ LoopRuns
  /\ status[t] = "zombie"
  /\ status' = [status EXCEPT ![t] = "absent"]
  /\ UNCHANGED <<amt, trickle_count, qu_wait, need, aborted>>

(* The thread blocks on something else and comes back.                     *)
GoAway(t) ==
  /\ InClientCode(t)
  /\ status' = [status EXCEPT ![t] = "away"]
  /\ UNCHANGED <<amt, trickle_count, qu_wait, need, aborted>>

ComeBack(t) ==
  /\ status[t] = "away"
  /\ status' = [status EXCEPT ![t] = "ready"]
  /\ UNCHANGED <<amt, trickle_count, qu_wait, need, aborted>>

(* The turns of the loop in lb_token_bucket_obtain: n tokens are asked for *)
(* by client code, or still asked for by a thread that was woken.          *)
Asks(t, n) == Running(t) /\ n > 0 /\ (need[t] = 0 \/ need[t] = n)

ObtainTake(t, n) ==
  /\ Asks(t, n)
  /\ amt >= n
  /\ amt' = amt - n
  /\ need' = [need EXCEPT ![t] = 0]
  /\ UNCHANGED <<trickle_count, qu_wait, status, aborted>>

(* Mutant: a thread woken for too few tokens sleeps on without a word.     *)
BugObtainWait(t, n) ==
  /\ Asks(t, n)
  /\ amt < n
  /\ Len(qu_wait) < MaxWait
  /\ qu_wait' = IF need[t] = 0 THEN Append(qu_wait, t) ELSE qu_wait
  /\ status' = [status EXCEPT ![t] = "asleep"]
  /\ need' = [need EXCEPT ![t] = n]
  /\ UNCHANGED <<amt, trickle_count, aborted>>

ObtainWait(t, n) ==
  /\ Asks(t, n)
  /\ amt < n
  /\ Len(qu_wait) < MaxWait
  /\ qu_wait' = Append(qu_wait, t)
  /\ status' = [status EXCEPT ![t] = "asleep"]
  /\ need' = [need EXCEPT ![t] = n]
  /\ UNCHANGED <<amt, trickle_count, aborted>>

(* lbi_token_bucket_obtain_cleanup_proc, run by thread u: registered       *)
(* exactly while t slumbers in obtain.                                     *)
RunHandler(u, t) ==
  IF need[t] > 0 THEN Kept(qu_wait, Threads \ {u}) ELSE qu_wait

(* Thread u destructs t.                                                   *)
Destruct(u, t) ==
  /\ InClientCode(u)
  /\ status[t] \notin {"absent", "zombie"}
  /\ qu_wait' = RunHandler(u, t)
  /\ status' = [status EXCEPT ![t] = IF @ = "ready" THEN "zombie" ELSE "absent"]
  /\ need' = [need EXCEPT ![t] = 0]
  /\ UNCHANGED <<amt, trickle_count, aborted>>

(* lb_token_bucket_delete, once nobody uses the bucket, and                *)
(* lb_token_bucket_create.                                                 *)
Renew ==
  /\ LoopRuns \/ \E t \in Threads : InClientCode(t)
  /\ \A t \in Threads : need[t] = 0
  /\ amt' = 0 /\ trickle_count' = 0
  /\ qu_wait' = <<>>
  /\ UNCHANGED <<status, need, aborted>>

Next ==
  /\ ~aborted
  /\ \/ Renew
     \/ \E n \in 1..MaxAmount : Submit(n)
     \/ Trickle
     \/ \E t \in Threads :
          \/ Create(t) \/ Dispatch(t) \/ FreeZombie(t) \/ GoAway(t) \/ ComeBack(t)
          \/ \E u \in Threads : Destruct(u, t)
          \/ \E n \in 1..MaxAmount : ObtainTake(t, n) \/ ObtainWait(t, n)

Spec == Init /\ [][Next]_vars

-----------------------------------------------------------------------------

Waiting == {t \in Threads : status[t] = "asleep"}

(* Nobody slumbers for tokens that are there: who waits needs more than    *)
(* the bucket holds, whatever was taken, submitted and destructed since,   *)
(* and a submit will find it (40-49, 74-80).                               *)
NoSleepBesideTokens ==
  \A t \in Waiting : need[t] > amt /\ t \in Range(qu_wait)
=============================================================================
