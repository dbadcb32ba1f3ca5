------------------------------ MODULE WorkQueue -----------------------------
(***************************************************************************)
(* work_queue.c among threads of the switch.  A worker obtains an item,    *)
(* registers lb_work_queue_resubmit for it as a cleanup handler at once,   *)
(* works on it, and pulls the handler when it is done.  Anybody submits,   *)
(* the event loop's improver included, and any running thread destructs    *)
(* any other or itself.                                                    *)
(*                                                                         *)
(* Threads are as in Scheduler, cut to what matters here; a step is what   *)
(* runs between two calls that can switch.  The queue of work is a         *)
(* sequence, which Queue shows queue.c to implement.                       *)
(*                                                                         *)
(* A cleanup handler gets the thread that runs the destruct (switch.c      *)
(* 736), not the one that is destructed: obtain's handler takes the wrong  *)
(* thread off sk_wait.  A pointer to a freed thread stays there until it   *)
(* is pulled, or matches whoever has the structure by then.                *)
(***************************************************************************)
EXTENDS SequencesExt, Filters

CONSTANTS Threads,        \* thread structures, reused after a destruct
          Work,           \* items; each is submitted at most once
          Unwait,         \* the handler of obtain, against handlers of items
          MaxWait         \* bound of the model on the length of sk_wait

ASSUME UnwaitAssumption == Unwait \notin Work

VARIABLES
  work,       \* wq->qu_work, the next item out first
  sk_wait,    \* wq->sk_wait, its top first
  status,     \* where the switch has each thread
  obtaining,  \* the threads inside lb_work_queue_obtain
  handlers,   \* each thread's cleanup handlers, the last pushed last
  fresh,      \* items not submitted yet
  done,       \* items that were worked on to the end
  aborted,    \* LB_ASSURE failed on a freed thread
  casualties  \* history: who was destructed inside obtain of this queue

vars == <<work, sk_wait, status, obtaining, handlers, fresh, done, aborted,
          casualties>>

(* zombie: destructed while on the runnable list.                          *)
Status == {"absent", "ready", "running", "asleep", "away", "zombie"}

Init ==
  /\ work = <<>> /\ sk_wait = <<>>
  /\ status = [t \in Threads |-> "ready"]
  /\ obtaining = {}
  /\ handlers = [t \in Threads |-> <<>>]
  /\ fresh = Work /\ done = {}
  /\ aborted = FALSE
  /\ casualties = {}

Running(t) == status[t] = "running"
LoopRuns == \A t \in Threads : ~Running(t)

(* A running thread on its own account: not just woken inside obtain.      *)
InClientCode(t) == Running(t) /\ t \notin obtaining

(* What the queue's procedures change, as one record that they pass on.    *)
Queues == [work |-> work, wait |-> sk_wait, status |-> status, aborted |-> aborted]
Becomes(q) ==
  work' = q.work /\ sk_wait' = q.wait /\ status' = q.status /\ aborted' = q.aborted

(* Mutant: the thread is not disturbed.                                    *)
BugDisturb(q, t) == q

(* lb_switch_disturb: of a freed structure the first word, which was sw,   *)
(* links the allocator's free list, and LB_ASSURE fails.                   *)
Disturb(q, t) ==
  [q EXCEPT !.status[t] = IF @ = "asleep" THEN "ready" ELSE @,
            !.aborted = @ \/ q.status[t] = "absent"]

(* Mutant: the waiter stays on the stack.                                  *)
BugKick(q) == IF q.wait = <<>> THEN q ELSE Disturb(q, Head(q.wait))

(* "kick exactly one waiting thread (if any)"                              *)
Kick(q) ==
  IF q.wait = <<>> THEN q
  ELSE Disturb([q EXCEPT !.wait = Tail(@)], Head(q.wait))

(* lb_work_queue_submit and its by_switch variant.                         *)
Submit(i) ==
  /\ LoopRuns \/ \E t \in Threads : InClientCode(t)
  /\ i \in fresh
  /\ fresh' = fresh \ {i}
  /\ Becomes(Kick([Queues EXCEPT !.work = Append(@, i)]))
  /\ UNCHANGED <<obtaining, handlers, done, casualties>>

(* Mutant: forgets to put the item back.                                   *)
BugResubmit(q, i) == Kick(q)

(* lb_work_queue_resubmit: to the front of the queue.                      *)
Resubmit(q, i) == Kick([q EXCEPT !.work = <<i>> \o @])

Create(t) ==
  /\ LoopRuns \/ \E u \in Threads : InClientCode(u)
  /\ status[t] = "absent"
  /\ status' = [status EXCEPT ![t] = "ready"]
  /\ UNCHANGED <<work, sk_wait, obtaining, handlers, fresh, done, aborted, casualties>>

Dispatch(t) ==
  /\ LoopRuns
  /\ status[t] = "ready"
  /\ status' = [status EXCEPT ![t] = "running"]
  /\ UNCHANGED <<work, sk_wait, obtaining, handlers, fresh, done, aborted, casualties>>

(* The event loop frees a zombie it finds on the runnable list.            *)
FreeZombie(t) ==
  /\ LoopRuns
  /\ status[t] = "zombie"
  /\ status' = [status EXCEPT ![t] = "absent"]
  /\ UNCHANGED <<work, sk_wait, obtaining, handlers, fresh, done, aborted, casualties>>

(* The thread blocks on something else and comes back.                     *)
GoAway(t) ==
  /\ InClientCode(t)
  /\ status' = [status EXCEPT ![t] = "away"]
  /\ UNCHANGED <<work, sk_wait, obtaining, handlers, fresh, done, aborted, casualties>>

ComeBack(t) ==
  /\ status[t] = "away"
  /\ status' = [status EXCEPT ![t] = "ready"]
  /\ UNCHANGED <<work, sk_wait, obtaining, handlers, fresh, done, aborted, casualties>>

(* The turns of the loop in lb_work_queue_obtain.  A thread that slumbered *)
(* there has the loop's handler on top and pulls it first.                 *)
OwnHandlers(t) == IF t \in obtaining THEN Front(handlers[t]) ELSE handlers[t]

ObtainItem(t) ==
  /\ Running(t)
  /\ work # <<>>
  /\ work' = Tail(work)
  /\ handlers' = [handlers EXCEPT ![t] = Append(OwnHandlers(t), Head(work))]
  /\ obtaining' = obtaining \ {t}
  /\ UNCHANGED <<sk_wait, status, fresh, done, aborted, casualties>>

ObtainWait(t) ==
  /\ Running(t)
  /\ work = <<>>
  /\ Len(sk_wait) < MaxWait
  /\ sk_wait' = <<t>> \o sk_wait
  /\ handlers' = [handlers EXCEPT ![t] = Append(OwnHandlers(t), Unwait)]
  /\ status' = [status EXCEPT ![t] = "asleep"]
  /\ obtaining' = obtaining \cup {t}
  /\ UNCHANGED <<work, fresh, done, aborted, casualties>>

(* The item obtained last is done and its handler pulled.                  *)
Finish(t) ==
  /\ InClientCode(t) /\ handlers[t] # <<>>
  /\ done' = done \cup {Last(handlers[t])}
  /\ handlers' = [handlers EXCEPT ![t] = Front(@)]
  /\ UNCHANGED <<work, sk_wait, status, obtaining, fresh, aborted, casualties>>

(* lbi_work_queue_obtain_cleanup_proc or lb_work_queue_resubmit, run by    *)
(* thread u.                                                               *)
RunHandler(u, q, h) ==
  IF h = Unwait
  THEN [q EXCEPT !.wait = Kept(@, Threads \ {u})]
  ELSE Resubmit(q, h)

(* All handlers of thread t, the last pushed first.                        *)
AfterHandlers(u, t) ==
  LET hs == handlers[t]
      after[n \in 0..Len(hs)] ==
        IF n = 0 THEN Queues
        ELSE RunHandler(u, after[n - 1], hs[Len(hs) + 1 - n])
  IN  after[Len(hs)]

(* A thread that slumbers in obtain, or one that was kicked and has not    *)
(* run since.                                                              *)
Casualty(t) ==
  IF t \notin obtaining THEN {}
  ELSE IF status[t] = "asleep" THEN {"waiter"} ELSE {"kicked"}

(* Thread u destructs t.                                                   *)
Destruct(u, t) ==
  /\ InClientCode(u)
  /\ status[t] \notin {"absent", "zombie"}
  /\ Becomes([AfterHandlers(u, t) EXCEPT
                !.status[t] = IF @ = "ready" THEN "zombie" ELSE "absent"])
  /\ handlers' = [handlers EXCEPT ![t] = <<>>]
  /\ obtaining' = obtaining \ {t}
  /\ casualties' = casualties \cup Casualty(t)
  /\ UNCHANGED <<fresh, done>>

(* lb_work_queue_delete, once nobody uses the queue and it holds nothing,  *)
(* and lb_work_queue_create: stale pointers end with the stack.            *)
Renew ==
  /\ LoopRuns \/ \E t \in Threads : InClientCode(t)
  /\ obtaining = {} /\ work = <<>>
  /\ \A t \in Threads : handlers[t] = <<>>
  /\ sk_wait' = <<>>
  /\ casualties' = {}
  /\ UNCHANGED <<work, status, obtaining, handlers, fresh, done, aborted>>

Next ==
  /\ ~aborted
  /\ \/ Renew
     \/ \E i \in Work : Submit(i)
     \/ \E t \in Threads :
          \/ Create(t) \/ Dispatch(t) \/ FreeZombie(t) \/ GoAway(t) \/ ComeBack(t)
          \/ ObtainItem(t) \/ ObtainWait(t) \/ Finish(t)
          \/ \E u \in Threads : Destruct(u, t)

Spec == Init /\ [][Next]_vars

-----------------------------------------------------------------------------

Waiting == {t \in obtaining : status[t] = "asleep"}

(* Threads that were kicked in obtain and have not run since.              *)
Kicked == {t \in obtaining : status[t] \in {"ready", "running"}}

(* The items whose handlers are registered for thread t.                   *)
Held(t) == Range(handlers[t]) \ {Unwait}

(* A submitted item is queued once, or one live worker has it with the     *)
(* handler that will put it back, or it is done: destructing workers at    *)
(* any moment neither loses work nor does it twice (66-90, 99-113).        *)
WorkConserved ==
  /\ \A i \in Work :
       i \in fresh \cup done \cup Range(work) \/ \E t \in Threads : i \in Held(t)
  /\ fresh \cap done = {} /\ Range(work) \cap (fresh \cup done) = {}
  /\ \A t \in Threads : Held(t) \cap (fresh \cup done \cup Range(work)) = {}
  /\ \A t, u \in Threads : t # u => Held(t) \cap Held(u) = {}
  /\ IsInjective(work) /\ \A t \in Threads : IsInjective(handlers[t])

(* No thread that slumbers in obtain is unknown to the queue, whatever     *)
(* stale pointers surround it and whichever thread they disturb (92-112).  *)
WaitersKnown == Waiting \subseteq Range(sk_wait)

(* The stack of waiters holds each thread that slumbers in obtain once,    *)
(* and no other: a kick never goes to a freed thread, nor to one that is   *)
(* about something else (47-50, 107-111).  It holds for as long as nobody  *)
(* destructs a thread that slumbers there.                                 *)
WaitersExact ==
  "waiter" \notin casualties => IsInjective(sk_wait) /\ Range(sk_wait) = Waiting

(* Work and waiters stay apart: while threads slumber in obtain, every     *)
(* queued item has a kicked thread on its way (44-50, 76-82).  It holds    *)
(* for as long as kicked threads are left alone too: one that is           *)
(* destructed before it runs takes the kick with it.                       *)
NoIdleWork ==
  casualties = {} /\ sk_wait # <<>> => Len(work) <= Cardinality(Kicked)

(* "kick exactly one waiting thread (if any)" (45): who is kicked waits.   *)
KickFindsWaiter == sk_wait # <<>> => Head(sk_wait) \in Waiting
=============================================================================
