----------------------------- MODULE Scheduler -----------------------------
(***************************************************************************)
(* What the switch of switch.c promises to the code that uses it, with     *)
(* lists, pages, epoll and the nesting of destructs left out.              *)
(*                                                                         *)
(* A thread is created ready; one thread at a time runs; the running       *)
(* thread can fall asleep (slumber) or wait for a descriptor (epoll_wait)  *)
(* and becomes ready again when it is disturbed or its descriptor is.  A   *)
(* thread can be destructed in any state.  From then on it never runs as a *)
(* live thread again; every cleanup handler it still owes runs; only then  *)
(* is its memory released.  Switch implements this module.                 *)
(***************************************************************************)
EXTENDS Naturals

CONSTANTS Threads,      \* thread structures (memory that can be reused)
          CleanupLimit  \* LB_SWITCH_CLEANUP_LIMIT

VARIABLES status,       \* what each thread is doing
          owed          \* cleanup handlers each thread still has to see run

vars == <<status, owed>>

Status == {"absent", "ready", "running", "asleep", "waiting", "dying"}

Init ==
  /\ status = [t \in Threads |-> "absent"]
  /\ owed = [t \in Threads |-> 0]

Move(t, from, to) ==
  /\ status[t] = from
  /\ status' = [status EXCEPT ![t] = to]

Owe(t, n) == owed' = [owed EXCEPT ![t] = n]

Create(t) == Move(t, "absent", "ready") /\ Owe(t, 0)

Dispatch(t) ==
  /\ \A u \in Threads : status[u] # "running"
  /\ Move(t, "ready", "running")
  /\ UNCHANGED owed

Block(t) ==
  /\ Move(t, "running", "asleep") \/ Move(t, "running", "waiting")
  /\ UNCHANGED owed

Wake(t) ==
  /\ Move(t, "asleep", "ready") \/ Move(t, "waiting", "ready")
  /\ UNCHANGED owed

Register(t) ==
  /\ status[t] = "running" /\ owed[t] < CleanupLimit
  /\ Owe(t, owed[t] + 1)
  /\ UNCHANGED status

Unregister(t) ==
  /\ status[t] = "running" /\ owed[t] > 0
  /\ Owe(t, owed[t] - 1)
  /\ UNCHANGED status

Destruct(t) ==
  /\ status[t] \notin {"absent", "dying"}
  /\ status' = [status EXCEPT ![t] = "dying"]
  /\ UNCHANGED owed

RunCleanup(t) ==
  /\ status[t] = "dying" /\ owed[t] > 0
  /\ Owe(t, owed[t] - 1)
  /\ UNCHANGED status

Release(t) ==
  /\ owed[t] = 0
  /\ Move(t, "dying", "absent")
  /\ UNCHANGED owed

Next == \E t \in Threads :
  \/ Create(t) \/ Dispatch(t) \/ Block(t) \/ Wake(t)
  \/ Register(t) \/ Unregister(t)
  \/ Destruct(t) \/ RunCleanup(t) \/ Release(t)

Spec == Init /\ [][Next]_vars
=============================================================================
