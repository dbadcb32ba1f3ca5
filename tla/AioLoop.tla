------------------------------ MODULE AioLoop -------------------------------
(***************************************************************************)
(* The hub of Aio on the event loop of switch.c: its thread waits in epoll *)
(* for the eventfd, comes back only when the loop polls, and the loop      *)
(* polls only when nobody is runnable.  The other threads, who submit the  *)
(* requests, are one variable: whether any of them runs or is on the       *)
(* runnable list.  Nobody can destruct the hub's thread, whose address     *)
(* lb_aio_hub_create keeps to itself.                                      *)
(***************************************************************************)
EXTENDS Aio

VARIABLES
  hub,      \* where the switch has the hub's thread
  clients   \* where it has the other threads: "ready" while any of them is

loopVars == <<vars, hub, clients>>

LoopInit ==
  /\ Init
  /\ hub = "ready" /\ clients \in {"ready", "away"}

(* sw->current is NULL: the event loop's own code runs.                    *)
NobodyRuns == hub # "running" /\ clients # "running"

(* Nor is anybody on the runnable list: the loop polls.                    *)
Idle == hub = "away" /\ clients = "away"

(* epoll_wait returns the eventfd's event, and perhaps those of others.    *)
PollHub ==
  /\ Idle /\ event_count > 0
  /\ hub' = "ready"
  /\ clients' \in {"ready", "away"}
  /\ UNCHANGED vars

(* It returns events of others only.                                       *)
PollClients ==
  /\ Idle
  /\ clients' = "ready"
  /\ UNCHANGED <<vars, hub>>

HubRuns ==
  /\ NobodyRuns /\ hub = "ready"
  /\ hub' = "running"
  /\ UNCHANGED <<vars, clients>>

(* lbi_aio_hub_thread, between two calls of lb_io_read_fully that wait.    *)
HubWorks == hub = "running" /\ Hub /\ UNCHANGED <<hub, clients>>

(* Nothing to read (any more): lb_io_read waits in epoll.                  *)
HubWaits ==
  /\ hub = "running" /\ place = "read" /\ event_count = 0
  /\ hub' = "away"
  /\ UNCHANGED <<vars, clients>>

ClientRuns ==
  /\ NobodyRuns /\ clients = "ready"
  /\ clients' = "running"
  /\ UNCHANGED <<vars, hub>>

ClientSubmits ==
  /\ clients = "running"
  /\ \E r \in Requests : Submit(r)
  /\ UNCHANGED <<hub, clients>>

(* Perhaps others of them are still runnable, or have been made so.        *)
ClientYields ==
  /\ clients = "running"
  /\ clients' \in {"ready", "away"}
  /\ UNCHANGED <<vars, hub>>

Kernel ==
  /\ Signal \/ \E r \in Requests : Complete(r)
  /\ UNCHANGED <<hub, clients>>

LoopNext ==
  \/ Kernel
  \/ PollHub \/ PollClients
  \/ HubRuns \/ HubWorks \/ HubWaits
  \/ ClientRuns \/ ClientSubmits \/ ClientYields

LoopSpec == LoopInit /\ [][LoopNext]_loopVars

(* The kernel completes and signals what it was given, and a loop that     *)
(* comes to poll again and again reports the eventfd: registrations are    *)
(* level triggered.  Nothing is assumed of the threads.                    *)
Fairness ==
  /\ \A r \in Requests : WF_vars(Complete(r))
  /\ WF_vars(Signal)
  /\ SF_loopVars(PollHub)

FairSpec == LoopSpec /\ Fairness

-----------------------------------------------------------------------------

(* As long as the loop comes to poll again and again, which it does not if *)
(* threads keep each other runnable (switch.c 106-112), every request      *)
(* submitted is delivered in the end: of those that wait for a place in    *)
(* the kernel none is forgotten, and the eventfd's events, of which the    *)
(* hub's thread takes many at once, wake it often enough (aio.c 81-107).   *)
AllDelivered == []<>Idle => \A r \in Requests : r \notin fresh ~> r \in qu_out
=============================================================================
