--------------------------------- MODULE Aio --------------------------------
(***************************************************************************)
(* aio.c: a hub that keeps at most Max requests with the kernel, queues    *)
(* the others, and learns of completions from an eventfd that its thread   *)
(* reads.                                                                  *)
(*                                                                         *)
(* The kernel runs beside the process: it completes a request by adding an *)
(* event to the ring of the context and then signalling the eventfd.  The  *)
(* hub's thread gives way only in lb_io_read_fully, so nobody submits      *)
(* while it reaps and resubmits.  When that thread gets its turn is the    *)
(* matter of AioLoop.                                                      *)
(***************************************************************************)
EXTENDS Naturals, Sequences, FiniteSets, Functions

CONSTANTS Requests,  \* each is submitted at most once
          Max        \* ah->max, which is also what io_setup was asked for

ASSUME MaxAssumption == Max \in Nat \ {0}
ASSUME RequestsAssumption == IsFiniteSet(Requests)

VARIABLES
  fresh,        \* requests not submitted yet
  qu_wtg,       \* ah->qu_wtg: requests that wait for a place in the kernel
  inflight,     \* the kernel works on them
  ring,         \* completed: events the process has not reaped
  unsignalled,  \* how many of them the eventfd does not count yet
  event_count,  \* the counter of ah->fd_event
  nfl,          \* ah->nfl
  place,        \* where the hub's thread is
  num,          \* events it still has to reap
  amt,          \* requests it still has to resubmit
  qu_out        \* requests delivered to the client's queue

kernelVars == <<inflight, ring, unsignalled, event_count>>
hubVars == <<place, num, amt>>
vars == <<fresh, qu_wtg, kernelVars, nfl, hubVars, qu_out>>

(* read: in lb_io_read_fully, and the only place where others run.         *)
Places == {"read", "reap", "resubmit"}

TypeOK ==
  /\ fresh \in SUBSET Requests
  /\ qu_wtg \in Seq(Requests)
  /\ inflight \in SUBSET Requests
  /\ ring \in SUBSET Requests
  /\ unsignalled \in Nat
  /\ event_count \in Nat
  /\ nfl \in Nat
  /\ place \in Places
  /\ num \in Nat
  /\ amt \in Nat
  /\ qu_out \in SUBSET Requests

Init ==
  /\ fresh = Requests
  /\ qu_wtg = <<>>
  /\ inflight = {} /\ ring = {} /\ unsignalled = 0 /\ event_count = 0
  /\ nfl = 0
  /\ place = "read" /\ num = 0 /\ amt = 0
  /\ qu_out = {}

Smaller(m, n) == IF m <= n THEN m ELSE n

-----------------------------------------------------------------------------
(* The kernel.                                                             *)

Complete(r) ==
  /\ r \in inflight
  /\ inflight' = inflight \ {r}
  /\ ring' = ring \cup {r}
  /\ unsignalled' = unsignalled + 1
  /\ UNCHANGED <<fresh, qu_wtg, event_count, nfl, hubVars, qu_out>>

Signal ==
  /\ unsignalled > 0
  /\ unsignalled' = unsignalled - 1
  /\ event_count' = event_count + 1
  /\ UNCHANGED <<fresh, qu_wtg, inflight, ring, nfl, hubVars, qu_out>>

-----------------------------------------------------------------------------
(* The hub.                                                                *)

(* Mutant: one request too many.                                           *)
BugRoom == nfl <= Max
Room == nfl < Max

(* lbi_aio_hub_submit, for a read, a write or a sync.                      *)
Submit(r) ==
  /\ place = "read"
  /\ r \in fresh
  /\ fresh' = fresh \ {r}
  /\ IF Room
     THEN /\ inflight' = inflight \cup {r}
          /\ nfl' = nfl + 1
          /\ UNCHANGED qu_wtg
     ELSE /\ qu_wtg' = Append(qu_wtg, r)
          /\ UNCHANGED <<inflight, nfl>>
  /\ UNCHANGED <<ring, unsignalled, event_count, hubVars, qu_out>>

(* The read returns the counter and resets it.                             *)
ReadEvents ==
  /\ place = "read"
  /\ event_count > 0
  /\ num' = event_count
  /\ event_count' = 0
  /\ place' = "reap"
  /\ UNCHANGED <<fresh, qu_wtg, inflight, ring, unsignalled, nfl, amt, qu_out>>

(* Mutant: looks at the queue before the events are counted down.          *)
BugFreed(k) == Smaller(Len(qu_wtg), Max - nfl)
(* What is resubmitted after reaping k events.                             *)
Freed(k) == Smaller(Len(qu_wtg), Max - (nfl - k))

(* io_getevents(num, num): all num events, or fewer if a signal interrupts *)
(* it.                                                                     *)
Reap ==
  /\ place = "reap"
  /\ \E events \in SUBSET ring :
       LET k == Cardinality(events)
       IN  /\ 0 < k /\ k <= num
           /\ ring' = ring \ events
           /\ num' = num - k
           /\ nfl' = nfl - k
           /\ qu_out' = qu_out \cup events
           /\ amt' = Freed(k)
  /\ place' = "resubmit"
  /\ UNCHANGED <<fresh, qu_wtg, inflight, unsignalled, event_count>>

(* Mutant: does not count the request it hands on.                         *)
BugCount == nfl
CountUp == nfl + 1

(* Mutant: looks at the queue's next request and leaves it there.          *)
BugResubmit ==
  /\ place = "resubmit" /\ amt > 0
  /\ amt' = amt - 1
  /\ inflight' = inflight \cup {Head(qu_wtg)}
  /\ nfl' = CountUp
  /\ UNCHANGED <<fresh, qu_wtg, ring, unsignalled, event_count, place, num, qu_out>>

Resubmit ==
  /\ place = "resubmit" /\ amt > 0
  /\ amt' = amt - 1
  /\ inflight' = inflight \cup {Head(qu_wtg)}
  /\ qu_wtg' = Tail(qu_wtg)
  /\ nfl' = CountUp
  /\ UNCHANGED <<fresh, ring, unsignalled, event_count, place, num, qu_out>>

(* Mutant: back to the read before all events of it are reaped.            *)
BugNextPlace == "read"
NextPlace == IF num > 0 THEN "reap" ELSE "read"

ResubmitDone ==
  /\ place = "resubmit" /\ amt = 0
  /\ place' = NextPlace
  /\ UNCHANGED <<fresh, qu_wtg, kernelVars, nfl, num, amt, qu_out>>

Hub == ReadEvents \/ Reap \/ Resubmit \/ ResubmitDone

Next ==
  \/ \E r \in Requests : Submit(r) \/ Complete(r)
  \/ Signal
  \/ Hub

Spec == Init /\ [][Next]_vars

-----------------------------------------------------------------------------

Waiting == Range(qu_wtg)

(* nfl is what the kernel holds for the context, never more than io_setup  *)
(* was asked for: LB_ASSURE(io_submit == 1) (49) cannot fail for want of   *)
(* room, and max - nfl (83) does not wrap around.                          *)
NflExact ==
  /\ nfl = Cardinality(inflight) + Cardinality(ring)
  /\ nfl <= Max

(* The eventfd's counter and num never promise more events than the ring   *)
(* holds: io_getevents, which would block every thread of the process,     *)
(* returns at once (59-66, 102-105).                                       *)
NeverBlocks ==
  Cardinality(ring) = event_count + num + unsignalled

(* Each request is in one place: none is lost between the queue and the    *)
(* kernel, and none is delivered twice.                                    *)
EachOnce ==
  /\ IsInjective(qu_wtg)
  /\ Requests = fresh \cup Waiting \cup inflight \cup ring \cup qu_out
  /\ fresh \cap (Waiting \cup inflight \cup ring \cup qu_out) = {}
  /\ Waiting \cap (inflight \cup ring \cup qu_out) = {}
  /\ inflight \cap (ring \cup qu_out) = {}
  /\ ring \cap qu_out = {}

(* A request waits only while the kernel is full: no slot that was freed   *)
(* stays unused (81-92, 136-149).                                          *)
NoIdleSlot ==
  IF place = "resubmit"
  THEN amt = Smaller(Len(qu_wtg), Max - nfl)
  ELSE qu_wtg # <<>> => nfl = Max
=============================================================================
