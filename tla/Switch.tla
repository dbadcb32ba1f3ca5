------------------------------- MODULE Switch -------------------------------
(***************************************************************************)
(* The scheduler core of libaboon, switch.c: cooperative threads, the      *)
(* stack of runnable threads, the event loop with its improver and epoll,  *)
(* and the nested destruction of threads with their cleanup handlers.      *)
(*                                                                         *)
(* The code a thread runs between two calls of the switch, and the body of *)
(* an opaque cleanup handler (User), are any sequence of legal calls.      *)
(* Legal means: the thread pointer passed in is live and was not           *)
(* destructed before, a descriptor waited for is open, owned by the        *)
(* waiting thread and waited for by nobody else, and a cleanup handler     *)
(* neither slumbers nor waits.  These are guards below.  An LB_ASSURE that *)
(* the switch owes to itself is not a guard: it is a conjunct of Assures.  *)
(***************************************************************************)
EXTENDS Naturals, Sequences, FiniteSets, Functions

CONSTANTS Threads,       \* lb_thread_t structures; a freed one is reused
          Fds,           \* descriptors that can be open
          NoThread,      \* the NULL thread pointer
          NoFd,          \* "epoll is not enabled"
          User,          \* a cleanup handler that is opaque client code
          CleanupLimit,  \* LB_SWITCH_CLEANUP_LIMIT
          EventBatch     \* LB_SWITCH_SIMULTANEOUS_EVENTS

ASSUME NullsAssumption ==
  /\ NoThread \notin Threads
  /\ NoFd \notin Fds
  /\ User \notin Fds
ASSUME LimitsAssumption ==
  /\ IsFiniteSet(Fds)
  /\ CleanupLimit \in Nat
  /\ EventBatch \in Nat \ {0}

VARIABLES
  alive,              \* allocated thread structures
  runnable,           \* th->runnable
  slumber_enabled,    \* th->slumber_enabled
  epoll_fd,           \* th->epoll_fd, or NoFd while !th->epoll_enabled
  destruct_enabled,   \* th->destruct_enabled
  zombie,             \* th->hiber_page_list is NULL
  cleanup_stack,      \* th->cleanup_stack_arr up to cleanup_stack_len
  runnable_list,      \* sw->runnable_list, its top first
  current,            \* sw->current
  destruct_me,        \* sw->destruct_me
  frames,             \* active calls of lb_switch_destruct_thread, innermost
                      \* first; sw->destruct_nesting is their number
  epoll_nr,           \* sw->epoll_nr
  events,             \* events of the last epoll_wait still to be handled
  pc,                 \* where the switch is
  watch,              \* the kernel's epoll set: the thread told about a fd
  open                \* the kernel's open descriptors

threadVars == <<alive, runnable, slumber_enabled, epoll_fd, destruct_enabled,
                zombie, cleanup_stack>>
kernelVars == <<watch, open>>
vars == <<threadVars, runnable_list, current, destruct_me, frames, epoll_nr,
          events, pc, kernelVars>>

Handler == Fds \cup {User}
Frame == [target : Threads, left : 0..CleanupLimit, in_handler : BOOLEAN]

(* main: lb_switch_initialize ran, the event loop is not entered yet.      *)
(* top, run, improve, poll, events: the places of the event loop.          *)
(* thread: code of the current thread.  leave: the current thread has      *)
(* switched to the event loop.                                             *)
Places ==
  {"main", "top", "run", "thread", "leave", "improve", "poll", "events", "exited"}

TypeOK ==
  /\ alive \in SUBSET Threads
  /\ runnable \in [Threads -> BOOLEAN]
  /\ slumber_enabled \in [Threads -> BOOLEAN]
  /\ epoll_fd \in [Threads -> Fds \cup {NoFd}]
  /\ destruct_enabled \in [Threads -> BOOLEAN]
  /\ zombie \in [Threads -> BOOLEAN]
  /\ cleanup_stack \in [Threads -> Seq(Handler)]
  /\ \A t \in Threads : Len(cleanup_stack[t]) <= CleanupLimit
  /\ runnable_list \in Seq(Threads)
  /\ current \in Threads \cup {NoThread}
  /\ destruct_me \in BOOLEAN
  /\ frames \in Seq(Frame)
  /\ epoll_nr \in Int
  /\ events \in Seq(Fds)
  /\ pc \in Places
  /\ watch \in [Fds -> Threads \cup {NoThread}]
  /\ open \in SUBSET Fds

Init ==
  /\ alive = {}
  /\ runnable = [t \in Threads |-> FALSE]
  /\ slumber_enabled = [t \in Threads |-> FALSE]
  /\ epoll_fd = [t \in Threads |-> NoFd]
  /\ destruct_enabled = [t \in Threads |-> FALSE]
  /\ zombie = [t \in Threads |-> FALSE]
  /\ cleanup_stack = [t \in Threads |-> <<>>]
  /\ runnable_list = <<>>
  /\ current = NoThread
  /\ destruct_me = FALSE
  /\ frames = <<>>
  /\ epoll_nr = 0
  /\ events = <<>>
  /\ pc = "main"
  /\ watch = [f \in Fds |-> NoThread]
  /\ open = {}

-----------------------------------------------------------------------------
(* Pieces the operations share.                                            *)

(* The current thread executes client code: its own, or the body of the    *)
(* cleanup handler that the innermost destruct is calling.                 *)
InClientCode ==
  /\ pc = "thread"
  /\ frames # <<>> => Head(frames).in_handler

AddRunnable(t) ==
  /\ runnable' = [runnable EXCEPT ![t] = TRUE]
  /\ runnable_list' = <<t>> \o runnable_list

(* Client code, or the improver, or main before the loop, which also has   *)
(* the switch at hand and no thread.                                       *)
MayCreate == pc \in {"main", "improve"} \/ InClientCode

(* Mutants: forgets epoll_enabled = false; forgets epoll_nr--.             *)
BugStaysEnabled(t) ==
  /\ watch' = [watch EXCEPT ![epoll_fd[t]] = NoThread]
  /\ epoll_nr' = epoll_nr - 1
  /\ UNCHANGED epoll_fd
BugNoCountDown(t) ==
  /\ epoll_fd' = [epoll_fd EXCEPT ![t] = NoFd]
  /\ watch' = [watch EXCEPT ![epoll_fd[t]] = NoThread]
  /\ UNCHANGED epoll_nr

EpollDisable(t) ==
  /\ epoll_fd' = [epoll_fd EXCEPT ![t] = NoFd]
  /\ watch' = [watch EXCEPT ![epoll_fd[t]] = NoThread]
  /\ epoll_nr' = epoll_nr - 1

(* The memory goes back to the allocator.  What a free structure holds     *)
(* means nothing, so its flags get one value.                              *)
Free(t) ==
  /\ alive' = alive \ {t}
  /\ runnable' = [runnable EXCEPT ![t] = FALSE]
  /\ slumber_enabled' = [slumber_enabled EXCEPT ![t] = FALSE]
  /\ destruct_enabled' = [destruct_enabled EXCEPT ![t] = FALSE]
  /\ zombie' = [zombie EXCEPT ![t] = FALSE]
  /\ cleanup_stack' = [cleanup_stack EXCEPT ![t] = <<>>]
  /\ UNCHANGED epoll_fd

(* Mutants: frees a thread that is on the list; leaves it there alive.     *)
BugFreeListed(t) == Free(t)
BugKeepListed(t) == IF runnable[t] THEN UNCHANGED threadVars ELSE Free(t)

(* lbi_switch_destruct_thread: a thread still on the runnable list cannot  *)
(* be freed; it stays there without pages and the event loop frees it.     *)
Reap(t) ==
  IF runnable[t]
  THEN /\ zombie' = [zombie EXCEPT ![t] = TRUE]
       /\ UNCHANGED <<alive, runnable, slumber_enabled, epoll_fd,
                      destruct_enabled, cleanup_stack>>
  ELSE Free(t)

-----------------------------------------------------------------------------
(* Calls of client code.                                                   *)

CreateThread(t) ==
  /\ MayCreate
  /\ t \notin alive
  /\ alive' = alive \cup {t}
  /\ slumber_enabled' = [slumber_enabled EXCEPT ![t] = FALSE]
  /\ epoll_fd' = [epoll_fd EXCEPT ![t] = NoFd]
  /\ destruct_enabled' = [destruct_enabled EXCEPT ![t] = FALSE]
  /\ zombie' = [zombie EXCEPT ![t] = FALSE]
  /\ cleanup_stack' = [cleanup_stack EXCEPT ![t] = <<>>]
  /\ AddRunnable(t)
  /\ UNCHANGED <<current, destruct_me, frames, epoll_nr, events, pc, kernelVars>>

(* lb_switch_disturb and lb_switch_disturb_by_switch, on a thread that     *)
(* slumbers; on any other thread they do nothing.                          *)
Disturb(t) ==
  /\ pc = "improve" \/ InClientCode
  /\ t \in alive /\ ~zombie[t]
  /\ slumber_enabled[t]
  /\ slumber_enabled' = [slumber_enabled EXCEPT ![t] = FALSE]
  /\ AddRunnable(t)
  /\ UNCHANGED <<alive, epoll_fd, destruct_enabled, zombie, cleanup_stack,
                 current, destruct_me, frames, epoll_nr, events, pc, kernelVars>>

Slumber ==
  /\ InClientCode /\ frames = <<>>
  /\ slumber_enabled' = [slumber_enabled EXCEPT ![current] = TRUE]
  /\ pc' = "leave"
  /\ UNCHANGED <<alive, runnable, epoll_fd, destruct_enabled, zombie,
                 cleanup_stack, runnable_list, current, destruct_me, frames,
                 epoll_nr, events, kernelVars>>

EpollWait(f) ==
  /\ InClientCode /\ frames = <<>>
  /\ f \in open /\ watch[f] = NoThread
  /\ f \in Range(cleanup_stack[current])
  /\ epoll_fd' = [epoll_fd EXCEPT ![current] = f]
  /\ watch' = [watch EXCEPT ![f] = current]
  /\ epoll_nr' = epoll_nr + 1
  /\ pc' = "leave"
  /\ UNCHANGED <<alive, runnable, slumber_enabled, destruct_enabled, zombie,
                 cleanup_stack, runnable_list, current, destruct_me, frames,
                 events, open>>

(* Mutant: one handler too many.                                           *)
BugRoom == Len(cleanup_stack[current]) <= CleanupLimit
CleanupRoom == Len(cleanup_stack[current]) < CleanupLimit

(* The handler is opaque, or closes a descriptor just opened.              *)
PushCleanup(h) ==
  /\ InClientCode
  /\ ~destruct_enabled[current]
  /\ CleanupRoom
  /\ h \notin open
  /\ open' = open \cup ({h} \cap Fds)
  /\ cleanup_stack' = [cleanup_stack EXCEPT ![current] = Append(@, h)]
  /\ UNCHANGED <<alive, runnable, slumber_enabled, epoll_fd, destruct_enabled,
                 zombie, runnable_list, current, destruct_me, frames, epoll_nr,
                 events, pc, watch>>

(* The caller of lb_switch_pull_cleanup takes over what the handler was    *)
(* for: it closes the descriptor itself.                                   *)
PullCleanup ==
  /\ InClientCode
  /\ ~destruct_enabled[current]
  /\ LET stack == cleanup_stack[current]
     IN  /\ Len(stack) > 0
         /\ cleanup_stack' =
              [cleanup_stack EXCEPT ![current] = SubSeq(stack, 1, Len(stack) - 1)]
         /\ open' = open \ {stack[Len(stack)]}
  /\ UNCHANGED <<alive, runnable, slumber_enabled, epoll_fd, destruct_enabled,
                 zombie, runnable_list, current, destruct_me, frames, epoll_nr,
                 events, pc, watch>>

-----------------------------------------------------------------------------
(* lb_switch_destruct_thread, from the call to the switch out.             *)

(* Mutant: the loop over the handlers skips the last one pushed.           *)
BugSkipsLast(t) == IF cleanup_stack[t] = <<>> THEN 0 ELSE Len(cleanup_stack[t]) - 1
HandlersToRun(t) == Len(cleanup_stack[t])

(* Up to the cleanup handlers: the epoll registration goes first, because  *)
(* a handler may close the descriptor.                                     *)
DestructBegin(t) ==
  /\ InClientCode
  /\ t \in alive /\ ~destruct_enabled[t]
  /\ destruct_enabled' = [destruct_enabled EXCEPT ![t] = TRUE]
  /\ IF epoll_fd[t] # NoFd THEN EpollDisable(t)
                           ELSE UNCHANGED <<epoll_fd, watch, epoll_nr>>
  /\ frames' = <<[target |-> t, left |-> HandlersToRun(t),
                  in_handler |-> FALSE]>> \o frames
  /\ UNCHANGED <<alive, runnable, slumber_enabled, zombie, cleanup_stack,
                 runnable_list, current, destruct_me, events, pc, open>>

(* One turn of the loop over the handlers, last pushed first.  Closing a   *)
(* descriptor is done at once (the kernel drops it from epoll, unless a    *)
(* dup keeps the file open); an opaque handler is client code and takes as *)
(* many steps as it likes.                                                 *)
RunCleanup ==
  /\ pc = "thread"
  /\ frames # <<>> /\ ~Head(frames).in_handler /\ Head(frames).left > 0
  /\ LET f == Head(frames)
         h == cleanup_stack[f.target][f.left]
     IN  /\ frames' = <<[f EXCEPT !.left = @ - 1, !.in_handler = (h = User)]>>
                        \o Tail(frames)
         /\ open' = open \ {h}
         /\ \/ watch' = [x \in Fds |-> IF x = h THEN NoThread ELSE watch[x]]
            \/ UNCHANGED watch
  /\ UNCHANGED <<threadVars, runnable_list, current, destruct_me, epoll_nr,
                 events, pc>>

(* An opaque handler returns.                                              *)
HandlerReturn ==
  /\ pc = "thread"
  /\ frames # <<>> /\ Head(frames).in_handler
  /\ frames' = <<[Head(frames) EXCEPT !.in_handler = FALSE]>> \o Tail(frames)
  /\ UNCHANGED <<threadVars, runnable_list, current, destruct_me, epoll_nr,
                 events, pc, kernelVars>>

(* Mutants: leaves at the first self-destruct, inside other destructs;     *)
(* leaves only if the outermost destruct is the self-destruct.             *)
BugLeavesNested == destruct_me'
BugLeavesIfOutermost == Tail(frames) = <<>> /\ Head(frames).target = current
SwitchesOut == Tail(frames) = <<>> /\ destruct_me'

(* After the last handler.  Another thread is reaped here and now; the     *)
(* current one asks the event loop to reap it, and the switch out waits    *)
(* until the outermost destruct is through.                                *)
DestructEnd ==
  /\ pc = "thread"
  /\ frames # <<>> /\ ~Head(frames).in_handler /\ Head(frames).left = 0
  /\ LET t == Head(frames).target
     IN  IF t = current
         THEN destruct_me' = TRUE /\ UNCHANGED threadVars
         ELSE Reap(t) /\ UNCHANGED destruct_me
  /\ frames' = Tail(frames)
  /\ pc' = IF SwitchesOut THEN "leave" ELSE "thread"
  /\ UNCHANGED <<runnable_list, current, epoll_nr, events, kernelVars>>

-----------------------------------------------------------------------------
(* lb_switch_event_loop.                                                   *)

(* main calls the event loop.                                              *)
EnterLoop ==
  /\ pc = "main"
  /\ pc' = "top"
  /\ UNCHANGED <<threadVars, runnable_list, current, destruct_me, frames,
                 epoll_nr, events, kernelVars>>

LoopTop ==
  /\ pc = "top"
  /\ pc' = IF runnable_list # <<>> THEN "run" ELSE "poll"
  /\ UNCHANGED <<threadVars, runnable_list, current, destruct_me, frames,
                 epoll_nr, events, kernelVars>>

(* Mutant: the loop does not look for zombies.                             *)
BugNoZombie(t) == FALSE
IsZombie(t) == zombie[t]

(* The top of the list is a thread destructed while it was there.          *)
FreeZombie ==
  /\ pc = "run" /\ runnable_list # <<>>
  /\ IsZombie(Head(runnable_list))
  /\ Free(Head(runnable_list))
  /\ runnable_list' = Tail(runnable_list)
  /\ UNCHANGED <<current, destruct_me, frames, epoll_nr, events, pc, kernelVars>>

EnterThread ==
  /\ pc = "run" /\ runnable_list # <<>>
  /\ ~IsZombie(Head(runnable_list))
  /\ runnable' = [runnable EXCEPT ![Head(runnable_list)] = FALSE]
  /\ runnable_list' = Tail(runnable_list)
  /\ current' = Head(runnable_list)
  /\ pc' = "thread"
  /\ UNCHANGED <<alive, slumber_enabled, epoll_fd, destruct_enabled, zombie,
                 cleanup_stack, destruct_me, frames, epoll_nr, events,
                 kernelVars>>

(* Back in the loop after lbi_switch_load_exec_save.                       *)
LeaveThread ==
  /\ pc = "leave"
  /\ pc' = "run"
  /\ current' = NoThread
  /\ destruct_me' = FALSE
  /\ IF destruct_me THEN Reap(current) ELSE UNCHANGED threadVars
  /\ UNCHANGED <<runnable_list, frames, epoll_nr, events, kernelVars>>

RunnablesDone ==
  /\ pc = "run" /\ runnable_list = <<>>
  /\ pc' = "improve"
  /\ UNCHANGED <<threadVars, runnable_list, current, destruct_me, frames,
                 epoll_nr, events, kernelVars>>

(* Mutant: epoll without a look at what the improver made runnable.        *)
BugAfterImprover == "poll"
AfterImprover == "top"

(* The improver returns false; its calls until then are CreateThread and   *)
(* Disturb with pc = "improve".                                            *)
ImproverDone ==
  /\ pc = "improve"
  /\ pc' = AfterImprover
  /\ UNCHANGED <<threadVars, runnable_list, current, destruct_me, frames,
                 epoll_nr, events, kernelVars>>

LoopReturn ==
  /\ pc = "poll" /\ epoll_nr = 0
  /\ pc' = "exited"
  /\ UNCHANGED <<threadVars, runnable_list, current, destruct_me, frames,
                 epoll_nr, events, kernelVars>>

(* main goes on without the switch.                                        *)
Exited == pc = "exited" /\ UNCHANGED vars

(* The kernel reports some of the descriptors it watches, each once, in    *)
(* any order, at most EventBatch of them.                                  *)
EventLists ==
  LET watched == {f \in Fds : watch[f] # NoThread}
  IN  UNION { {q \in [1..n -> watched] : IsInjective(q)} :
              n \in {m \in 1..Cardinality(watched) : m <= EventBatch} }

EpollReturn ==
  /\ pc = "poll" /\ epoll_nr # 0
  /\ events' \in EventLists
  /\ pc' = "events"
  /\ UNCHANGED <<threadVars, runnable_list, current, destruct_me, frames,
                 epoll_nr, kernelVars>>

HandleEvent ==
  /\ pc = "events" /\ events # <<>>
  /\ LET t == watch[Head(events)]
     IN EpollDisable(t) /\ AddRunnable(t)
  /\ events' = Tail(events)
  /\ UNCHANGED <<alive, slumber_enabled, destruct_enabled, zombie,
                 cleanup_stack, current, destruct_me, frames, pc, open>>

EventsDone ==
  /\ pc = "events" /\ events = <<>>
  /\ pc' = "top"
  /\ UNCHANGED <<threadVars, runnable_list, current, destruct_me, frames,
                 epoll_nr, events, kernelVars>>

-----------------------------------------------------------------------------

DestructSteps == RunCleanup \/ DestructEnd

LoopSteps ==
  \/ LoopTop \/ FreeZombie \/ EnterThread \/ LeaveThread \/ RunnablesDone
  \/ HandleEvent \/ EventsDone \/ LoopReturn

Next ==
  \/ \E t \in Threads : CreateThread(t) \/ Disturb(t) \/ DestructBegin(t)
  \/ \E f \in Fds : EpollWait(f)
  \/ \E h \in Handler : PushCleanup(h)
  \/ Slumber \/ PullCleanup
  \/ HandlerReturn \/ DestructSteps
  \/ EnterLoop \/ LoopSteps \/ ImproverDone \/ EpollReturn
  \/ Exited

Spec == Init /\ [][Next]_vars

(* Handlers return, however many destructs are nested in them, and the     *)
(* code of switch.c runs on.  Nothing else is assumed of client code.      *)
Fairness ==
  /\ WF_vars(DestructSteps)
  /\ WF_vars(LeaveThread)
  /\ \A t \in Threads : SF_vars(HandlerReturn /\ Head(frames).target = t)

FairSpec == Spec /\ Fairness

-----------------------------------------------------------------------------
(* Properties.                                                             *)

OnCpu(t) == pc = "thread" /\ current = t
BeingDestructed == {frames[i].target : i \in DOMAIN frames}

(* The list threaded through runnable_next holds each thread flagged       *)
(* runnable exactly once and no other, however often threads are created,  *)
(* disturbed, reported by epoll and destructed (add_runnable 149-156, the  *)
(* zombies of 243-292, the dequeue 465-476).                               *)
RunnableListExact ==
  /\ IsInjective(runnable_list)
  /\ Range(runnable_list) = {t \in Threads : runnable[t]}
  /\ Range(runnable_list) \subseteq alive

(* No thread is lost and none can be woken twice: a live thread runs, is   *)
(* runnable, slumbers or waits in epoll, and only one of these.  Only a    *)
(* thread whose destruct has begun may be in none of them.                 *)
OneDisposition ==
  \A t \in alive :
    /\ OnCpu(t) => ~runnable[t] /\ ~slumber_enabled[t] /\ epoll_fd[t] = NoFd
    /\ runnable[t] => ~slumber_enabled[t] /\ epoll_fd[t] = NoFd
    /\ slumber_enabled[t] => epoll_fd[t] = NoFd
    /\ ~destruct_enabled[t] => \/ OnCpu(t) \/ runnable[t]
                               \/ slumber_enabled[t] \/ epoll_fd[t] # NoFd

(* The kernel's epoll set, the threads' epoll_fd and epoll_nr agree, and   *)
(* no registration outlives its thread or its descriptor: an event is      *)
(* never reported for a thread that was freed (297-305, 517-536, 589-612,  *)
(* 723-728).                                                               *)
EpollExact ==
  /\ \A t \in Threads, f \in Fds : watch[f] = t <=> epoll_fd[t] = f
  /\ \A f \in Fds : watch[f] # NoThread => watch[f] \in alive /\ f \in open
  /\ epoll_nr = Cardinality({f \in Fds : watch[f] # NoThread})

(* Destructs in progress, destruct_me and zombies account for every thread *)
(* whose destruct has begun: none is dropped when the current thread       *)
(* destructs itself inside the handlers of another (682-760).              *)
NoDestructLost ==
  /\ \A t \in alive :
       destruct_enabled[t] <=> \/ t \in BeingDestructed
                               \/ zombie[t]
                               \/ destruct_me /\ t = current
  /\ BeingDestructed \subseteq alive
  /\ \A i, j \in DOMAIN frames :
       frames[i].target = frames[j].target => i = j
  /\ frames # <<>> => pc = "thread"
  /\ destruct_me => current \in alive /\ (frames # <<>> \/ pc = "leave")

(* A thread without pages only waits for the loop to dequeue it: it is     *)
(* never the current thread and nothing can wake it a second time.         *)
ZombieInert ==
  \A t \in Threads : zombie[t] =>
    /\ t \in alive /\ runnable[t] /\ t # current
    /\ ~slumber_enabled[t] /\ epoll_fd[t] = NoFd
    /\ t \notin BeingDestructed

(* "the switch does not ever enter epoll unless there are no runnable      *)
(* threads" (110-112), the improver's wake-ups included, and the loop      *)
(* returns only when no thread is runnable or waits (442-449).             *)
BlocksOnlyWhenIdle ==
  /\ pc \in {"poll", "exited"} => \A t \in Threads : ~runnable[t]
  /\ pc = "exited" => \A t \in alive : slumber_enabled[t]

(* No LB_ASSURE that switch.c places on its own state can fail (151, 289,  *)
(* 299, 304, 475, 716, 745).                                               *)
Assures ==
  /\ \A t \in alive : slumber_enabled[t] => ~runnable[t]
  /\ pc = "run" /\ runnable_list # <<>> => runnable[Head(runnable_list)]
  /\ pc = "events" /\ events # <<>> =>
       LET t == watch[Head(events)]
       IN  t \in alive /\ epoll_fd[t] = Head(events) /\ ~runnable[t]
  /\ pc = "thread" /\ frames = <<>> => ~destruct_me
  /\ pc = "thread" /\ frames # <<>> =>
       /\ epoll_fd[Head(frames).target] = NoFd
       /\ Head(frames).target = current => ~destruct_me

(* The guarantee of the comment at 700-704: once a destruct has begun, the *)
(* thread is freed or left to the event loop as a zombie, however deeply   *)
(* the destructs are nested, provided the handlers return.                 *)
DestructCompletes ==
  \A t \in Threads : destruct_enabled[t] ~> ~destruct_enabled[t] \/ zombie[t]

-----------------------------------------------------------------------------
(* Refinement of Scheduler.                                                *)

statusOf(t) ==
  IF t \notin alive THEN "absent"
  ELSE IF destruct_enabled[t] THEN "dying"
  ELSE IF runnable[t] THEN "ready"
  ELSE IF slumber_enabled[t] THEN "asleep"
  ELSE IF epoll_fd[t] # NoFd THEN "waiting"
  ELSE "running"

(* A handler is owed until it has returned.                                *)
owedOf(t) ==
  IF ~destruct_enabled[t] THEN Len(cleanup_stack[t])
  ELSE IF t \in BeingDestructed
  THEN LET f == frames[CHOOSE i \in DOMAIN frames : frames[i].target = t]
       IN  f.left + (IF f.in_handler THEN 1 ELSE 0)
  ELSE 0

Abstract == INSTANCE Scheduler WITH status <- [t \in Threads |-> statusOf(t)],
                                    owed <- [t \in Threads |-> owedOf(t)]

(* The switch keeps the promises of Scheduler: one thread at a time, a     *)
(* destructed thread never runs again, and it is released only after each  *)
(* of its cleanup handlers has run to its end.                             *)
ImplementsScheduler == Abstract!Spec
=============================================================================
