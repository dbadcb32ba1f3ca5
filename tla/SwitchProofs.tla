---------------------------- MODULE SwitchProofs ----------------------------
(***************************************************************************)
(* Proofs about Switch for every set of threads and descriptors and every  *)
(* limit.  The properties of Switch are made inductive by what follows.    *)
(***************************************************************************)
EXTENDS Switch, SequenceLemmas, FiniteSetTheorems

(* The current thread exists exactly while the loop runs it.               *)
CurrentInv ==
  /\ pc \in {"thread", "leave"} => current \in alive
  /\ pc \notin {"thread", "leave"} => current = NoThread

(* A free structure is in none of the switch's sets.                       *)
DeadInv ==
  \A t \in Threads : t \notin alive =>
    /\ ~runnable[t] /\ ~slumber_enabled[t] /\ ~destruct_enabled[t]
    /\ ~zombie[t] /\ epoll_fd[t] = NoFd

(* A destruct takes its thread out of epoll and counts down the handlers   *)
(* on its stack; the current thread asks to be reaped only when its own    *)
(* handlers are through.                                                   *)
DestructInv ==
  /\ \A t \in Threads : destruct_enabled[t] => epoll_fd[t] = NoFd
  /\ \A i \in DOMAIN frames :
       frames[i].left <= Len(cleanup_stack[frames[i].target])
  /\ destruct_me => current \notin BeingDestructed

(* The events at hand are registrations still in force, each once.         *)
EventsInv ==
  pc = "events" =>
    /\ IsInjective(events)
    /\ \A i \in DOMAIN events : watch[events[i]] # NoThread

(* The i-th handler of t can still run.                                    *)
Pending(t, i) ==
  /\ i \in 1..Len(cleanup_stack[t])
  /\ \/ ~destruct_enabled[t]
     \/ \E k \in DOMAIN frames : frames[k].target = t /\ i <= frames[k].left

(* An open descriptor has one handler that will close it, and only its     *)
(* owner waits for it: a descriptor is never closed under a waiting        *)
(* thread.                                                                 *)
OwnerInv ==
  /\ \A t \in alive : \A i \in 1..Len(cleanup_stack[t]) :
       Pending(t, i) /\ cleanup_stack[t][i] \in Fds => cleanup_stack[t][i] \in open
  /\ \A t, u \in alive :
       \A i \in 1..Len(cleanup_stack[t]) : \A j \in 1..Len(cleanup_stack[u]) :
         /\ Pending(t, i) /\ Pending(u, j)
         /\ cleanup_stack[t][i] \in Fds
         /\ cleanup_stack[t][i] = cleanup_stack[u][j]
         => t = u /\ i = j
  /\ \A f \in Fds : watch[f] \in alive => f \in Range(cleanup_stack[watch[f]])

IInv ==
  /\ TypeOK
  /\ RunnableListExact /\ OneDisposition /\ EpollExact
  /\ NoDestructLost /\ ZombieInert /\ BlocksOnlyWhenIdle
  /\ CurrentInv /\ DeadInv /\ DestructInv /\ EventsInv /\ OwnerInv

-----------------------------------------------------------------------------
(* Type correctness.                                                       *)

LEMMA ListTyped ==
  ASSUME TypeOK
  PROVE  /\ \A t \in Threads : <<t>> \o runnable_list \in Seq(Threads)
         /\ runnable_list # <<>> =>
              Head(runnable_list) \in Threads /\ Tail(runnable_list) \in Seq(Threads)
         /\ \A f \in Frame : <<f>> \o frames \in Seq(Frame)
         /\ frames # <<>> =>
              /\ Head(frames) \in Frame /\ Tail(frames) \in Seq(Frame)
              /\ \A f \in Frame : <<f>> \o Tail(frames) \in Seq(Frame)
         /\ events # <<>> => Head(events) \in Fds /\ Tail(events) \in Seq(Fds)
BY PushFront, PopFront, Zenon DEF TypeOK

LEMMA StackTyped ==
  ASSUME TypeOK, NEW t \in Threads
  PROVE  /\ Len(cleanup_stack[t]) \in 0..CleanupLimit
         /\ \A i \in 1..Len(cleanup_stack[t]) : cleanup_stack[t][i] \in Handler
         /\ DOMAIN cleanup_stack[t] = 1..Len(cleanup_stack[t])
<1>1. cleanup_stack[t] \in Seq(Handler) /\ Len(cleanup_stack[t]) <= CleanupLimit
  BY DEF TypeOK
<1>. QED
  BY <1>1, LenProperties, ElementOfSeq, LimitsAssumption

LEMMA EpollDisableTyped ==
  ASSUME TypeOK, NEW t \in Threads, EpollDisable(t)
  PROVE  /\ epoll_fd' \in [Threads -> Fds \cup {NoFd}]
         /\ watch' \in [Fds -> Threads \cup {NoThread}]
         /\ epoll_nr' \in Int
<1>1. /\ epoll_fd \in [Threads -> Fds \cup {NoFd}]
      /\ watch \in [Fds -> Threads \cup {NoThread}]
      /\ epoll_nr \in Int
  BY DEF TypeOK
<1>2. epoll_fd' \in [Threads -> Fds \cup {NoFd}]
  BY <1>1 DEF EpollDisable
<1>3. watch' \in [Fds -> Threads \cup {NoThread}]
  BY <1>1 DEF EpollDisable
<1>4. epoll_nr' \in Int
  BY <1>1 DEF EpollDisable
<1>. QED
  BY <1>2, <1>3, <1>4

LEMMA FreeTyped ==
  ASSUME TypeOK, NEW t \in Threads, Free(t) \/ Reap(t) \/ UNCHANGED threadVars
  PROVE  /\ alive' \in SUBSET Threads
         /\ runnable' \in [Threads -> BOOLEAN]
         /\ slumber_enabled' \in [Threads -> BOOLEAN]
         /\ epoll_fd' \in [Threads -> Fds \cup {NoFd}]
         /\ destruct_enabled' \in [Threads -> BOOLEAN]
         /\ zombie' \in [Threads -> BOOLEAN]
         /\ cleanup_stack' \in [Threads -> Seq(Handler)]
         /\ \A u \in Threads : Len(cleanup_stack'[u]) <= CleanupLimit
<1>1. <<>> \in Seq(Handler) /\ Len(<<>>) = 0 /\ 0 <= CleanupLimit
  BY EmptySeq, LimitsAssumption
<1>2. CASE Free(t)
  BY <1>1, <1>2 DEF TypeOK, Free
<1>3. CASE Reap(t)
  BY <1>2, <1>3 DEF TypeOK, Reap
<1>4. CASE UNCHANGED threadVars
  BY <1>4 DEF TypeOK, threadVars
<1>. QED
  BY <1>2, <1>3, <1>4

LEMMA EventListsSeq ==
  ASSUME NEW q \in EventLists
  PROVE  /\ \E n \in Nat : q \in [1..n -> Fds]
         /\ IsInjective(q)
         /\ \A i \in DOMAIN q : watch[q[i]] # NoThread
<1>. DEFINE watched == {f \in Fds : watch[f] # NoThread}
<1>1. PICK n \in {m \in 1..Cardinality(watched) : m <= EventBatch} :
        q \in {r \in [1..n -> watched] : IsInjective(r)}
  BY DEF EventLists
<1>2. n \in Nat
  OBVIOUS
<1>. QED
  BY <1>1, <1>2

LEMMA InitTyped == Init => TypeOK
<1>. SUFFICES ASSUME Init PROVE TypeOK
  OBVIOUS
<1>1. <<>> \in Seq(Handler) /\ Len(<<>>) = 0 /\ 0 <= CleanupLimit
  BY EmptySeq, LimitsAssumption
<1>2. /\ cleanup_stack \in [Threads -> Seq(Handler)]
      /\ \A t \in Threads : Len(cleanup_stack[t]) <= CleanupLimit
  BY <1>1 DEF Init
<1>3. <<>> \in Seq(Threads) /\ <<>> \in Seq(Frame) /\ <<>> \in Seq(Fds)
  BY EmptySeq
<1>4. epoll_nr \in Int /\ pc \in Places /\ open \in SUBSET Fds
  BY DEF Init, Places
<1>. QED
  BY <1>2, <1>3, <1>4 DEF Init, TypeOK

LEMMA TypeStep == IInv /\ [Next]_vars => TypeOK'
<1>. SUFFICES ASSUME TypeOK, CurrentInv, EventsInv, [Next]_vars
              PROVE  TypeOK'
  BY DEF IInv
<1>. USE ListTyped, NullsAssumption
<1>1. ASSUME NEW t \in Threads, CreateThread(t)
      PROVE  TypeOK'
  <2>1. <<>> \in Seq(Handler) /\ Len(<<>>) = 0 /\ 0 <= CleanupLimit
    BY EmptySeq, LimitsAssumption
  <2>2. /\ cleanup_stack' \in [Threads -> Seq(Handler)]
        /\ \A u \in Threads : Len(cleanup_stack'[u]) <= CleanupLimit
    BY <1>1, <2>1 DEF CreateThread, TypeOK
  <2>3. runnable_list' \in Seq(Threads)
    BY <1>1 DEF CreateThread, AddRunnable
  <2>. QED
    BY <1>1, <2>2, <2>3 DEF CreateThread, AddRunnable, TypeOK, kernelVars
<1>2. ASSUME NEW t \in Threads, Disturb(t)
      PROVE  TypeOK'
  BY <1>2 DEF Disturb, AddRunnable, TypeOK, kernelVars
<1>3. ASSUME NEW t \in Threads, DestructBegin(t)
      PROVE  TypeOK'
  <2>1. [target |-> t, left |-> HandlersToRun(t), in_handler |-> FALSE] \in Frame
    BY StackTyped DEF Frame, HandlersToRun
  <2>2. frames' \in Seq(Frame)
    BY <1>3, <2>1 DEF DestructBegin
  <2>3. /\ epoll_fd' \in [Threads -> Fds \cup {NoFd}]
        /\ watch' \in [Fds -> Threads \cup {NoThread}]
        /\ epoll_nr' \in Int
    <3>1. CASE EpollDisable(t)
      BY <3>1, EpollDisableTyped
    <3>2. CASE UNCHANGED <<epoll_fd, watch, epoll_nr>>
      BY <3>2 DEF TypeOK
    <3>. QED
      BY <1>3, <3>1, <3>2 DEF DestructBegin
  <2>. QED
    BY <1>3, <2>2, <2>3 DEF DestructBegin, TypeOK
<1>4. ASSUME NEW f \in Fds, EpollWait(f)
      PROVE  TypeOK'
  <2>1. /\ epoll_fd' \in [Threads -> Fds \cup {NoFd}]
        /\ watch' \in [Fds -> Threads \cup {NoThread}]
    BY <1>4 DEF EpollWait, TypeOK
  <2>2. epoll_nr' \in Int /\ pc' \in Places
    BY <1>4 DEF EpollWait, TypeOK, Places
  <2>. QED
    BY <1>4, <2>1, <2>2 DEF EpollWait, TypeOK
<1>5. ASSUME NEW h \in Handler, PushCleanup(h)
      PROVE  TypeOK'
  <2>1. /\ cleanup_stack' \in [Threads -> Seq(Handler)]
        /\ \A t \in Threads : Len(cleanup_stack'[t]) <= CleanupLimit
    <3>1. \A t \in Threads :
            /\ Append(cleanup_stack[t], h) \in Seq(Handler)
            /\ Len(Append(cleanup_stack[t], h)) = Len(cleanup_stack[t]) + 1
            /\ Len(cleanup_stack[t]) \in Nat
      BY AppendProperties, LenProperties DEF TypeOK
    <3>2. CASE current \in Threads
      BY <1>5, <3>1, <3>2, LimitsAssumption DEF PushCleanup, CleanupRoom, TypeOK
    <3>3. CASE current \notin Threads
      BY <1>5, <3>3 DEF PushCleanup, TypeOK
    <3>. QED
      BY <3>2, <3>3
  <2>. QED
    BY <1>5, <2>1 DEF PushCleanup, TypeOK
<1>6. CASE Slumber
  BY <1>6 DEF Slumber, TypeOK, Places, kernelVars
<1>7. CASE PullCleanup
  <2>1. \A t \in Threads : cleanup_stack[t] # <<>> =>
          LET s == SubSeq(cleanup_stack[t], 1, Len(cleanup_stack[t]) - 1)
          IN  s \in Seq(Handler) /\ Len(s) <= CleanupLimit
    BY StackTyped, LimitsAssumption, SubSeqProperties
  <2>2. \A t \in Threads : Len(cleanup_stack[t]) > 0 => cleanup_stack[t] # <<>>
    BY EmptySeq
  <2>. QED
    BY <1>7, <2>1, <2>2 DEF PullCleanup, TypeOK
<1>8. CASE HandlerReturn
  <2>1. [Head(frames) EXCEPT !.in_handler = FALSE] \in Frame
    BY <1>8 DEF HandlerReturn, Frame
  <2>. QED
    BY <1>8, <2>1 DEF HandlerReturn, TypeOK, threadVars, kernelVars
<1>9. CASE RunCleanup
  <2>. DEFINE f == Head(frames)
              h == cleanup_stack[f.target][f.left]
              g == [f EXCEPT !.left = @ - 1, !.in_handler = (h = User)]
  <2>1. g \in Frame
    <3>1. f \in Frame /\ f.left > 0
      BY <1>9 DEF RunCleanup
    <3>2. f.left - 1 \in 0..CleanupLimit
      BY <3>1, LimitsAssumption DEF Frame
    <3>. QED
      BY <3>1, <3>2 DEF Frame
  <2>2. frames' = <<g>> \o Tail(frames)
    BY <1>9 DEF RunCleanup
  <2>3. watch' \in [Fds -> Threads \cup {NoThread}]
    BY <1>9 DEF RunCleanup, TypeOK
  <2>4. open' \in SUBSET Fds
    BY <1>9 DEF RunCleanup, TypeOK
  <2>5. frames' \in Seq(Frame)
    BY <1>9, <2>1, <2>2 DEF RunCleanup
  <2>. QED
    BY <1>9, <2>3, <2>4, <2>5 DEF RunCleanup, TypeOK, threadVars
<1>10. CASE DestructEnd
  <2>1. Head(frames).target \in Threads /\ frames' \in Seq(Frame)
    BY <1>10 DEF DestructEnd, Frame
  <2>2. UNCHANGED threadVars \/ Reap(Head(frames).target)
    BY <1>10 DEF DestructEnd
  <2>3. pc' \in Places /\ destruct_me' \in BOOLEAN
    BY <1>10 DEF DestructEnd, Places, TypeOK
  <2>. QED
    BY <1>10, <2>1, <2>2, <2>3, FreeTyped DEF DestructEnd, TypeOK, kernelVars
<1>11. CASE EnterLoop \/ LoopTop \/ RunnablesDone \/ LoopReturn \/ EventsDone \/ ImproverDone
  BY <1>11 DEF EnterLoop, LoopTop, RunnablesDone, LoopReturn, EventsDone,
               ImproverDone, AfterImprover, TypeOK, threadVars, kernelVars, Places
<1>12. CASE FreeZombie
  <2>1. Head(runnable_list) \in Threads /\ runnable_list' \in Seq(Threads)
    BY <1>12 DEF FreeZombie
  <2>2. Free(Head(runnable_list))
    BY <1>12 DEF FreeZombie
  <2>. QED
    BY <1>12, <2>1, <2>2, FreeTyped DEF FreeZombie, TypeOK, kernelVars
<1>13. CASE EnterThread
  BY <1>13 DEF EnterThread, TypeOK, kernelVars, Places
<1>14. CASE LeaveThread
  <2>1. pc' \in Places /\ destruct_me' \in BOOLEAN /\ current' \in Threads \cup {NoThread}
    BY <1>14 DEF LeaveThread, Places
  <2>2. CASE UNCHANGED threadVars
    BY <1>14, <2>1, <2>2 DEF LeaveThread, TypeOK, threadVars, kernelVars
  <2>3. CASE Reap(current)
    <3>1. current \in Threads
      BY <1>14 DEF LeaveThread, CurrentInv, TypeOK
    <3>. QED
      BY <1>14, <2>1, <2>3, <3>1, FreeTyped DEF LeaveThread, TypeOK, kernelVars
  <2>. QED
    BY <1>14, <2>2, <2>3 DEF LeaveThread
<1>15. CASE EpollReturn
  <2>1. events' \in Seq(Fds)
    <3>1. PICK n \in Nat : events' \in [1..n -> Fds]
      BY <1>15, EventListsSeq DEF EpollReturn
    <3>. QED
      BY <3>1
  <2>. QED
    BY <1>15, <2>1 DEF EpollReturn, TypeOK, threadVars, kernelVars, Places
<1>16. CASE HandleEvent
  <2>. DEFINE t == watch[Head(events)]
  <2>1. events' \in Seq(Fds)
    BY <1>16 DEF HandleEvent
  <2>0. t \in Threads
    BY <1>16, PopFront DEF HandleEvent, EventsInv, TypeOK
  <2>2. runnable' \in [Threads -> BOOLEAN]
    BY <1>16 DEF HandleEvent, AddRunnable, TypeOK
  <2>3. /\ epoll_fd' \in [Threads -> Fds \cup {NoFd}]
        /\ watch' \in [Fds -> Threads \cup {NoThread}]
        /\ epoll_nr' \in Int
    BY <1>16, <2>0, EpollDisableTyped DEF HandleEvent
  <2>4. runnable_list' \in Seq(Threads)
    BY <1>16, <2>0 DEF HandleEvent, AddRunnable
  <2>. QED
    BY <1>16, <2>1, <2>2, <2>3, <2>4 DEF HandleEvent, TypeOK
<1>17. CASE Exited
  BY <1>17 DEF Exited, vars, TypeOK, threadVars, kernelVars
<1>18. CASE UNCHANGED vars
  BY <1>18 DEF vars, TypeOK, threadVars, kernelVars
<1>. QED
  BY <1>1, <1>2, <1>3, <1>4, <1>5, <1>6, <1>7, <1>8, <1>9, <1>10, <1>11, <1>12,
     <1>13, <1>14, <1>15, <1>16, <1>17, <1>18 DEF Next, DestructSteps, LoopSteps

-----------------------------------------------------------------------------
(* The runnable list.                                                      *)

LEMMA EventThread ==
  ASSUME IInv, pc = "events", events # <<>>
  PROVE  LET t == watch[Head(events)]
         IN  /\ t \in alive /\ t \in Threads
             /\ Head(events) \in Fds
             /\ epoll_fd[t] = Head(events)
             /\ ~runnable[t] /\ ~slumber_enabled[t] /\ ~zombie[t] /\ ~destruct_enabled[t]
<1>1. Head(events) \in Fds /\ watch[Head(events)] # NoThread
  BY ListTyped, PopFront DEF IInv, TypeOK, EventsInv
<1>2. watch[Head(events)] \in alive /\ watch[Head(events)] \in Threads
  BY <1>1 DEF IInv, TypeOK, EpollExact
<1>3. epoll_fd[watch[Head(events)]] = Head(events) /\ Head(events) # NoFd
  BY <1>1, <1>2, NullsAssumption DEF IInv, EpollExact
<1>. QED
  BY <1>1, <1>2, <1>3 DEF IInv, OneDisposition, ZombieInert, DestructInv

LEMMA AddRunnableExact ==
  ASSUME TypeOK, RunnableListExact, NEW t \in Threads,
         ~runnable[t], AddRunnable(t), alive' = alive \cup {t}
  PROVE  RunnableListExact'
<1>1. t \notin Range(runnable_list)
  BY DEF RunnableListExact
<1>2. runnable_list \in Seq(Threads) /\ runnable \in [Threads -> BOOLEAN]
  BY DEF TypeOK
<1>3. /\ Range(runnable_list') = {t} \cup Range(runnable_list)
      /\ IsInjective(runnable_list')
  BY <1>1, <1>2, PushRange DEF AddRunnable, RunnableListExact
<1>4. {u \in Threads : runnable'[u]} = {t} \cup {u \in Threads : runnable[u]}
  BY <1>2 DEF AddRunnable
<1>. QED
  BY <1>3, <1>4 DEF RunnableListExact

LEMMA ReapExact ==
  ASSUME TypeOK, RunnableListExact, NEW t \in Threads, Reap(t),
         UNCHANGED runnable_list
  PROVE  RunnableListExact'
<1>1. CASE runnable[t]
  BY <1>1 DEF Reap, RunnableListExact
<1>2. CASE ~runnable[t]
  <2>1. /\ alive' = alive \ {t}
        /\ runnable' = [runnable EXCEPT ![t] = FALSE]
    BY <1>2 DEF Reap, Free
  <2>2. \A u \in Threads : runnable'[u] = runnable[u]
    BY <1>2, <2>1 DEF TypeOK
  <2>3. t \notin Range(runnable_list)
    BY <1>2 DEF RunnableListExact
  <2>. QED
    BY <2>1, <2>2, <2>3 DEF RunnableListExact
<1>. QED
  BY <1>1, <1>2

LEMMA PopExact ==
  ASSUME TypeOK, RunnableListExact, runnable_list # <<>>,
         runnable' = [runnable EXCEPT ![Head(runnable_list)] = FALSE],
         runnable_list' = Tail(runnable_list),
         alive' = alive \/ alive' = alive \ {Head(runnable_list)}
  PROVE  RunnableListExact'
<1>. DEFINE t == Head(runnable_list)
<1>1. /\ IsInjective(Tail(runnable_list))
      /\ t \notin Range(Tail(runnable_list))
      /\ Range(runnable_list) = {t} \cup Range(Tail(runnable_list))
  BY PopRange DEF TypeOK, RunnableListExact
<1>2. {u \in Threads : runnable'[u]} = {u \in Threads : runnable[u]} \ {t}
  BY DEF TypeOK
<1>. QED
  BY <1>1, <1>2 DEF RunnableListExact

LEMMA RunnableStep == IInv /\ [Next]_vars => RunnableListExact'
<1>. SUFFICES ASSUME IInv, [Next]_vars
              PROVE  RunnableListExact'
  OBVIOUS
<1>. USE DEF IInv
<1>1. ASSUME NEW t \in Threads, CreateThread(t)
      PROVE  RunnableListExact'
  BY <1>1, AddRunnableExact DEF CreateThread, DeadInv
<1>2. ASSUME NEW t \in Threads, Disturb(t)
      PROVE  RunnableListExact'
  <2>1. ~runnable[t] /\ alive' = alive \cup {t}
    BY <1>2 DEF Disturb, OneDisposition
  <2>. QED
    BY <1>2, <2>1, AddRunnableExact DEF Disturb
<1>3. CASE HandleEvent
  BY <1>3, EventThread, AddRunnableExact DEF HandleEvent
<1>4. CASE FreeZombie
  BY <1>4, PopExact DEF FreeZombie, Free
<1>5. CASE EnterThread
  BY <1>5, PopExact DEF EnterThread
<1>6. CASE DestructEnd
  <2>1. CASE UNCHANGED threadVars
    BY <1>6, <2>1 DEF DestructEnd, threadVars, RunnableListExact
  <2>2. CASE Reap(Head(frames).target)
    BY <1>6, <2>2, ReapExact, ListTyped DEF DestructEnd, Frame
  <2>. QED
    BY <1>6, <2>1, <2>2 DEF DestructEnd
<1>7. CASE LeaveThread
  <2>1. CASE UNCHANGED threadVars
    BY <1>7, <2>1 DEF LeaveThread, threadVars, RunnableListExact
  <2>2. CASE Reap(current)
    BY <1>7, <2>2, ReapExact DEF LeaveThread, CurrentInv, TypeOK
  <2>. QED
    BY <1>7, <2>1, <2>2 DEF LeaveThread
<1>8. CASE UNCHANGED <<alive, runnable, runnable_list>>
  BY <1>8 DEF RunnableListExact
<1>. QED
  BY <1>1, <1>2, <1>3, <1>4, <1>5, <1>6, <1>7, <1>8
     DEF Next, DestructSteps, LoopSteps, vars, threadVars, kernelVars,
         DestructBegin, EpollWait, PushCleanup, Slumber, PullCleanup,
         HandlerReturn, RunCleanup, EnterLoop, LoopTop, RunnablesDone,
         LoopReturn, EventsDone, ImproverDone, EpollReturn, Exited

-----------------------------------------------------------------------------
(* The stack of active destructs.                                          *)

DistinctTargets ==
  \A i, j \in DOMAIN frames : frames[i].target = frames[j].target => i = j

LEMMA FrameFacts ==
  ASSUME TypeOK
  PROVE  /\ Len(frames) \in Nat /\ DOMAIN frames = 1..Len(frames)
         /\ \A k \in DOMAIN frames :
              /\ frames[k] \in Frame
              /\ frames[k].target \in Threads
              /\ frames[k].left \in 0..CleanupLimit
         /\ frames # <<>> => 1 \in DOMAIN frames /\ Head(frames) = frames[1]
         /\ BeingDestructed \subseteq Threads
<1>1. frames \in Seq(Frame)
  BY DEF TypeOK
<1>2. Len(frames) \in Nat /\ DOMAIN frames = 1..Len(frames)
  BY <1>1, LenProperties
<1>3. \A k \in DOMAIN frames : frames[k] \in Frame
  BY <1>1, <1>2, ElementOfSeq
<1>4. frames # <<>> => 1 \in DOMAIN frames /\ Head(frames) = frames[1]
  BY <1>1, PopFront
<1>. QED
  BY <1>2, <1>3, <1>4 DEF Frame, BeingDestructed

(* DestructBegin pushes a frame.                                           *)
LEMMA FramePush ==
  ASSUME TypeOK, NEW f \in Frame, frames' = <<f>> \o frames
  PROVE  /\ DOMAIN frames' = 1..(Len(frames) + 1)
         /\ frames'[1] = f
         /\ \A k \in DOMAIN frames : k + 1 \in DOMAIN frames' /\ frames'[k + 1] = frames[k]
         /\ \A k \in DOMAIN frames' : k # 1 => k - 1 \in DOMAIN frames /\ frames'[k] = frames[k - 1]
         /\ BeingDestructed' = {f.target} \cup BeingDestructed
         /\ frames' # <<>>
<1>1. /\ DOMAIN frames' = 1..(Len(frames) + 1)
      /\ frames'[1] = f
      /\ \A k \in 1..Len(frames) : frames'[k + 1] = frames[k]
      /\ \A k \in 2..(Len(frames) + 1) : frames'[k] = frames[k - 1]
      /\ frames' # <<>>
  BY PushFront DEF TypeOK
<1>2. \A k \in DOMAIN frames : k + 1 \in DOMAIN frames' /\ frames'[k + 1] = frames[k]
  BY <1>1, FrameFacts
<1>3. \A k \in DOMAIN frames' : k # 1 => k - 1 \in DOMAIN frames /\ frames'[k] = frames[k - 1]
  BY <1>1, FrameFacts
<1>4. 1 \in DOMAIN frames'
  BY <1>1, FrameFacts
<1>5. BeingDestructed' = {f.target} \cup BeingDestructed
  <2>1. \A k \in DOMAIN frames' : frames'[k].target \in {f.target} \cup BeingDestructed
    BY <1>1, <1>3 DEF BeingDestructed
  <2>2. \A k \in DOMAIN frames : frames[k].target \in BeingDestructed'
    BY <1>2 DEF BeingDestructed
  <2>3. f.target \in BeingDestructed'
    BY <1>1, <1>4 DEF BeingDestructed
  <2>. QED
    BY <2>1, <2>2, <2>3, ZenonT(60) DEF BeingDestructed
<1>. QED
  BY <1>1, <1>2, <1>3, <1>5

(* RunCleanup and HandlerReturn change the top frame, not its target.      *)
LEMMA FrameRetop ==
  ASSUME TypeOK, frames # <<>>, NEW f \in Frame, f.target = Head(frames).target,
         frames' = <<f>> \o Tail(frames)
  PROVE  /\ DOMAIN frames' = DOMAIN frames
         /\ frames'[1] = f
         /\ \A k \in DOMAIN frames : k # 1 => frames'[k] = frames[k]
         /\ \A k \in DOMAIN frames : frames'[k].target = frames[k].target
         /\ BeingDestructed' = BeingDestructed
         /\ frames' # <<>>
<1>1. /\ Tail(frames) \in Seq(Frame)
      /\ Len(frames) \in Nat \ {0}
      /\ DOMAIN frames = 1..Len(frames)
      /\ DOMAIN Tail(frames) = 1..(Len(frames) - 1)
      /\ \A k \in 1..(Len(frames) - 1) : Tail(frames)[k] = frames[k + 1]
      /\ Head(frames) = frames[1]
  BY PopFront DEF TypeOK
<1>2. Len(Tail(frames)) = Len(frames) - 1
  BY <1>1, LenProperties
<1>3. /\ DOMAIN frames' = 1..Len(frames)
      /\ frames'[1] = f
      /\ \A k \in 2..Len(frames) : frames'[k] = Tail(frames)[k - 1]
      /\ frames' # <<>>
  BY <1>1, <1>2, PushFront
<1>4. \A k \in 2..Len(frames) : frames'[k] = frames[k]
  <2>. SUFFICES ASSUME NEW k \in 2..Len(frames) PROVE frames'[k] = frames[k]
    OBVIOUS
  <2>1. k - 1 \in 1..(Len(frames) - 1) /\ (k - 1) + 1 = k
    BY <1>1
  <2>. QED
    BY <2>1, <1>1, <1>3
<1>5. \A k \in DOMAIN frames : frames'[k].target = frames[k].target
  BY <1>1, <1>3, <1>4
<1>6. BeingDestructed' = BeingDestructed
  <2>1. \A k \in DOMAIN frames' : frames'[k].target \in BeingDestructed
    BY <1>1, <1>3, <1>5 DEF BeingDestructed
  <2>2. \A k \in DOMAIN frames : frames[k].target \in BeingDestructed'
    BY <1>1, <1>3, <1>5 DEF BeingDestructed
  <2>. QED
    BY <2>1, <2>2 DEF BeingDestructed
<1>. QED
  BY <1>1, <1>3, <1>4, <1>5, <1>6

(* DestructEnd pops a frame.                                               *)
LEMMA FramePop ==
  ASSUME TypeOK, DistinctTargets, frames # <<>>, frames' = Tail(frames)
  PROVE  /\ \A k \in DOMAIN frames' : k + 1 \in DOMAIN frames /\ frames'[k] = frames[k + 1]
         /\ \A k \in DOMAIN frames : k # 1 => k - 1 \in DOMAIN frames' /\ frames'[k - 1] = frames[k]
         /\ BeingDestructed' = BeingDestructed \ {Head(frames).target}
         /\ Head(frames).target \in BeingDestructed
<1>1. /\ Len(frames) \in Nat \ {0}
      /\ DOMAIN frames = 1..Len(frames)
      /\ DOMAIN frames' = 1..(Len(frames) - 1)
      /\ \A k \in 1..(Len(frames) - 1) : frames'[k] = frames[k + 1]
      /\ Head(frames) = frames[1]
  BY PopFront DEF TypeOK
<1>2. \A k \in DOMAIN frames' : k + 1 \in DOMAIN frames /\ frames'[k] = frames[k + 1]
  BY <1>1
<1>3. \A k \in DOMAIN frames : k # 1 => k - 1 \in DOMAIN frames' /\ frames'[k - 1] = frames[k]
  BY <1>1
<1>4. 1 \in DOMAIN frames /\ \A k \in DOMAIN frames' : k + 1 # 1
  BY <1>1
<1>5. \A k \in DOMAIN frames' : frames'[k].target # frames[1].target
  BY <1>2, <1>4 DEF DistinctTargets
<1>6. BeingDestructed' = BeingDestructed \ {Head(frames).target}
  BY <1>1, <1>2, <1>3, <1>4, <1>5, SMTT(60) DEF BeingDestructed
<1>. QED
  BY <1>1, <1>2, <1>3, <1>4, <1>6 DEF BeingDestructed

-----------------------------------------------------------------------------
(* Where each thread is.                                                   *)

(* A thread being reaped or reclaimed leaves the others as they are.       *)
LEMMA ReapFacts ==
  ASSUME TypeOK, NEW t \in Threads, Reap(t)
  PROVE  /\ alive' \subseteq alive
         /\ \A u \in Threads : u # t =>
              /\ u \in alive' <=> u \in alive
              /\ zombie'[u] = zombie[u]
              /\ destruct_enabled'[u] = destruct_enabled[u]
              /\ slumber_enabled'[u] = slumber_enabled[u]
              /\ cleanup_stack'[u] = cleanup_stack[u]
         /\ \A u \in Threads : runnable'[u] = runnable[u] /\ epoll_fd'[u] = epoll_fd[u]
         /\ runnable[t] =>
              /\ zombie'[t] /\ alive' = alive
              /\ slumber_enabled'[t] = slumber_enabled[t]
              /\ destruct_enabled'[t] = destruct_enabled[t]
              /\ cleanup_stack' = cleanup_stack
         /\ ~runnable[t] =>
              /\ alive' = alive \ {t}
              /\ ~zombie'[t] /\ ~slumber_enabled'[t] /\ ~destruct_enabled'[t]
              /\ cleanup_stack'[t] = <<>>
<1>1. CASE runnable[t]
  BY <1>1 DEF Reap, TypeOK
<1>2. CASE ~runnable[t]
  BY <1>2, ZenonT(60) DEF Reap, Free, TypeOK
<1>. QED
  BY <1>1, <1>2

LEMMA FreeZombieFacts ==
  ASSUME IInv, FreeZombie
  PROVE  LET t == Head(runnable_list)
         IN  /\ t \in alive /\ t \in Threads /\ zombie[t]
             /\ alive' = alive \ {t}
             /\ \A u \in Threads : u # t =>
                  /\ zombie'[u] = zombie[u]
                  /\ destruct_enabled'[u] = destruct_enabled[u]
                  /\ slumber_enabled'[u] = slumber_enabled[u]
                  /\ cleanup_stack'[u] = cleanup_stack[u]
                  /\ runnable'[u] = runnable[u]
             /\ epoll_fd' = epoll_fd
             /\ ~zombie'[t] /\ ~slumber_enabled'[t] /\ ~destruct_enabled'[t]
             /\ ~runnable'[t] /\ cleanup_stack'[t] = <<>>
<1>1. Head(runnable_list) \in Threads /\ zombie[Head(runnable_list)]
  BY ListTyped DEF FreeZombie, IsZombie, IInv
<1>2. Head(runnable_list) \in alive
  BY <1>1 DEF IInv, ZombieInert
<1>. QED
  BY <1>1, <1>2 DEF FreeZombie, Free, IInv, TypeOK

LEMMA EnterThreadFacts ==
  ASSUME IInv, EnterThread
  PROVE  LET t == Head(runnable_list)
         IN  /\ t \in alive /\ t \in Threads /\ runnable[t] /\ ~zombie[t]
             /\ ~destruct_enabled[t] /\ ~slumber_enabled[t] /\ epoll_fd[t] = NoFd
             /\ \A u \in Threads : u # t => runnable'[u] = runnable[u]
             /\ ~runnable'[t]
             /\ frames = <<>> /\ ~destruct_me
<1>. DEFINE t == Head(runnable_list)
<1>1. t \in Threads /\ runnable[t] /\ t \in alive /\ ~zombie[t]
  <2>1. t \in Range(runnable_list)
    BY PopRange DEF EnterThread, IInv, TypeOK
  <2>. QED
    BY <2>1 DEF EnterThread, IsZombie, IInv, RunnableListExact
<1>2. frames = <<>> /\ ~destruct_me
  BY DEF EnterThread, IInv, NoDestructLost
<1>3. t \notin BeingDestructed
  BY <1>2 DEF BeingDestructed
<1>4. ~destruct_enabled[t]
  BY <1>1, <1>2, <1>3 DEF IInv, NoDestructLost
<1>. QED
  BY <1>1, <1>2, <1>4 DEF EnterThread, IInv, TypeOK, OneDisposition

(* The target of the innermost destruct.                                   *)
LEMMA TargetFacts ==
  ASSUME IInv, frames # <<>>
  PROVE  LET t == Head(frames).target
         IN  /\ t \in Threads /\ t \in alive /\ t \in BeingDestructed
             /\ destruct_enabled[t] /\ ~zombie[t] /\ epoll_fd[t] = NoFd
             /\ pc = "thread" /\ current \in alive /\ current \in Threads
             /\ destruct_me => t # current
<1>1. Head(frames).target \in BeingDestructed /\ Head(frames).target \in Threads
  BY FrameFacts DEF BeingDestructed, IInv
<1>2. pc = "thread" /\ Head(frames).target \in alive
  BY <1>1 DEF IInv, NoDestructLost
<1>. QED
  BY <1>1, <1>2 DEF IInv, NoDestructLost, ZombieInert, DestructInv, CurrentInv, TypeOK

LEMMA RetopSteps ==
  ASSUME TypeOK, RunCleanup \/ HandlerReturn
  PROVE  /\ BeingDestructed' = BeingDestructed
         /\ DOMAIN frames' = DOMAIN frames
         /\ frames # <<>> /\ frames' # <<>>
         /\ \A k \in DOMAIN frames :
              /\ frames'[k].target = frames[k].target
              /\ k # 1 => frames'[k] = frames[k]
         /\ HandlerReturn => \A k \in DOMAIN frames : frames'[k].left = frames[k].left
         /\ RunCleanup => frames[1].left > 0 /\ frames'[1].left = frames[1].left - 1
<1>. DEFINE f == Head(frames)
            h == cleanup_stack[f.target][f.left]
            g == [f EXCEPT !.left = @ - 1, !.in_handler = (h = User)]
            r == [f EXCEPT !.in_handler = FALSE]
<1>1. frames # <<>> /\ f \in Frame /\ f = frames[1] /\ 1 \in DOMAIN frames
  BY FrameFacts DEF RunCleanup, HandlerReturn
<1>2. CASE RunCleanup
  <2>1. frames' = <<g>> \o Tail(frames) /\ f.left > 0
    BY <1>2 DEF RunCleanup
  <2>2. f.left - 1 \in 0..CleanupLimit
    BY <1>1, <2>1, LimitsAssumption DEF Frame
  <2>3. g \in Frame /\ g.target = f.target /\ g.left = f.left - 1
    BY <1>1, <2>2 DEF Frame
  <2>4. ~HandlerReturn
    BY <1>2 DEF RunCleanup, HandlerReturn
  <2>. HIDE DEF g
  <2>. QED
    BY <1>1, <2>1, <2>3, <2>4, FrameRetop
<1>3. CASE HandlerReturn
  <2>1. frames' = <<r>> \o Tail(frames)
    BY <1>3 DEF HandlerReturn
  <2>2. r \in Frame /\ r.target = f.target /\ r.left = f.left
    BY <1>1 DEF Frame
  <2>3. ~RunCleanup
    BY <1>3 DEF RunCleanup, HandlerReturn
  <2>. HIDE DEF r
  <2>. QED
    BY <1>1, <2>1, <2>2, <2>3, FrameRetop
<1>. QED
  BY <1>2, <1>3

LEMMA CurrentStep == IInv /\ [Next]_vars => CurrentInv'
<1>. SUFFICES ASSUME IInv, [Next]_vars
              PROVE  CurrentInv'
  OBVIOUS
<1>. USE DEF CurrentInv
<1>1. ASSUME NEW t \in Threads, CreateThread(t)
      PROVE  CurrentInv'
  BY <1>1 DEF CreateThread, IInv
<1>2. CASE FreeZombie
  BY <1>2 DEF FreeZombie, IInv
<1>3. CASE EnterThread
  BY <1>3, EnterThreadFacts DEF EnterThread
<1>4. CASE DestructEnd
  <2>1. current \in alive /\ pc' \in {"thread", "leave"} /\ current' = current
    BY <1>4, TargetFacts DEF DestructEnd
  <2>2. CASE Head(frames).target = current
    BY <1>4, <2>1, <2>2 DEF DestructEnd, threadVars
  <2>3. CASE Head(frames).target # current
    BY <1>4, <2>1, <2>3, TargetFacts, ReapFacts DEF DestructEnd, IInv
  <2>. QED
    BY <2>2, <2>3
<1>5. CASE LeaveThread
  BY <1>5 DEF LeaveThread
<1>6. CASE Slumber \/ EnterLoop \/ LoopTop \/ RunnablesDone \/ LoopReturn
           \/ EventsDone \/ ImproverDone \/ EpollReturn
  BY <1>6 DEF Slumber, EnterLoop, LoopTop, RunnablesDone, LoopReturn, EventsDone,
              ImproverDone, AfterImprover, EpollReturn, InClientCode, threadVars, IInv
<1>7. ASSUME NEW f \in Fds, EpollWait(f)
      PROVE  CurrentInv'
  BY <1>7 DEF EpollWait, InClientCode, IInv
<1>8. CASE UNCHANGED <<pc, current, alive>>
  BY <1>8 DEF IInv
<1>. QED
  BY <1>1, <1>2, <1>3, <1>4, <1>5, <1>6, <1>7, <1>8
     DEF Next, DestructSteps, LoopSteps, vars, threadVars, kernelVars, Disturb,
         DestructBegin, PushCleanup, PullCleanup, HandlerReturn, RunCleanup,
         HandleEvent, Exited

LEMMA DeadStep == IInv /\ [Next]_vars => DeadInv'
<1>. SUFFICES ASSUME IInv, [Next]_vars
              PROVE  DeadInv'
  OBVIOUS
<1>. USE DEF IInv, DeadInv
<1>1. ASSUME NEW t \in Threads, CreateThread(t)
      PROVE  DeadInv'
  BY <1>1 DEF CreateThread, AddRunnable, TypeOK
<1>2. ASSUME NEW t \in Threads, Disturb(t)
      PROVE  DeadInv'
  BY <1>2 DEF Disturb, AddRunnable, TypeOK
<1>3. ASSUME NEW t \in Threads, DestructBegin(t)
      PROVE  DeadInv'
  BY <1>3 DEF DestructBegin, EpollDisable, TypeOK
<1>4. CASE Slumber
  BY <1>4 DEF Slumber, InClientCode, CurrentInv, TypeOK
<1>5. ASSUME NEW f \in Fds, EpollWait(f)
      PROVE  DeadInv'
  BY <1>5 DEF EpollWait, InClientCode, CurrentInv, TypeOK
<1>6. CASE HandleEvent
  BY <1>6, EventThread DEF HandleEvent, EpollDisable, AddRunnable, TypeOK
<1>7. CASE FreeZombie
  <2>. DEFINE t == Head(runnable_list)
  <2>1. epoll_fd[t] = NoFd
    BY <1>7, FreeZombieFacts DEF ZombieInert
  <2>. QED
    BY <1>7, <2>1, FreeZombieFacts
<1>8. CASE EnterThread
  BY <1>8, EnterThreadFacts DEF EnterThread
<1>9. CASE DestructEnd
  BY <1>9, TargetFacts, ReapFacts DEF DestructEnd, threadVars
<1>10. CASE LeaveThread
  <2>1. CASE UNCHANGED threadVars
    BY <2>1 DEF threadVars
  <2>2. CASE destruct_me /\ Reap(current)
    <3>1. current \in alive /\ current \in Threads
      BY <1>10 DEF LeaveThread, CurrentInv, TypeOK
    <3>2. destruct_enabled[current]
      BY <2>2, <3>1 DEF NoDestructLost
    <3>3. epoll_fd[current] = NoFd
      BY <3>1, <3>2 DEF DestructInv
    <3>. QED
      BY <2>2, <3>1, <3>3, ReapFacts
  <2>. QED
    BY <1>10, <2>1, <2>2 DEF LeaveThread
<1>11. CASE UNCHANGED <<alive, runnable, slumber_enabled, destruct_enabled, zombie, epoll_fd>>
  BY <1>11
<1>. QED
  BY <1>1, <1>2, <1>3, <1>4, <1>5, <1>6, <1>7, <1>8, <1>9, <1>10, <1>11
     DEF Next, DestructSteps, LoopSteps, vars, threadVars, kernelVars,
         PushCleanup, PullCleanup, HandlerReturn, RunCleanup, EnterLoop, LoopTop,
         RunnablesDone, LoopReturn, EventsDone, ImproverDone, EpollReturn, Exited

LEMMA DispositionStep == IInv /\ [Next]_vars => OneDisposition'
<1>. SUFFICES ASSUME IInv, [Next]_vars
              PROVE  OneDisposition'
  OBVIOUS
<1>. USE DEF OneDisposition, OnCpu
<1>1. ASSUME NEW t \in Threads, CreateThread(t)
      PROVE  OneDisposition'
  BY <1>1 DEF CreateThread, MayCreate, InClientCode, AddRunnable, CurrentInv, TypeOK, IInv
<1>2. ASSUME NEW t \in Threads, Disturb(t)
      PROVE  OneDisposition'
  BY <1>2 DEF Disturb, AddRunnable, TypeOK, IInv
<1>3. ASSUME NEW t \in Threads, DestructBegin(t)
      PROVE  OneDisposition'
  BY <1>3 DEF DestructBegin, EpollDisable, TypeOK, IInv
<1>4. CASE Slumber
  BY <1>4 DEF Slumber, InClientCode, CurrentInv, TypeOK, IInv
<1>5. ASSUME NEW f \in Fds, EpollWait(f)
      PROVE  OneDisposition'
  BY <1>5, NullsAssumption DEF EpollWait, InClientCode, CurrentInv, TypeOK, IInv
<1>6. CASE HandleEvent
  BY <1>6, EventThread DEF HandleEvent, EpollDisable, AddRunnable, TypeOK, IInv
<1>7. CASE FreeZombie
  BY <1>7, FreeZombieFacts DEF FreeZombie, IInv, TypeOK
<1>8. CASE EnterThread
  BY <1>8, EnterThreadFacts DEF EnterThread, IInv, TypeOK
<1>9. CASE DestructEnd
  <2>. DEFINE t == Head(frames).target
  <2>1. CASE t = current
    <3>1. UNCHANGED <<threadVars, current>>
      BY <1>9, <2>1 DEF DestructEnd
    <3>2. destruct_enabled[current] /\ pc = "thread"
      BY <1>9, <2>1, TargetFacts DEF DestructEnd
    <3>. QED
      BY <3>1, <3>2 DEF IInv, threadVars, TypeOK
  <2>2. CASE t # current
    <3>1. Reap(t) /\ UNCHANGED <<current, destruct_me>> /\ t \in Threads
      BY <1>9, <2>2, TargetFacts DEF DestructEnd
    <3>2. pc = "thread" /\ (pc' = "thread" \/ (pc' = "leave" /\ destruct_me))
      BY <1>9, <2>2, <3>1, TargetFacts DEF DestructEnd, SwitchesOut
    <3>3. destruct_me => current \in alive /\ destruct_enabled[current]
      BY DEF IInv, NoDestructLost
    <3>4. destruct_enabled[t] /\ t \in alive
      BY <1>9, TargetFacts DEF DestructEnd
    <3>5. \A u \in Threads : u # t =>
            /\ u \in alive' <=> u \in alive
            /\ destruct_enabled'[u] = destruct_enabled[u]
            /\ slumber_enabled'[u] = slumber_enabled[u]
            /\ runnable'[u] = runnable[u]
            /\ epoll_fd'[u] = epoll_fd[u]
      BY <3>1, ReapFacts DEF IInv
    <3>6. t \in alive' =>
            /\ destruct_enabled'[t] /\ runnable'[t]
            /\ ~slumber_enabled'[t] /\ epoll_fd'[t] = NoFd
      <4>1. t \in alive' => runnable[t]
        BY <3>1, ReapFacts DEF IInv
      <4>2. runnable[t] => ~slumber_enabled[t] /\ epoll_fd[t] = NoFd
        BY <3>4 DEF IInv
      <4>. QED
        BY <3>1, <3>4, <4>1, <4>2, ReapFacts DEF IInv
    <3>. SUFFICES ASSUME NEW u \in alive'
                  PROVE  /\ pc' = "thread" /\ current' = u =>
                               ~runnable'[u] /\ ~slumber_enabled'[u] /\ epoll_fd'[u] = NoFd
                         /\ runnable'[u] => ~slumber_enabled'[u] /\ epoll_fd'[u] = NoFd
                         /\ slumber_enabled'[u] => epoll_fd'[u] = NoFd
                         /\ ~destruct_enabled'[u] =>
                              \/ pc' = "thread" /\ current' = u
                              \/ runnable'[u] \/ slumber_enabled'[u] \/ epoll_fd'[u] # NoFd
      BY Zenon
    <3>7. CASE u = t
      BY <3>1, <3>6, <3>7, <2>2
    <3>8. CASE u # t
      <4>1. u \in Threads /\ u \in alive
        BY <3>1, <3>8, ReapFacts DEF IInv, TypeOK
      <4>. QED
        BY <4>1, <3>1, <3>2, <3>3, <3>5, <3>8 DEF IInv
    <3>. QED
      BY <3>7, <3>8
  <2>. QED
    BY <2>1, <2>2
<1>10. CASE LeaveThread
  <2>1. current \in alive /\ current \in Threads /\ pc = "leave" /\ pc' = "run"
    BY <1>10 DEF LeaveThread, CurrentInv, IInv, TypeOK
  <2>2. CASE ~destruct_me
    BY <1>10, <2>1, <2>2 DEF LeaveThread, IInv, threadVars
  <2>3. CASE destruct_me
    <3>1. Reap(current) /\ destruct_enabled[current]
      BY <1>10, <2>1, <2>3 DEF LeaveThread, IInv, NoDestructLost
    <3>2. epoll_fd[current] = NoFd
      BY <2>1, <3>1 DEF IInv, DestructInv
    <3>3. \A u \in alive' : u \in alive /\ u \in Threads
      BY <2>1, <3>1, ReapFacts DEF IInv, TypeOK
    <3>4. \A u \in alive' : u # current =>
            /\ destruct_enabled'[u] = destruct_enabled[u]
            /\ slumber_enabled'[u] = slumber_enabled[u]
            /\ runnable'[u] = runnable[u]
            /\ epoll_fd'[u] = epoll_fd[u]
      BY <2>1, <3>1, <3>3, ReapFacts DEF IInv
    <3>5. current \in alive' =>
            /\ destruct_enabled'[current] /\ runnable'[current]
            /\ ~slumber_enabled'[current] /\ epoll_fd'[current] = NoFd
      <4>1. current \in alive' => runnable[current]
        BY <2>1, <3>1, ReapFacts DEF IInv
      <4>2. runnable[current] => ~slumber_enabled[current]
        BY <2>1 DEF IInv
      <4>. QED
        BY <2>1, <3>1, <3>2, <4>1, <4>2, ReapFacts DEF IInv
    <3>. QED
      BY <2>1, <3>3, <3>4, <3>5 DEF IInv
  <2>. QED
    BY <2>2, <2>3
<1>11. CASE EnterLoop \/ LoopTop \/ RunnablesDone \/ ImproverDone \/ LoopReturn
            \/ EpollReturn \/ EventsDone \/ Exited \/ UNCHANGED vars
  BY <1>11 DEF EnterLoop, LoopTop, RunnablesDone, ImproverDone, AfterImprover,
       LoopReturn, EpollReturn, EventsDone, Exited, vars, threadVars, IInv
<1>12. CASE UNCHANGED <<alive, runnable, slumber_enabled, destruct_enabled, epoll_fd, pc, current>>
  BY <1>12 DEF IInv
<1>. QED
  BY <1>1, <1>2, <1>3, <1>4, <1>5, <1>6, <1>7, <1>8, <1>9, <1>10, <1>11, <1>12
     DEF Next, DestructSteps, LoopSteps, vars, threadVars, kernelVars,
         PushCleanup, PullCleanup, HandlerReturn, RunCleanup

LEMMA ZombieStep == IInv /\ [Next]_vars => ZombieInert'
<1>. SUFFICES ASSUME IInv, [Next]_vars
              PROVE  ZombieInert'
  OBVIOUS
<1>. USE DEF ZombieInert, IInv
<1>1. ASSUME NEW t \in Threads, CreateThread(t)
      PROVE  ZombieInert'
  BY <1>1 DEF CreateThread, AddRunnable, TypeOK, BeingDestructed
<1>2. ASSUME NEW t \in Threads, Disturb(t)
      PROVE  ZombieInert'
  BY <1>2 DEF Disturb, AddRunnable, TypeOK, BeingDestructed
<1>3. ASSUME NEW t \in Threads, DestructBegin(t)
      PROVE  ZombieInert'
  <2>1. ~zombie[t]
    BY <1>3 DEF DestructBegin, NoDestructLost
  <2>2. [target |-> t, left |-> HandlersToRun(t), in_handler |-> FALSE] \in Frame
    BY StackTyped DEF Frame, HandlersToRun
  <2>3. BeingDestructed' = {t} \cup BeingDestructed
    BY <1>3, <2>2, FramePush DEF DestructBegin
  <2>. QED
    BY <1>3, <2>1, <2>3 DEF DestructBegin, EpollDisable, TypeOK
<1>4. CASE Slumber
  BY <1>4 DEF Slumber, InClientCode, CurrentInv, TypeOK, BeingDestructed
<1>5. ASSUME NEW f \in Fds, EpollWait(f)
      PROVE  ZombieInert'
  BY <1>5 DEF EpollWait, InClientCode, CurrentInv, TypeOK, BeingDestructed
<1>6. CASE HandleEvent
  BY <1>6, EventThread DEF HandleEvent, EpollDisable, AddRunnable, TypeOK, BeingDestructed
<1>7. CASE FreeZombie
  BY <1>7, FreeZombieFacts DEF FreeZombie, BeingDestructed
<1>8. CASE EnterThread
  BY <1>8, EnterThreadFacts DEF EnterThread, BeingDestructed
<1>9. CASE DestructEnd
  <2>. DEFINE t == Head(frames).target
  <2>1. DistinctTargets /\ frames # <<>> /\ frames' = Tail(frames)
    BY <1>9 DEF DestructEnd, NoDestructLost, DistinctTargets
  <2>2. BeingDestructed' = BeingDestructed \ {t}
    BY <2>1, FramePop
  <2>3. CASE t = current
    BY <1>9, <2>2, <2>3 DEF DestructEnd, threadVars
  <2>4. CASE t # current
    <3>1. Reap(t) /\ current' = current /\ t \in Threads /\ t \in alive /\ epoll_fd[t] = NoFd
      BY <1>9, <2>4, TargetFacts DEF DestructEnd
    <3>2. runnable[t] => ~slumber_enabled[t]
      BY <3>1 DEF OneDisposition
    <3>. QED
      BY <2>2, <2>4, <3>1, <3>2, ReapFacts
  <2>. QED
    BY <2>3, <2>4
<1>10. CASE LeaveThread
  <2>1. current \in alive /\ current \in Threads /\ current' = NoThread
    BY <1>10 DEF LeaveThread, CurrentInv, TypeOK
  <2>2. frames = <<>> /\ frames' = <<>>
    BY <1>10 DEF LeaveThread, NoDestructLost
  <2>3. BeingDestructed' = {}
    BY <2>2 DEF BeingDestructed
  <2>4. CASE ~destruct_me
    BY <1>10, <2>1, <2>3, <2>4, NullsAssumption DEF LeaveThread, threadVars
  <2>5. CASE destruct_me
    <3>1. Reap(current) /\ epoll_fd[current] = NoFd
      BY <1>10, <2>1, <2>5 DEF LeaveThread, NoDestructLost, DestructInv
    <3>2. runnable[current] => ~slumber_enabled[current]
      BY <2>1 DEF OneDisposition
    <3>. QED
      BY <2>1, <2>3, <3>1, <3>2, ReapFacts, NullsAssumption
  <2>. QED
    BY <2>4, <2>5
<1>11. CASE RunCleanup \/ HandlerReturn
  <2>1. BeingDestructed' = BeingDestructed
    BY <1>11, RetopSteps
  <2>. QED
    BY <1>11, <2>1 DEF RunCleanup, HandlerReturn, threadVars
<1>12. CASE UNCHANGED <<alive, runnable, slumber_enabled, zombie, epoll_fd, current, frames>>
  BY <1>12 DEF BeingDestructed
<1>. QED
  BY <1>1, <1>2, <1>3, <1>4, <1>5, <1>6, <1>7, <1>8, <1>9, <1>10, <1>11, <1>12
     DEF Next, DestructSteps, LoopSteps, vars, threadVars, kernelVars,
         PushCleanup, PullCleanup, EnterLoop, LoopTop, RunnablesDone, LoopReturn,
         EventsDone, ImproverDone, EpollReturn, Exited

LEMMA NoDestructLostStep == IInv /\ [Next]_vars => NoDestructLost'
<1>. SUFFICES ASSUME IInv, [Next]_vars
              PROVE  NoDestructLost'
  OBVIOUS
<1>. USE DEF NoDestructLost, IInv
<1>1. ASSUME NEW t \in Threads, CreateThread(t)
      PROVE  NoDestructLost'
  <2>1. t \notin BeingDestructed /\ BeingDestructed' = BeingDestructed
    BY <1>1 DEF CreateThread, BeingDestructed
  <2>2. destruct_me => t # current
    BY <1>1 DEF CreateThread
  <2>. QED
    BY <1>1, <2>1, <2>2 DEF CreateThread, TypeOK
<1>2. ASSUME NEW t \in Threads, DestructBegin(t)
      PROVE  NoDestructLost'
  <2>. DEFINE f == [target |-> t, left |-> HandlersToRun(t), in_handler |-> FALSE]
  <2>1. f \in Frame /\ frames' = <<f>> \o frames /\ f.target = t
    BY <1>2, StackTyped DEF DestructBegin, Frame, HandlersToRun
  <2>2. t \in alive /\ ~destruct_enabled[t] /\ t \notin BeingDestructed
    BY <1>2 DEF DestructBegin
  <2>. HIDE DEF f
  <2>3. /\ BeingDestructed' = {t} \cup BeingDestructed
        /\ frames' # <<>>
    BY <2>1, FramePush
  <2>4. \A k \in DOMAIN frames : frames[k].target # t
    BY <2>2 DEF BeingDestructed
  <2>5. \A k \in DOMAIN frames' : k # 1 => frames'[k].target # t
    BY <2>1, <2>4, FramePush
  <2>6. \A i, j \in DOMAIN frames' : frames'[i].target = frames'[j].target => i = j
    <3>. SUFFICES ASSUME NEW i \in DOMAIN frames', NEW j \in DOMAIN frames',
                         frames'[i].target = frames'[j].target
                  PROVE  i = j
      OBVIOUS
    <3>1. CASE i = 1 \/ j = 1
      BY <2>1, <2>5, <3>1, FramePush
    <3>2. CASE i # 1 /\ j # 1
      <4>1. i - 1 \in DOMAIN frames /\ j - 1 \in DOMAIN frames
        BY <2>1, <3>2, FramePush
      <4>2. frames'[i] = frames[i - 1] /\ frames'[j] = frames[j - 1]
        BY <2>1, <3>2, FramePush
      <4>3. i - 1 = j - 1
        BY <4>1, <4>2
      <4>4. i \in Nat /\ j \in Nat
        BY <2>1, FramePush, FrameFacts
      <4>. QED
        BY <4>3, <4>4
    <3>. QED
      BY <3>1, <3>2
  <2>. QED
    BY <1>2, <2>2, <2>3, <2>6 DEF DestructBegin, InClientCode, TypeOK
<1>3. CASE FreeZombie
  <2>1. frames = <<>> /\ frames' = <<>> /\ ~destruct_me /\ ~destruct_me' /\ current' = current
    BY <1>3 DEF FreeZombie
  <2>2. BeingDestructed = {} /\ BeingDestructed' = {}
    BY <2>1 DEF BeingDestructed
  <2>3. \A u \in alive' : u # Head(runnable_list) /\ u \in Threads /\ u \in alive
    BY <1>3, FreeZombieFacts DEF TypeOK
  <2>. QED
    BY <1>3, <2>1, <2>2, <2>3, FreeZombieFacts
<1>4. CASE EnterThread
  BY <1>4, EnterThreadFacts DEF EnterThread, BeingDestructed
<1>5. CASE DestructEnd
  <2>. DEFINE t == Head(frames).target
  <2>1. DistinctTargets /\ frames # <<>> /\ frames' = Tail(frames)
    BY <1>5 DEF DestructEnd, DistinctTargets
  <2>2. BeingDestructed' = BeingDestructed \ {t} /\ t \in BeingDestructed
    BY <2>1, FramePop
  <2>3. \A i, j \in DOMAIN frames' : frames'[i].target = frames'[j].target => i = j
    <3>. SUFFICES ASSUME NEW i \in DOMAIN frames', NEW j \in DOMAIN frames',
                         frames'[i].target = frames'[j].target
                  PROVE  i = j
      OBVIOUS
    <3>1. i + 1 \in DOMAIN frames /\ j + 1 \in DOMAIN frames
      BY <2>1, FramePop
    <3>2. frames'[i] = frames[i + 1] /\ frames'[j] = frames[j + 1]
      BY <2>1, FramePop
    <3>3. i + 1 = j + 1
      BY <3>1, <3>2
    <3>4. i \in Nat /\ j \in Nat
      <4>1. frames' \in Seq(Frame)
        BY <2>1, PopFront DEF TypeOK
      <4>. QED
        BY <4>1, LenProperties
    <3>. QED
      BY <3>3, <3>4
  <2>4. /\ pc = "thread" /\ current \in alive /\ current' = current
        /\ t \in Threads /\ t \in alive /\ destruct_enabled[t]
    BY <1>5, TargetFacts DEF DestructEnd
  <2>5. pc' = IF frames' = <<>> /\ destruct_me' THEN "leave" ELSE "thread"
    BY <1>5, <2>1 DEF DestructEnd, SwitchesOut
  <2>6. CASE t = current
    <3>1. UNCHANGED threadVars /\ destruct_me'
      BY <1>5, <2>6 DEF DestructEnd
    <3>2. ~destruct_me
      BY <2>1, <2>6, TargetFacts
    <3>. QED
      BY <2>2, <2>3, <2>4, <2>5, <2>6, <3>1, <3>2 DEF threadVars
  <2>7. CASE t # current
    <3>1. Reap(t) /\ destruct_me' = destruct_me
      BY <1>5, <2>7 DEF DestructEnd
    <3>2. \A u \in alive' : u \in alive /\ u \in Threads
      BY <2>4, <3>1, ReapFacts DEF TypeOK
    <3>3. \A u \in alive' : u # t =>
            /\ destruct_enabled'[u] = destruct_enabled[u]
            /\ zombie'[u] = zombie[u]
      BY <2>4, <3>1, <3>2, ReapFacts
    <3>4. t \in alive' => destruct_enabled'[t] /\ zombie'[t]
      BY <2>4, <3>1, ReapFacts
    <3>5. \A u \in Threads : u # t /\ u \in alive => u \in alive'
      BY <2>4, <3>1, ReapFacts
    <3>6. BeingDestructed' \subseteq alive' /\ (destruct_me' => current' \in alive')
      BY <2>2, <2>4, <2>7, <3>1, <3>5 DEF TypeOK
    <3>7. \A u \in alive' :
            destruct_enabled'[u] <=> \/ u \in BeingDestructed'
                                     \/ zombie'[u]
                                     \/ destruct_me' /\ u = current'
      BY <2>2, <2>4, <2>7, <3>1, <3>2, <3>3, <3>4
    <3>. QED
      BY <2>3, <2>5, <3>6, <3>7
  <2>. QED
    BY <2>6, <2>7
<1>6. CASE LeaveThread
  <2>1. /\ current \in alive /\ current \in Threads /\ current' = NoThread
        /\ frames = <<>> /\ frames' = <<>> /\ ~destruct_me'
    BY <1>6 DEF LeaveThread, CurrentInv, TypeOK
  <2>2. BeingDestructed = {} /\ BeingDestructed' = {}
    BY <2>1 DEF BeingDestructed
  <2>3. CASE ~destruct_me
    BY <1>6, <2>1, <2>2, <2>3 DEF LeaveThread, threadVars
  <2>4. CASE destruct_me
    <3>1. Reap(current) /\ destruct_enabled[current]
      BY <1>6, <2>1, <2>4 DEF LeaveThread
    <3>2. \A u \in alive' : u \in alive /\ u \in Threads
      BY <2>1, <3>1, ReapFacts DEF TypeOK
    <3>3. \A u \in alive' : u # current =>
            /\ destruct_enabled'[u] = destruct_enabled[u]
            /\ zombie'[u] = zombie[u]
      BY <2>1, <3>1, <3>2, ReapFacts
    <3>4. current \in alive' => destruct_enabled'[current] /\ zombie'[current]
      BY <2>1, <3>1, ReapFacts
    <3>. QED
      BY <2>1, <2>2, <3>2, <3>3, <3>4
  <2>. QED
    BY <2>3, <2>4
<1>7. CASE RunCleanup \/ HandlerReturn
  <2>1. UNCHANGED <<threadVars, destruct_me, current, pc>> /\ pc = "thread"
    BY <1>7 DEF RunCleanup, HandlerReturn
  <2>2. /\ BeingDestructed' = BeingDestructed
        /\ DOMAIN frames' = DOMAIN frames
        /\ frames # <<>> /\ frames' # <<>>
        /\ \A k \in DOMAIN frames : frames'[k].target = frames[k].target
    BY <1>7, RetopSteps
  <2>. QED
    BY <2>1, <2>2 DEF threadVars
<1>8. ASSUME frames' = frames, UNCHANGED <<alive, destruct_enabled, zombie, current, destruct_me>>,
             pc' = pc \/ (frames = <<>> /\ ~destruct_me)
      PROVE  NoDestructLost'
  BY <1>8 DEF BeingDestructed
<1>9. CASE Slumber \/ (\E f \in Fds : EpollWait(f))
  <2>1. frames = <<>> /\ ~destruct_me
    BY <1>9 DEF Slumber, EpollWait, InClientCode
  <2>. QED
    BY <1>8, <1>9, <2>1 DEF Slumber, EpollWait
<1>10. CASE EnterLoop \/ LoopTop \/ RunnablesDone \/ LoopReturn \/ EventsDone
            \/ ImproverDone \/ EpollReturn
  <2>1. frames = <<>> /\ ~destruct_me
    BY <1>10 DEF EnterLoop, LoopTop, RunnablesDone, LoopReturn, EventsDone,
                 ImproverDone, EpollReturn
  <2>. QED
    BY <1>8, <1>10, <2>1 DEF EnterLoop, LoopTop, RunnablesDone, LoopReturn,
         EventsDone, ImproverDone, EpollReturn, threadVars
<1>11. CASE \/ \E t \in Threads : Disturb(t)
            \/ \E h \in Handler : PushCleanup(h)
            \/ PullCleanup \/ HandleEvent \/ Exited \/ UNCHANGED vars
  BY <1>8, <1>11 DEF Disturb, PushCleanup, PullCleanup, HandleEvent, Exited, vars, threadVars
<1>. QED
  BY <1>1, <1>2, <1>3, <1>4, <1>5, <1>6, <1>7, <1>9, <1>10, <1>11
     DEF Next, DestructSteps, LoopSteps

LEMMA DestructStep == IInv /\ [Next]_vars => DestructInv'
<1>. SUFFICES ASSUME IInv, [Next]_vars
              PROVE  DestructInv'
  OBVIOUS
<1>. USE DEF DestructInv, IInv
<1>1. ASSUME NEW t \in Threads, CreateThread(t)
      PROVE  DestructInv'
  <2>1. t \notin BeingDestructed
    BY <1>1 DEF CreateThread, NoDestructLost
  <2>2. \A i \in DOMAIN frames : frames[i].target # t /\ frames[i].target \in Threads
    BY <2>1, FrameFacts DEF BeingDestructed
  <2>. QED
    BY <1>1, <2>2 DEF CreateThread, TypeOK, BeingDestructed
<1>2. ASSUME NEW t \in Threads, DestructBegin(t)
      PROVE  DestructInv'
  <2>. DEFINE f == [target |-> t, left |-> HandlersToRun(t), in_handler |-> FALSE]
  <2>1. /\ f \in Frame /\ frames' = <<f>> \o frames
        /\ f.target = t /\ f.left = Len(cleanup_stack[t])
    BY <1>2, StackTyped DEF DestructBegin, Frame, HandlersToRun
  <2>2. Len(cleanup_stack[t]) <= Len(cleanup_stack[t])
    BY StackTyped
  <2>. HIDE DEF f
  <2>3. \A i \in DOMAIN frames' :
          frames'[i].left <= Len(cleanup_stack[frames'[i].target])
    BY <2>1, <2>2, FramePush
  <2>4. destruct_me => current # t
    BY <1>2 DEF DestructBegin, NoDestructLost
  <2>5. BeingDestructed' = {t} \cup BeingDestructed
    BY <2>1, FramePush
  <2>6. /\ \A u \in Threads : destruct_enabled'[u] => u = t \/ destruct_enabled[u]
        /\ \A u \in Threads : epoll_fd'[u] = epoll_fd[u] \/ epoll_fd'[u] = NoFd
        /\ epoll_fd'[t] = NoFd
    BY <1>2 DEF DestructBegin, EpollDisable, TypeOK
  <2>. QED
    BY <1>2, <2>3, <2>4, <2>5, <2>6 DEF DestructBegin
<1>3. ASSUME NEW f \in Fds, EpollWait(f)
      PROVE  DestructInv'
  <2>1. frames = <<>> /\ ~destruct_me /\ current \in alive /\ current \in Threads
    BY <1>3 DEF EpollWait, InClientCode, NoDestructLost, CurrentInv, TypeOK
  <2>2. current \notin BeingDestructed /\ ~zombie[current]
    BY <2>1 DEF BeingDestructed, ZombieInert
  <2>3. ~destruct_enabled[current]
    BY <2>1, <2>2 DEF NoDestructLost
  <2>. QED
    BY <1>3, <2>1, <2>3 DEF EpollWait, TypeOK
<1>4. CASE PullCleanup \/ (\E h \in Handler : PushCleanup(h))
  <2>1. ~destruct_enabled[current] /\ current \in alive /\ current \in Threads
    BY <1>4 DEF PullCleanup, PushCleanup, InClientCode, CurrentInv, TypeOK
  <2>2. current \notin BeingDestructed
    BY <2>1 DEF NoDestructLost
  <2>3. \A i \in DOMAIN frames : frames[i].target # current /\ frames[i].target \in Threads
    BY <2>2, FrameFacts DEF BeingDestructed
  <2>4. \A u \in Threads : u # current => cleanup_stack'[u] = cleanup_stack[u]
    BY <1>4 DEF PullCleanup, PushCleanup, TypeOK
  <2>. QED
    BY <1>4, <2>3, <2>4 DEF PullCleanup, PushCleanup, BeingDestructed
<1>5. CASE HandleEvent
  BY <1>5 DEF HandleEvent, EpollDisable, TypeOK, BeingDestructed
<1>6. CASE FreeZombie
  <2>1. frames = <<>> /\ frames' = <<>> /\ ~destruct_me'
    BY <1>6 DEF FreeZombie, NoDestructLost
  <2>2. \A u \in Threads : destruct_enabled'[u] => destruct_enabled[u]
    BY <1>6, FreeZombieFacts
  <2>. QED
    BY <1>6, <2>1, <2>2, FreeZombieFacts
<1>7. CASE EnterThread
  BY <1>7 DEF EnterThread, NoDestructLost
<1>8. CASE DestructEnd
  <2>. DEFINE t == Head(frames).target
  <2>1. DistinctTargets /\ frames # <<>> /\ frames' = Tail(frames)
    BY <1>8 DEF DestructEnd, NoDestructLost, DistinctTargets
  <2>2. /\ BeingDestructed' = BeingDestructed \ {t}
        /\ \A k \in DOMAIN frames' : k + 1 \in DOMAIN frames /\ frames'[k] = frames[k + 1]
    BY <2>1, FramePop
  <2>3. t \in Threads /\ current' = current /\ (t # current => destruct_me' = destruct_me)
    BY <1>8, TargetFacts DEF DestructEnd
  <2>4. \A k \in DOMAIN frames' : frames'[k].target \in Threads /\ frames'[k].target # t
    <3>1. \A k \in DOMAIN frames' : frames'[k].target \in BeingDestructed'
      BY DEF BeingDestructed
    <3>. QED
      BY <2>2, <3>1, FrameFacts
  <2>5. /\ \A u \in Threads : u # t => cleanup_stack'[u] = cleanup_stack[u]
        /\ epoll_fd' = epoll_fd
        /\ \A u \in Threads : destruct_enabled'[u] => destruct_enabled[u]
    <3>1. CASE UNCHANGED threadVars
      BY <3>1 DEF threadVars
    <3>2. CASE Reap(t)
      <4>1. \A u \in Threads : destruct_enabled'[u] => destruct_enabled[u]
        BY <2>3, <3>2, ReapFacts
      <4>2. epoll_fd' = epoll_fd
        BY <3>2 DEF Reap, Free
      <4>. QED
        BY <2>3, <3>2, <4>1, <4>2, ReapFacts
    <3>. QED
      BY <1>8, <3>1, <3>2 DEF DestructEnd
  <2>6. \A k \in DOMAIN frames' : frames'[k].left <= Len(cleanup_stack'[frames'[k].target])
    BY <2>2, <2>4, <2>5
  <2>. QED
    BY <2>2, <2>3, <2>5, <2>6
<1>9. CASE LeaveThread
  <2>1. /\ current \in Threads /\ frames' = <<>> /\ ~destruct_me'
    BY <1>9 DEF LeaveThread, CurrentInv, NoDestructLost, TypeOK
  <2>2. /\ epoll_fd' = epoll_fd
        /\ \A u \in Threads : destruct_enabled'[u] => destruct_enabled[u]
    <3>1. CASE UNCHANGED threadVars
      BY <3>1 DEF threadVars
    <3>2. CASE Reap(current)
      <4>1. \A u \in Threads : destruct_enabled'[u] => destruct_enabled[u]
        BY <2>1, <3>2, ReapFacts
      <4>2. epoll_fd' = epoll_fd
        BY <3>2 DEF Reap, Free
      <4>. QED
        BY <4>1, <4>2
    <3>. QED
      BY <1>9, <3>1, <3>2 DEF LeaveThread
  <2>. QED
    BY <2>1, <2>2
<1>10. CASE RunCleanup \/ HandlerReturn
  <2>1. UNCHANGED <<threadVars, destruct_me, current>>
    BY <1>10 DEF RunCleanup, HandlerReturn
  <2>2. /\ BeingDestructed' = BeingDestructed
        /\ DOMAIN frames' = DOMAIN frames
        /\ \A k \in DOMAIN frames : frames'[k].target = frames[k].target
    BY <1>10, RetopSteps
  <2>3. \A k \in DOMAIN frames : frames'[k].left <= frames[k].left
    <3>1. CASE HandlerReturn
      BY <3>1, RetopSteps, FrameFacts
    <3>2. CASE RunCleanup
      <4>1. \A k \in DOMAIN frames : k # 1 => frames'[k] = frames[k]
        BY <3>2, RetopSteps
      <4>2. frames[1].left - 1 <= frames[1].left
        BY <3>2, RetopSteps, FrameFacts
      <4>3. frames'[1].left = frames[1].left - 1
        BY <3>2, RetopSteps
      <4>. QED
        BY <4>1, <4>2, <4>3, FrameFacts
    <3>. QED
      BY <1>10, <3>1, <3>2
  <2>4. \A k \in DOMAIN frames :
          /\ frames[k].target \in Threads
          /\ frames[k].left \in Nat /\ frames'[k].left \in Nat
          /\ Len(cleanup_stack[frames[k].target]) \in Nat
    <3>1. TypeOK'
      BY TypeStep
    <3>2. \A k \in DOMAIN frames' : frames'[k].left \in 0..CleanupLimit
      <4>1. frames' \in Seq(Frame)
        BY <3>1 DEF TypeOK
      <4>2. \A k \in DOMAIN frames' : frames'[k] \in Frame
        BY <4>1, LenProperties, ElementOfSeq
      <4>. QED
        BY <4>2 DEF Frame
    <3>. QED
      BY <2>2, <3>2, FrameFacts, StackTyped, LimitsAssumption
  <2>5. \A k \in DOMAIN frames : frames'[k].left <= Len(cleanup_stack[frames[k].target])
    BY <2>3, <2>4
  <2>. QED
    BY <2>1, <2>2, <2>5 DEF threadVars
<1>11. CASE UNCHANGED <<destruct_enabled, epoll_fd, frames, cleanup_stack, destruct_me, current>>
  BY <1>11 DEF BeingDestructed
<1>. QED
  BY <1>1, <1>2, <1>3, <1>4, <1>5, <1>6, <1>7, <1>8, <1>9, <1>10, <1>11
     DEF Next, DestructSteps, LoopSteps, vars, threadVars, kernelVars, Disturb,
         Slumber, EnterLoop, LoopTop, RunnablesDone, LoopReturn, EventsDone,
         ImproverDone, EpollReturn, Exited

LEMMA EventsStep == IInv /\ [Next]_vars => EventsInv'
<1>. SUFFICES ASSUME IInv, [Next]_vars
              PROVE  EventsInv'
  OBVIOUS
<1>. USE DEF EventsInv, IInv
<1>1. CASE EpollReturn
  BY <1>1, EventListsSeq DEF EpollReturn, kernelVars
<1>2. CASE HandleEvent
  <2>. DEFINE f == Head(events)
  <2>1. /\ events # <<>> /\ events \in Seq(Fds)
        /\ events' = Tail(events)
        /\ IsInjective(events)
        /\ \A i \in DOMAIN events : watch[events[i]] # NoThread
    BY <1>2 DEF HandleEvent, TypeOK
  <2>2. IsInjective(events') /\ f \notin Range(events') /\ Range(events') \subseteq Range(events)
    BY <2>1, PopRange
  <2>3. \A x \in Range(events') : watch[x] # NoThread /\ x # f /\ x \in Fds
    <3>1. \A x \in Range(events) : watch[x] # NoThread /\ x \in Fds
      BY <2>1, LenProperties, ElementOfSeq DEF Range
    <3>. QED
      BY <2>2, <3>1
  <2>4. \A x \in Fds : x # f => watch'[x] = watch[x]
    BY <1>2, EventThread DEF HandleEvent, EpollDisable, TypeOK
  <2>5. \A i \in DOMAIN events' : events'[i] \in Range(events')
    BY DEF Range
  <2>. QED
    BY <2>2, <2>3, <2>4, <2>5
<1>3. CASE pc' # "events"
  BY <1>3
<1>4. CASE UNCHANGED <<pc, events, watch>>
  BY <1>4
<1>5. CASE pc # "events" /\ pc' = pc
  BY <1>5
<1>6. ASSUME \/ \E t \in Threads : Disturb(t) \/ DestructBegin(t)
             \/ \E h \in Handler : PushCleanup(h)
             \/ PullCleanup \/ RunCleanup \/ HandlerReturn
      PROVE  pc # "events" /\ pc' = pc
  BY <1>6 DEF Disturb, DestructBegin, PushCleanup, PullCleanup, RunCleanup,
              HandlerReturn, InClientCode
<1>7. ASSUME \/ \E f \in Fds : EpollWait(f)
             \/ Slumber \/ DestructEnd \/ EnterLoop \/ LoopTop \/ EnterThread \/ LeaveThread
             \/ RunnablesDone \/ LoopReturn \/ EventsDone \/ ImproverDone
      PROVE  pc' # "events"
  BY <1>7 DEF EpollWait, Slumber, DestructEnd, EnterLoop, LoopTop, EnterThread,
     LeaveThread, RunnablesDone, LoopReturn, EventsDone, ImproverDone, AfterImprover
<1>8. ASSUME (\E t \in Threads : CreateThread(t)) \/ FreeZombie \/ Exited \/ UNCHANGED vars
      PROVE  UNCHANGED <<pc, events, watch>>
  BY <1>8 DEF CreateThread, FreeZombie, Exited, vars, kernelVars
<1>. QED
  BY <1>1, <1>2, <1>3, <1>4, <1>5, <1>6, <1>7, <1>8 DEF Next, DestructSteps, LoopSteps

-----------------------------------------------------------------------------
(* The loop blocks and returns.                                            *)

Watched == {f \in Fds : watch[f] # NoThread}

LEMMA WatchedFinite ==
  /\ IsFiniteSet(Watched)
  /\ Cardinality(Watched) \in Nat
  /\ Cardinality(Watched) = 0 <=> Watched = {}
<1>1. IsFiniteSet(Watched)
  BY FS_Subset, LimitsAssumption DEF Watched
<1>. QED
  BY <1>1, FS_EmptySet, FS_CardinalityType

(* Nothing runnable and nothing in epoll: all that is left slumbers.       *)
LEMMA AllSlumber ==
  ASSUME IInv, pc = "poll", epoll_nr = 0
  PROVE  \A t \in alive : slumber_enabled[t]
<1>. SUFFICES ASSUME NEW t \in alive PROVE slumber_enabled[t]
  OBVIOUS
<1>1. t \in Threads /\ ~runnable[t]
  BY DEF IInv, TypeOK, BlocksOnlyWhenIdle
<1>2. Watched = {}
  BY WatchedFinite DEF IInv, EpollExact, Watched
<1>3. epoll_fd[t] = NoFd
  <2>1. ASSUME epoll_fd[t] \in Fds PROVE FALSE
    <3>1. watch[epoll_fd[t]] = t
      BY <1>1, <2>1 DEF IInv, EpollExact
    <3>. QED
      BY <1>1, <1>2, <2>1, <3>1, NullsAssumption DEF Watched
  <2>. QED
    BY <1>1, <2>1 DEF IInv, TypeOK
<1>4. ~destruct_enabled[t]
  <2>1. frames = <<>> /\ ~destruct_me
    BY DEF IInv, NoDestructLost
  <2>2. t \notin BeingDestructed
    BY <2>1 DEF BeingDestructed
  <2>3. ~zombie[t]
    BY <1>1 DEF IInv, ZombieInert
  <2>. QED
    BY <2>1, <2>2, <2>3 DEF IInv, NoDestructLost
<1>. QED
  BY <1>1, <1>3, <1>4 DEF IInv, OneDisposition, OnCpu

LEMMA IdleStep == IInv /\ [Next]_vars => BlocksOnlyWhenIdle'
<1>. SUFFICES ASSUME IInv, [Next]_vars
              PROVE  BlocksOnlyWhenIdle'
  OBVIOUS
<1>. USE DEF BlocksOnlyWhenIdle
<1>1. CASE LoopTop
  <2>1. CASE runnable_list = <<>>
    <3>1. Range(runnable_list) = {}
      BY <2>1 DEF Range
    <3>. QED
      BY <1>1, <3>1 DEF LoopTop, threadVars, IInv, RunnableListExact
  <2>2. CASE runnable_list # <<>>
    BY <1>1, <2>2 DEF LoopTop
  <2>. QED
    BY <2>1, <2>2
<1>2. CASE LoopReturn
  BY <1>2, AllSlumber DEF LoopReturn, threadVars, IInv
<1>3. CASE pc' \notin {"poll", "exited"}
  BY <1>3
<1>4. CASE UNCHANGED <<pc, threadVars>>
  BY <1>4 DEF threadVars, IInv
<1>5. ASSUME \/ \E t \in Threads : CreateThread(t) \/ Disturb(t) \/ DestructBegin(t)
             \/ \E h \in Handler : PushCleanup(h)
             \/ \E f \in Fds : EpollWait(f)
             \/ PullCleanup \/ Slumber
      PROVE  pc' \notin {"poll", "exited"}
  BY <1>5 DEF CreateThread, Disturb, DestructBegin, PushCleanup, PullCleanup,
              EpollWait, Slumber, InClientCode, MayCreate
<1>6. ASSUME \/ HandlerReturn \/ RunCleanup \/ DestructEnd \/ EnterLoop \/ FreeZombie
             \/ EnterThread \/ LeaveThread \/ RunnablesDone \/ ImproverDone
             \/ EpollReturn \/ HandleEvent \/ EventsDone
      PROVE  pc' \notin {"poll", "exited"}
  BY <1>6 DEF HandlerReturn, RunCleanup, DestructEnd, EnterLoop, FreeZombie,
              EnterThread, LeaveThread, RunnablesDone, ImproverDone,
              EpollReturn, HandleEvent, EventsDone, AfterImprover
<1>7. ASSUME Exited \/ UNCHANGED vars PROVE UNCHANGED <<pc, threadVars>>
  BY <1>7 DEF Exited, vars
<1>. QED
  BY <1>1, <1>2, <1>3, <1>4, <1>5, <1>6, <1>7 DEF Next, DestructSteps, LoopSteps

-----------------------------------------------------------------------------
(* The epoll set and the owners of descriptors.                            *)

(* Leaving epoll keeps the registrations exact.                            *)
LEMMA EpollDisableExact ==
  ASSUME IInv, NEW t \in Threads, epoll_fd[t] # NoFd, EpollDisable(t)
  PROVE  /\ \A u \in Threads, f \in Fds : watch'[f] = u <=> epoll_fd'[u] = f
         /\ \A f \in Fds : watch'[f] = watch[f] \/ watch'[f] = NoThread
         /\ epoll_nr' = Cardinality(Watched')
<1>. DEFINE h == epoll_fd[t]
<1>1. h \in Fds /\ watch[h] = t /\ t # NoThread
  BY NullsAssumption DEF IInv, TypeOK, EpollExact
<1>2. /\ watch'[h] = NoThread
      /\ \A f \in Fds : f # h => watch'[f] = watch[f]
      /\ epoll_fd'[t] = NoFd
      /\ \A u \in Threads : u # t => epoll_fd'[u] = epoll_fd[u]
      /\ epoll_nr' = epoll_nr - 1
  BY <1>1 DEF EpollDisable, IInv, TypeOK
<1>3. \A u \in Threads, f \in Fds : watch'[f] = u <=> epoll_fd'[u] = f
  <2>. SUFFICES ASSUME NEW u \in Threads, NEW f \in Fds
                PROVE  watch'[f] = u <=> epoll_fd'[u] = f
    OBVIOUS
  <2>1. watch[f] = u <=> epoll_fd[u] = f
    BY DEF IInv, EpollExact
  <2>. QED
    BY <1>1, <1>2, <2>1, NullsAssumption
<1>4. Watched' = Watched \ {h} /\ h \in Watched
  BY <1>1, <1>2 DEF Watched
<1>5. Cardinality(Watched') = Cardinality(Watched) - 1
  BY <1>4, WatchedFinite, FS_RemoveElement
<1>. QED
  BY <1>2, <1>3, <1>5 DEF IInv, EpollExact, Watched

(* Handler i of t can still run, and will close f.                         *)
Held(t, i, f) == t \in alive /\ Pending(t, i) /\ f \in Fds /\ cleanup_stack[t][i] = f

LEMMA HeldFacts ==
  ASSUME IInv
  PROVE  /\ \A t \in Threads : \A i, f : Held(t, i, f) => f \in open
         /\ \A t, u \in Threads : \A i, j, f :
              Held(t, i, f) /\ Held(u, j, f) => t = u /\ i = j
BY DEF IInv, OwnerInv, Held, Pending

LEMMA HeldSuffices ==
  ASSUME TypeOK',
         \A t \in Threads : \A i, f : Held(t, i, f)' => f \in open',
         \A t, u \in Threads : \A i, j, f :
           Held(t, i, f)' /\ Held(u, j, f)' => t = u /\ i = j,
         \A f \in Fds : watch'[f] \in alive' => f \in Range(cleanup_stack'[watch'[f]])
  PROVE  OwnerInv'
<1>1. alive' \subseteq Threads
  BY DEF TypeOK
<1>2. \A t \in alive' : \A i \in 1..Len(cleanup_stack'[t]) :
        Pending(t, i)' /\ cleanup_stack'[t][i] \in Fds => cleanup_stack'[t][i] \in open'
  BY <1>1 DEF Held
<1>3. \A t, u \in alive' :
       \A i \in 1..Len(cleanup_stack'[t]) : \A j \in 1..Len(cleanup_stack'[u]) :
         /\ Pending(t, i)' /\ Pending(u, j)'
         /\ cleanup_stack'[t][i] \in Fds
         /\ cleanup_stack'[t][i] = cleanup_stack'[u][j]
         => t = u /\ i = j
  BY <1>1 DEF Held
<1>. QED
  BY <1>2, <1>3 DEF OwnerInv

(* A handler about to run still holds its descriptor, and so does the last *)
(* handler pushed by the current thread.  Nobody waits for it.             *)
LEMMA HolderUnwatched ==
  ASSUME IInv, NEW t \in Threads, NEW i, NEW h \in Fds, Held(t, i, h),
         epoll_fd[t] = NoFd
  PROVE  watch[h] = NoThread
<1>. SUFFICES ASSUME watch[h] # NoThread PROVE FALSE
  OBVIOUS
<1>. DEFINE u == watch[h]
<1>1. u \in Threads /\ u \in alive /\ epoll_fd[u] = h /\ h # NoFd
  BY NullsAssumption DEF IInv, TypeOK, EpollExact
<1>2. ~destruct_enabled[u]
  BY <1>1 DEF IInv, DestructInv
<1>3. h \in Range(cleanup_stack[u])
  BY <1>1 DEF IInv, OwnerInv
<1>4. PICK j \in DOMAIN cleanup_stack[u] : cleanup_stack[u][j] = h
  BY <1>3 DEF Range
<1>5. j \in 1..Len(cleanup_stack[u])
  BY <1>1, <1>4, LenProperties DEF IInv, TypeOK
<1>6. Held(u, j, h)
  BY <1>1, <1>2, <1>4, <1>5 DEF Held, Pending
<1>7. u = t
  BY <1>1, <1>6, HeldFacts
<1>. QED
  BY <1>1, <1>7


LEMMA RunCleanupFacts ==
  ASSUME IInv, RunCleanup
  PROVE  LET t == Head(frames).target
             i == Head(frames).left
             h == cleanup_stack[t][i]
         IN  /\ t \in Threads
             /\ h \in Fds => Held(t, i, h)
             /\ watch' = watch
             /\ open' = open \ {h}
<1>. DEFINE t == Head(frames).target
            i == Head(frames).left
            h == cleanup_stack[t][i]
<1>1. frames # <<>> /\ i > 0
  BY DEF RunCleanup
<1>2. t \in Threads /\ t \in alive /\ epoll_fd[t] = NoFd
  BY <1>1, TargetFacts
<1>3. 1 \in DOMAIN frames /\ frames[1].target = t /\ frames[1].left = i /\ i \in Nat
  <2>1. TypeOK
    BY DEF IInv
  <2>2. 1 \in DOMAIN frames /\ frames[1].target = t /\ frames[1].left = i
    BY <1>1, <2>1, FrameFacts
  <2>. QED
    BY <2>1, <2>2, FrameFacts, LimitsAssumption
<1>4. i <= Len(cleanup_stack[t]) /\ Len(cleanup_stack[t]) \in Nat
  BY <1>2, <1>3, LenProperties DEF IInv, DestructInv, TypeOK
<1>5. Pending(t, i)
  BY <1>1, <1>3, <1>4 DEF Pending
<1>6. h \in Fds => Held(t, i, h)
  BY <1>2, <1>5 DEF Held
<1>7. h \in Fds => watch[h] = NoThread
  BY <1>2, <1>6, HolderUnwatched
<1>8. watch' = [x \in Fds |-> IF x = h THEN NoThread ELSE watch[x]] \/ watch' = watch
  BY DEF RunCleanup
<1>9. watch = [x \in Fds |-> watch[x]]
  BY DEF IInv, TypeOK
<1>10. watch' = watch
  BY <1>7, <1>8, <1>9
<1>. QED
  BY <1>2, <1>6, <1>10 DEF RunCleanup

LEMMA PullCleanupFacts ==
  ASSUME IInv, PullCleanup
  PROVE  LET n == Len(cleanup_stack[current])
             h == cleanup_stack[current][n]
         IN  /\ current \in Threads /\ current \in alive /\ n \in Nat \ {0}
             /\ ~destruct_enabled[current]
             /\ h \in Fds => Held(current, n, h) /\ watch[h] = NoThread
             /\ open' = open \ {h}
             /\ \A f \in Fds : watch[f] # current
             /\ \A t \in Threads : t # current => cleanup_stack'[t] = cleanup_stack[t]
             /\ Len(cleanup_stack'[current]) = n - 1
             /\ \A k \in 1..(n - 1) : cleanup_stack'[current][k] = cleanup_stack[current][k]
<1>. DEFINE s == cleanup_stack[current]
            n == Len(s)
            h == s[n]
<1>1. current \in Threads /\ current \in alive /\ ~destruct_enabled[current] /\ OnCpu(current)
  BY DEF PullCleanup, InClientCode, IInv, CurrentInv, TypeOK, OnCpu
<1>2. epoll_fd[current] = NoFd
  BY <1>1 DEF IInv, OneDisposition
<1>3. s \in Seq(Handler) /\ n \in Nat \ {0}
  BY <1>1, LenProperties DEF PullCleanup, IInv, TypeOK
<1>4. h \in Fds => Held(current, n, h)
  BY <1>1, <1>3 DEF Held, Pending
<1>5. h \in Fds => watch[h] = NoThread
  BY <1>1, <1>2, <1>4, HolderUnwatched
<1>6. \A f \in Fds : watch[f] # current
  BY <1>1, <1>2, NullsAssumption DEF IInv, EpollExact
<1>7. open' = open \ {h}
  BY DEF PullCleanup
<1>8. /\ cleanup_stack'[current] = SubSeq(s, 1, n - 1)
      /\ \A t \in Threads : t # current => cleanup_stack'[t] = cleanup_stack[t]
  BY <1>1 DEF PullCleanup, IInv, TypeOK
<1>9. /\ Len(SubSeq(s, 1, n - 1)) = n - 1
      /\ \A k \in 1..(n - 1) : SubSeq(s, 1, n - 1)[k] = s[k]
  BY <1>3, SubSeqProperties
<1>. QED
  BY <1>1, <1>3, <1>4, <1>5, <1>6, <1>7, <1>8, <1>9

(* The structure being freed is not registered.                            *)
LEMMA ReapEpoll ==
  ASSUME IInv, NEW t \in Threads, epoll_fd[t] = NoFd, alive' = alive \/ alive' = alive \ {t},
         UNCHANGED <<epoll_fd, watch, open, epoll_nr>>
  PROVE  EpollExact'
<1>1. \A f \in Fds : watch[f] # t
  BY NullsAssumption DEF IInv, EpollExact
<1>. QED
  BY <1>1 DEF IInv, EpollExact


LEMMA EpollStep == IInv /\ [Next]_vars => EpollExact'
<1>. SUFFICES ASSUME IInv, [Next]_vars
              PROVE  EpollExact'
  OBVIOUS
<1>1. ASSUME NEW t \in Threads, CreateThread(t)
      PROVE  EpollExact'
  <2>1. epoll_fd[t] = NoFd
    BY <1>1 DEF CreateThread, IInv, DeadInv
  <2>2. \A u \in Threads : epoll_fd'[u] = epoll_fd[u]
    BY <1>1, <2>1 DEF CreateThread, IInv, TypeOK
  <2>. QED
    BY <1>1, <2>2 DEF CreateThread, kernelVars, IInv, EpollExact
<1>2. ASSUME NEW f \in Fds, EpollWait(f)
      PROVE  EpollExact'
  <2>1. /\ current \in Threads /\ current \in alive /\ OnCpu(current)
        /\ f \in open /\ watch[f] = NoThread
    BY <1>2 DEF EpollWait, InClientCode, IInv, CurrentInv, TypeOK, OnCpu
  <2>2. epoll_fd[current] = NoFd /\ current # NoThread
    BY <2>1, NullsAssumption DEF IInv, OneDisposition
  <2>3. /\ epoll_fd'[current] = f
        /\ \A u \in Threads : u # current => epoll_fd'[u] = epoll_fd[u]
        /\ watch'[f] = current
        /\ \A g \in Fds : g # f => watch'[g] = watch[g]
    BY <1>2, <2>1 DEF EpollWait, IInv, TypeOK
  <2>4. \A u \in Threads, g \in Fds : watch'[g] = u <=> epoll_fd'[u] = g
    <3>. SUFFICES ASSUME NEW u \in Threads, NEW g \in Fds
                  PROVE  watch'[g] = u <=> epoll_fd'[u] = g
      OBVIOUS
    <3>1. watch[g] = u <=> epoll_fd[u] = g
      BY DEF IInv, EpollExact
    <3>. QED
      BY <2>1, <2>2, <2>3, <3>1, NullsAssumption
  <2>5. \A g \in Fds : watch'[g] # NoThread => watch'[g] \in alive' /\ g \in open'
    BY <1>2, <2>1, <2>3 DEF EpollWait, IInv, EpollExact
  <2>6. Watched' = Watched \cup {f} /\ f \notin Watched
    BY <2>1, <2>2, <2>3 DEF Watched
  <2>7. Cardinality(Watched') = Cardinality(Watched) + 1
    BY <2>6, WatchedFinite, FS_AddElement
  <2>8. epoll_nr' = Cardinality(Watched')
    BY <1>2, <2>7 DEF EpollWait, IInv, EpollExact, Watched
  <2>. QED
    BY <2>4, <2>5, <2>8 DEF EpollExact, Watched
<1>3. ASSUME NEW t \in Threads, DestructBegin(t)
      PROVE  EpollExact'
  <2>1. CASE epoll_fd[t] # NoFd
    <3>1. EpollDisable(t) /\ open' = open /\ alive' = alive
      BY <1>3, <2>1 DEF DestructBegin
    <3>. QED
      BY <2>1, <3>1, EpollDisableExact DEF IInv, EpollExact, Watched
  <2>2. CASE epoll_fd[t] = NoFd
    BY <1>3, <2>2 DEF DestructBegin, IInv, EpollExact
  <2>. QED
    BY <2>1, <2>2
<1>4. CASE \E h \in Handler : PushCleanup(h)
  BY <1>4 DEF PushCleanup, IInv, EpollExact
<1>5. CASE PullCleanup
  <2>1. UNCHANGED <<alive, epoll_fd, watch, epoll_nr>>
    BY <1>5 DEF PullCleanup
  <2>2. \A f \in Fds : watch[f] # NoThread => f \in open'
    BY <1>5, PullCleanupFacts DEF IInv, EpollExact
  <2>. QED
    BY <2>1, <2>2 DEF IInv, EpollExact
<1>6. CASE RunCleanup
  <2>1. UNCHANGED <<alive, epoll_fd, watch, epoll_nr>>
    BY <1>6, RunCleanupFacts DEF RunCleanup, threadVars
  <2>2. \A f \in Fds : watch[f] # NoThread => f \in open'
    <3>. DEFINE h == cleanup_stack[Head(frames).target][Head(frames).left]
    <3>1. h \in Fds => watch[h] = NoThread
      <4>1. TypeOK /\ frames # <<>>
        BY <1>6 DEF IInv, RunCleanup
      <4>. QED
        BY <1>6, <4>1, RunCleanupFacts, HolderUnwatched, TargetFacts
    <3>2. open' = open \ {h}
      BY <1>6, RunCleanupFacts
    <3>. QED
      BY <3>1, <3>2 DEF IInv, EpollExact
  <2>. QED
    BY <2>1, <2>2 DEF IInv, EpollExact
<1>7. CASE DestructEnd
  <2>. DEFINE t == Head(frames).target
  <2>1. t \in Threads /\ epoll_fd[t] = NoFd
    BY <1>7, TargetFacts DEF DestructEnd
  <2>2. CASE UNCHANGED threadVars
    BY <1>7, <2>2 DEF DestructEnd, threadVars, kernelVars, IInv, EpollExact
  <2>3. CASE Reap(t)
    <3>1. alive' = alive \/ alive' = alive \ {t}
      BY <2>3 DEF Reap, Free
    <3>2. UNCHANGED <<epoll_fd, watch, open, epoll_nr>>
      BY <1>7, <2>3 DEF DestructEnd, kernelVars, Reap, Free
    <3>. QED
      BY <2>1, <3>1, <3>2, ReapEpoll
  <2>. QED
    BY <1>7, <2>2, <2>3 DEF DestructEnd
<1>8. CASE LeaveThread
  <2>1. CASE UNCHANGED threadVars
    BY <1>8, <2>1 DEF LeaveThread, threadVars, kernelVars, IInv, EpollExact
  <2>2. CASE destruct_me /\ Reap(current)
    <3>1. current \in Threads /\ current \in alive
      BY <1>8 DEF LeaveThread, IInv, CurrentInv, TypeOK
    <3>2. epoll_fd[current] = NoFd
      BY <2>2, <3>1 DEF IInv, NoDestructLost, DestructInv
    <3>3. alive' = alive \/ alive' = alive \ {current}
      BY <2>2 DEF Reap, Free
    <3>4. UNCHANGED <<epoll_fd, watch, open, epoll_nr>>
      BY <1>8, <2>2 DEF LeaveThread, kernelVars, Reap, Free
    <3>. QED
      BY <3>1, <3>2, <3>3, <3>4, ReapEpoll
  <2>. QED
    BY <1>8, <2>1, <2>2 DEF LeaveThread
<1>9. CASE FreeZombie
  <2>. DEFINE t == Head(runnable_list)
  <2>1. t \in Threads /\ zombie[t] /\ alive' = alive \ {t} /\ epoll_fd' = epoll_fd
    BY <1>9, FreeZombieFacts
  <2>2. epoll_fd[t] = NoFd
    BY <2>1 DEF IInv, ZombieInert
  <2>3. UNCHANGED <<watch, open, epoll_nr>>
    BY <1>9 DEF FreeZombie, kernelVars
  <2>. QED
    BY <2>1, <2>2, <2>3, ReapEpoll
<1>10. CASE HandleEvent
  <2>. DEFINE t == watch[Head(events)]
  <2>1. t \in Threads /\ epoll_fd[t] # NoFd
    <3>1. t \in Threads /\ epoll_fd[t] = Head(events) /\ Head(events) \in Fds
      BY <1>10, EventThread, PopFront, NullsAssumption DEF HandleEvent, IInv, TypeOK, EpollExact
    <3>. QED
      BY <3>1, NullsAssumption
  <2>2. EpollDisable(t) /\ alive' = alive /\ open' = open
    BY <1>10 DEF HandleEvent
  <2>. QED
    BY <2>1, <2>2, EpollDisableExact DEF IInv, EpollExact, Watched
<1>11. CASE UNCHANGED <<alive, epoll_fd, watch, open, epoll_nr>>
  BY <1>11 DEF IInv, EpollExact
<1>. QED
  BY <1>1, <1>2, <1>3, <1>4, <1>5, <1>6, <1>7, <1>8, <1>9, <1>10, <1>11
     DEF Next, DestructSteps, LoopSteps, vars, threadVars, kernelVars, Disturb,
         Slumber, HandlerReturn, EnterLoop, LoopTop, EnterThread, RunnablesDone,
         LoopReturn, EventsDone, ImproverDone, EpollReturn, Exited


(* A step that pushes no handler and opens, closes and registers nothing.  *)
LEMMA OwnerKept ==
  ASSUME IInv, TypeOK',
         alive' \subseteq alive,
         \A t \in alive' : cleanup_stack'[t] = cleanup_stack[t],
         \A t \in alive' : \A i : Pending(t, i)' => Pending(t, i),
         open' = open,
         \A f \in Fds : watch'[f] = watch[f] \/ watch'[f] = NoThread
  PROVE  OwnerInv'
<1>1. \A t \in Threads : \A i, f : Held(t, i, f)' => Held(t, i, f)
  BY DEF Held
<1>2. \A f \in Fds : watch'[f] \in alive' => f \in Range(cleanup_stack'[watch'[f]])
  <2>1. NoThread \notin alive'
    BY NullsAssumption DEF TypeOK
  <2>. QED
    BY <2>1 DEF IInv, OwnerInv
<1>3. \A t \in Threads : \A i, f : Held(t, i, f)' => f \in open'
  BY <1>1, HeldFacts
<1>4. \A t, u \in Threads : \A i, j, f :
        Held(t, i, f)' /\ Held(u, j, f)' => t = u /\ i = j
  BY <1>1, HeldFacts
<1>. QED
  BY <1>2, <1>3, <1>4, HeldSuffices

(* Reaping the one thread whose handlers are through.                      *)
LEMMA OwnerReaped ==
  ASSUME IInv, TypeOK', NEW t \in Threads,
         alive' = alive \/ alive' = alive \ {t},
         \A u \in Threads : u # t =>
           /\ cleanup_stack'[u] = cleanup_stack[u]
           /\ destruct_enabled'[u] = destruct_enabled[u],
         alive' = alive => cleanup_stack' = cleanup_stack /\ destruct_enabled'[t],
         \A k \in DOMAIN frames' : \E j \in DOMAIN frames : frames'[k] = frames[j],
         \A k \in DOMAIN frames' : frames'[k].target # t,
         open' = open, watch' = watch
  PROVE  OwnerInv'
<1>1. \A u \in alive' : cleanup_stack'[u] = cleanup_stack[u]
  BY DEF TypeOK
<1>2. \A u \in alive' : \A i : Pending(u, i)' => Pending(u, i)
  <2>. SUFFICES ASSUME NEW u \in alive', NEW i, Pending(u, i)'
                PROVE  Pending(u, i)
    OBVIOUS
  <2>1. u \in Threads /\ cleanup_stack'[u] = cleanup_stack[u]
    BY <1>1 DEF TypeOK
  <2>2. u # t
    BY DEF Pending
  <2>. QED
    BY <2>1, <2>2 DEF Pending
<1>. QED
  BY <1>1, <1>2, OwnerKept

LEMMA OwnerStep == IInv /\ [Next]_vars => OwnerInv'
<1>. SUFFICES ASSUME IInv, [Next]_vars
              PROVE  OwnerInv'
  OBVIOUS
<1>0. TypeOK' /\ TypeOK
  BY TypeStep DEF IInv
<1>1. ASSUME NEW t \in Threads, CreateThread(t)
      PROVE  OwnerInv'
  <2>1. /\ cleanup_stack'[t] = <<>> /\ t \notin alive /\ alive' = alive \cup {t}
        /\ \A u \in Threads : u # t =>
             /\ cleanup_stack'[u] = cleanup_stack[u]
             /\ destruct_enabled'[u] = destruct_enabled[u]
        /\ frames' = frames /\ open' = open /\ watch' = watch
    BY <1>1 DEF CreateThread, kernelVars, IInv, TypeOK
  <2>2. \A i : ~Held(t, i, NoFd)' /\ \A f : ~Held(t, i, f)'
    BY <2>1 DEF Held, Pending
  <2>3. \A u \in Threads : \A i, f : Held(u, i, f)' => Held(u, i, f)
    BY <2>1, <2>2 DEF Held, Pending
  <2>4. \A f \in Fds : watch'[f] \in alive' => f \in Range(cleanup_stack'[watch'[f]])
    <3>1. \A f \in Fds : watch[f] # t
      BY <2>1, NullsAssumption DEF IInv, EpollExact
    <3>. QED
      BY <2>1, <3>1, <1>0 DEF IInv, OwnerInv, TypeOK
  <2>5. \A u \in Threads : \A i, f : Held(u, i, f)' => f \in open'
    BY <2>1, <2>3, HeldFacts
  <2>6. \A u, v \in Threads : \A i, j, f :
          Held(u, i, f)' /\ Held(v, j, f)' => u = v /\ i = j
    BY <2>3, HeldFacts
  <2>. QED
    BY <1>0, <2>4, <2>5, <2>6, HeldSuffices
<1>2. ASSUME NEW f \in Fds, EpollWait(f)
      PROVE  OwnerInv'
  <2>1. /\ UNCHANGED <<alive, cleanup_stack, destruct_enabled, frames, open>>
        /\ f \in Range(cleanup_stack[current])
        /\ \A g \in Fds : watch'[g] = IF g = f THEN current ELSE watch[g]
    BY <1>2, <1>0 DEF EpollWait, TypeOK
  <2>2. \A t \in Threads : \A i, g : Held(t, i, g)' => Held(t, i, g)
    BY <2>1 DEF Held, Pending
  <2>3. \A g \in Fds : watch'[g] \in alive' => g \in Range(cleanup_stack'[watch'[g]])
    BY <2>1 DEF IInv, OwnerInv
  <2>4. \A t \in Threads : \A i, g : Held(t, i, g)' => g \in open'
    BY <2>1, <2>2, HeldFacts
  <2>5. \A t, u \in Threads : \A i, j, g :
          Held(t, i, g)' /\ Held(u, j, g)' => t = u /\ i = j
    BY <2>2, HeldFacts
  <2>. QED
    BY <1>0, <2>3, <2>4, <2>5, HeldSuffices
<1>3. ASSUME NEW h \in Handler, PushCleanup(h)
      PROVE  OwnerInv'
  <2>. DEFINE s == cleanup_stack[current]
              n == Len(s)
  <2>1. /\ current \in Threads /\ h \notin open
        /\ UNCHANGED <<alive, destruct_enabled, frames, watch>>
        /\ open' = open \cup ({h} \cap Fds)
        /\ cleanup_stack'[current] = Append(s, h)
        /\ \A t \in Threads : t # current => cleanup_stack'[t] = cleanup_stack[t]
    BY <1>3, <1>0 DEF PushCleanup, InClientCode, IInv, CurrentInv, TypeOK
  <2>2. s \in Seq(Handler) /\ n \in Nat
    BY <2>1, <1>0, LenProperties DEF TypeOK
  <2>3. /\ Len(Append(s, h)) = n + 1
        /\ \A i \in 1..n : Append(s, h)[i] = s[i]
        /\ Append(s, h)[n + 1] = h
    BY <2>2, AppendProperties
  <2>4. \A t \in Threads : \A i, f :
          Held(t, i, f)' => Held(t, i, f) \/ (t = current /\ i = n + 1 /\ f = h)
    <3>. SUFFICES ASSUME NEW t \in Threads, NEW i, NEW f, Held(t, i, f)'
                  PROVE  Held(t, i, f) \/ (t = current /\ i = n + 1 /\ f = h)
      OBVIOUS
    <3>1. CASE t # current
      BY <2>1, <3>1 DEF Held, Pending
    <3>2. CASE t = current
      <4>1. i \in 1..(n + 1)
        BY <2>1, <2>3, <3>2 DEF Held, Pending
      <4>2. CASE i = n + 1
        BY <2>1, <2>3, <3>2, <4>2 DEF Held
      <4>3. CASE i \in 1..n
        BY <2>1, <2>3, <3>2, <4>3 DEF Held, Pending
      <4>. QED
        BY <2>2, <4>1, <4>2, <4>3
    <3>. QED
      BY <3>1, <3>2
  <2>5. \A t \in Threads : \A i : ~Held(t, i, h)
    BY <2>1, HeldFacts
  <2>6. \A t \in Threads : \A i, f : Held(t, i, f)' => f \in open'
    BY <2>1, <2>4, HeldFacts DEF Held
  <2>7. \A t, u \in Threads : \A i, j, f :
          Held(t, i, f)' /\ Held(u, j, f)' => t = u /\ i = j
    BY <2>4, <2>5, HeldFacts
  <2>8. \A f \in Fds : watch'[f] \in alive' => f \in Range(cleanup_stack'[watch'[f]])
    <3>1. Range(s) \subseteq Range(Append(s, h))
      <4>1. DOMAIN s = 1..n /\ DOMAIN Append(s, h) = 1..(n + 1)
        BY <2>2, AppendProperties, LenProperties
      <4>. QED
        BY <2>2, <2>3, <4>1 DEF Range
    <3>. QED
      BY <2>1, <3>1, <1>0 DEF IInv, OwnerInv, TypeOK
  <2>. QED
    BY <1>0, <2>6, <2>7, <2>8, HeldSuffices
<1>4. CASE PullCleanup
  <2>. DEFINE n == Len(cleanup_stack[current])
              h == cleanup_stack[current][n]
  <2>1. /\ current \in Threads /\ n \in Nat \ {0} /\ ~destruct_enabled[current]
        /\ current \in alive
        /\ open' = open \ {h}
        /\ \A f \in Fds : watch[f] # current
        /\ \A t \in Threads : t # current => cleanup_stack'[t] = cleanup_stack[t]
        /\ Len(cleanup_stack'[current]) = n - 1
        /\ \A k \in 1..(n - 1) : cleanup_stack'[current][k] = cleanup_stack[current][k]
    BY <1>4, PullCleanupFacts
  <2>2. UNCHANGED <<alive, destruct_enabled, frames, watch>>
    BY <1>4 DEF PullCleanup
  <2>3. \A t \in Threads : \A i, f :
          Held(t, i, f)' => Held(t, i, f) /\ (t = current => i # n)
    <3>. SUFFICES ASSUME NEW t \in Threads, NEW i, NEW f, Held(t, i, f)'
                  PROVE  Held(t, i, f) /\ (t = current => i # n)
      OBVIOUS
    <3>1. CASE t # current
      BY <2>1, <2>2, <3>1 DEF Held, Pending
    <3>2. CASE t = current
      <4>1. i \in 1..(n - 1) /\ i \in 1..n /\ i # n
        BY <2>1, <3>2 DEF Held, Pending
      <4>. QED
        BY <2>1, <2>2, <3>2, <4>1 DEF Held, Pending
    <3>. QED
      BY <3>1, <3>2
  <2>4. h \in Fds => Held(current, n, h)
    BY <1>4, PullCleanupFacts
  <2>5. \A t \in Threads : \A i, f : Held(t, i, f)' => f \in open'
    <3>. SUFFICES ASSUME NEW t \in Threads, NEW i, NEW f, Held(t, i, f)'
                  PROVE  f \in open'
      OBVIOUS
    <3>1. Held(t, i, f) /\ (t = current => i # n) /\ f \in Fds
      BY <2>3 DEF Held
    <3>2. f # h
      BY <2>1, <2>4, <3>1, HeldFacts
    <3>. QED
      BY <2>1, <3>1, <3>2, HeldFacts
  <2>6. \A t, u \in Threads : \A i, j, f :
          Held(t, i, f)' /\ Held(u, j, f)' => t = u /\ i = j
    BY <2>3, HeldFacts
  <2>7. \A f \in Fds : watch'[f] \in alive' => f \in Range(cleanup_stack'[watch'[f]])
    BY <1>0, <2>1, <2>2 DEF IInv, OwnerInv, TypeOK
  <2>. QED
    BY <1>0, <2>5, <2>6, <2>7, HeldSuffices
<1>5. CASE RunCleanup
  <2>. DEFINE t == Head(frames).target
              n == Head(frames).left
              h == cleanup_stack[t][n]
  <2>1. /\ t \in Threads
        /\ h \in Fds => Held(t, n, h)
        /\ watch' = watch /\ open' = open \ {h}
    BY <1>5, RunCleanupFacts
  <2>2. UNCHANGED <<alive, destruct_enabled, cleanup_stack>>
    BY <1>5 DEF RunCleanup, threadVars
  <2>3. /\ DOMAIN frames' = DOMAIN frames
        /\ \A k \in DOMAIN frames :
             /\ frames'[k].target = frames[k].target
             /\ k # 1 => frames'[k] = frames[k]
        /\ frames'[1].left = frames[1].left - 1 /\ frames[1].left > 0
        /\ 1 \in DOMAIN frames /\ frames[1].target = t /\ frames[1].left = n
    <3>1. frames # <<>>
      BY <1>5 DEF RunCleanup
    <3>2. 1 \in DOMAIN frames /\ Head(frames) = frames[1]
      BY <1>0, <3>1, FrameFacts
    <3>3. /\ DOMAIN frames' = DOMAIN frames
          /\ \A k \in DOMAIN frames :
               /\ frames'[k].target = frames[k].target
               /\ k # 1 => frames'[k] = frames[k]
          /\ frames'[1].left = frames[1].left - 1 /\ frames[1].left > 0
      BY <1>5, <1>0, RetopSteps
    <3>. QED
      BY <3>2, <3>3
  <2>4. n \in Nat \ {0}
    BY <1>0, <2>3, FrameFacts, LimitsAssumption
  <2>5. destruct_enabled[t] /\ DistinctTargets
    BY <1>5, TargetFacts DEF RunCleanup, IInv, NoDestructLost, DistinctTargets
  <2>6. \A u \in Threads : \A i, f :
          Held(u, i, f)' => Held(u, i, f) /\ (u = t => i # n)
    <3>. SUFFICES ASSUME NEW u \in Threads, NEW i, NEW f, Held(u, i, f)'
                  PROVE  Held(u, i, f) /\ (u = t => i # n)
      OBVIOUS
    <3>1. i \in 1..Len(cleanup_stack[u]) /\ i \in Int
      BY <2>2 DEF Held, Pending
    <3>2. CASE ~destruct_enabled[u]
      BY <2>2, <2>5, <3>2 DEF Held, Pending
    <3>3. CASE destruct_enabled[u]
      <4>1. PICK k \in DOMAIN frames : frames'[k].target = u /\ i <= frames'[k].left
        BY <2>2, <2>3, <3>3 DEF Held, Pending
      <4>2. CASE k = 1
        <5>1. u = t /\ i <= n - 1
          BY <2>3, <4>1, <4>2
        <5>2. i <= n /\ i # n
          BY <2>4, <3>1, <5>1
        <5>. QED
          BY <2>2, <2>3, <3>1, <5>1, <5>2 DEF Held, Pending
      <4>3. CASE k # 1
        <5>1. frames[k].target = u /\ i <= frames[k].left /\ u # t
          BY <2>3, <2>5, <4>1, <4>3 DEF DistinctTargets
        <5>. QED
          BY <2>2, <3>1, <5>1 DEF Held, Pending
      <4>. QED
        BY <4>2, <4>3
    <3>. QED
      BY <3>2, <3>3
  <2>7. \A u \in Threads : \A i, f : Held(u, i, f)' => f \in open'
    <3>. SUFFICES ASSUME NEW u \in Threads, NEW i, NEW f, Held(u, i, f)'
                  PROVE  f \in open'
      OBVIOUS
    <3>1. Held(u, i, f) /\ (u = t => i # n) /\ f \in Fds
      BY <2>6 DEF Held
    <3>2. f # h
      BY <2>1, <3>1, HeldFacts
    <3>. QED
      BY <2>1, <3>1, <3>2, HeldFacts
  <2>8. \A u, v \in Threads : \A i, j, f :
          Held(u, i, f)' /\ Held(v, j, f)' => u = v /\ i = j
    BY <2>6, HeldFacts
  <2>9. \A f \in Fds : watch'[f] \in alive' => f \in Range(cleanup_stack'[watch'[f]])
    BY <2>1, <2>2 DEF IInv, OwnerInv
  <2>. QED
    BY <1>0, <2>7, <2>8, <2>9, HeldSuffices
<1>6. ASSUME NEW t \in Threads, DestructBegin(t)
      PROVE  OwnerInv'
  <2>. DEFINE f == [target |-> t, left |-> HandlersToRun(t), in_handler |-> FALSE]
  <2>1. /\ f \in Frame /\ frames' = <<f>> \o frames /\ f.target = t
        /\ t \in alive /\ ~destruct_enabled[t]
        /\ UNCHANGED <<alive, cleanup_stack, open>>
        /\ \A u \in Threads : u # t => destruct_enabled'[u] = destruct_enabled[u]
    BY <1>6, <1>0, StackTyped DEF DestructBegin, Frame, HandlersToRun, TypeOK
  <2>. HIDE DEF f
  <2>2. \A k \in DOMAIN frames' :
          k # 1 => k - 1 \in DOMAIN frames /\ frames'[k] = frames[k - 1]
    BY <2>1, <1>0, FramePush
  <2>3. \A u \in alive' : \A i : Pending(u, i)' => Pending(u, i)
    <3>. SUFFICES ASSUME NEW u \in alive', NEW i, Pending(u, i)', u # t
                  PROVE  Pending(u, i)
      BY <2>1 DEF Pending
    <3>1. u \in Threads /\ i \in 1..Len(cleanup_stack[u])
      BY <2>1, <1>0 DEF Pending, TypeOK
    <3>2. CASE ~destruct_enabled[u]
      BY <3>1, <3>2 DEF Pending
    <3>3. CASE destruct_enabled[u]
      <4>1. PICK k \in DOMAIN frames' : frames'[k].target = u /\ i <= frames'[k].left
        BY <2>1, <3>1, <3>3 DEF Pending
      <4>2. k # 1
        BY <2>1, <4>1, <1>0, FramePush
      <4>. QED
        BY <2>2, <3>1, <4>1, <4>2 DEF Pending
    <3>. QED
      BY <3>2, <3>3
  <2>4. \A g \in Fds : watch'[g] = watch[g] \/ watch'[g] = NoThread
    BY <1>6, <1>0 DEF DestructBegin, EpollDisable, TypeOK
  <2>. QED
    BY <1>0, <2>1, <2>3, <2>4, OwnerKept
<1>7. CASE HandlerReturn
  <2>1. /\ DOMAIN frames' = DOMAIN frames
        /\ \A k \in DOMAIN frames :
             frames'[k].target = frames[k].target /\ frames'[k].left = frames[k].left
    BY <1>7, <1>0, RetopSteps
  <2>2. UNCHANGED <<alive, cleanup_stack, destruct_enabled, open, watch>>
    BY <1>7 DEF HandlerReturn, threadVars, kernelVars
  <2>3. \A u \in alive' : \A i : Pending(u, i)' => Pending(u, i)
    BY <2>1, <2>2 DEF Pending
  <2>. QED
    BY <1>0, <2>2, <2>3, OwnerKept
<1>8. CASE DestructEnd
  <2>. DEFINE t == Head(frames).target
  <2>1. t \in Threads /\ DistinctTargets /\ frames # <<>> /\ frames' = Tail(frames)
        /\ destruct_enabled[t]
    BY <1>8, TargetFacts DEF DestructEnd, IInv, NoDestructLost, DistinctTargets
  <2>2. /\ \A k \in DOMAIN frames' : k + 1 \in DOMAIN frames /\ frames'[k] = frames[k + 1]
        /\ BeingDestructed' = BeingDestructed \ {t}
    BY <2>1, <1>0, FramePop
  <2>3. \A k \in DOMAIN frames' : \E j \in DOMAIN frames : frames'[k] = frames[j]
    BY <2>2
  <2>4. \A k \in DOMAIN frames' : frames'[k].target # t
    BY <2>2 DEF BeingDestructed
  <2>5. open' = open /\ watch' = watch
    BY <1>8 DEF DestructEnd, kernelVars
  <2>6. CASE UNCHANGED threadVars
    <3>1. alive' = alive /\ cleanup_stack' = cleanup_stack /\ destruct_enabled' = destruct_enabled
      BY <2>6 DEF threadVars
    <3>. QED
      BY <1>0, <2>1, <2>3, <2>4, <2>5, <3>1, OwnerReaped
  <2>7. CASE Reap(t)
    <3>1. /\ alive' = alive \/ alive' = alive \ {t}
          /\ \A u \in Threads : u # t =>
               /\ cleanup_stack'[u] = cleanup_stack[u]
               /\ destruct_enabled'[u] = destruct_enabled[u]
      BY <1>0, <2>1, <2>7, ReapFacts
    <3>2. t \in alive
      BY <2>1, TargetFacts
    <3>3. alive' = alive => cleanup_stack' = cleanup_stack /\ destruct_enabled'[t]
      BY <1>0, <2>1, <2>7, <3>2, ReapFacts
    <3>. QED
      BY <1>0, <2>1, <2>3, <2>4, <2>5, <3>1, <3>3, OwnerReaped
  <2>. QED
    BY <1>8, <2>6, <2>7 DEF DestructEnd
<1>9. CASE LeaveThread
  <2>1. /\ current \in Threads /\ current \in alive /\ frames = <<>> /\ frames' = <<>>
        /\ open' = open /\ watch' = watch
    BY <1>9 DEF LeaveThread, IInv, CurrentInv, NoDestructLost, TypeOK, kernelVars
  <2>2. CASE UNCHANGED threadVars
    <3>1. UNCHANGED <<alive, cleanup_stack, destruct_enabled, frames>>
      BY <2>1, <2>2 DEF threadVars
    <3>2. \A u \in alive' : \A i : Pending(u, i)' => Pending(u, i)
      BY <3>1 DEF Pending
    <3>. QED
      BY <1>0, <2>1, <3>1, <3>2, OwnerKept
  <2>3. CASE destruct_me /\ Reap(current)
    <3>1. destruct_enabled[current]
      BY <2>1, <2>3 DEF IInv, NoDestructLost
    <3>2. /\ alive' = alive \/ alive' = alive \ {current}
          /\ \A u \in Threads : u # current =>
               /\ cleanup_stack'[u] = cleanup_stack[u]
               /\ destruct_enabled'[u] = destruct_enabled[u]
      BY <1>0, <2>1, <2>3, ReapFacts
    <3>3. alive' = alive => cleanup_stack' = cleanup_stack /\ destruct_enabled'[current]
      BY <1>0, <2>1, <2>3, <3>1, ReapFacts
    <3>. QED
      BY <1>0, <2>1, <3>2, <3>3, OwnerReaped
  <2>. QED
    BY <1>9, <2>2, <2>3 DEF LeaveThread
<1>10. CASE FreeZombie
  <2>. DEFINE t == Head(runnable_list)
  <2>1. /\ t \in Threads /\ t \in alive /\ alive' = alive \ {t}
        /\ \A u \in Threads : u # t =>
             /\ destruct_enabled'[u] = destruct_enabled[u]
             /\ cleanup_stack'[u] = cleanup_stack[u]
    BY <1>10, FreeZombieFacts
  <2>2. frames' = <<>> /\ open' = open /\ watch' = watch
    BY <1>10 DEF FreeZombie, kernelVars, IInv, NoDestructLost
  <2>3. alive' # alive
    BY <2>1
  <2>. QED
    BY <1>0, <2>1, <2>2, <2>3, OwnerReaped
<1>11. ASSUME UNCHANGED <<alive, cleanup_stack, destruct_enabled, frames, open>>,
              \A f \in Fds : watch'[f] = watch[f] \/ watch'[f] = NoThread
       PROVE  OwnerInv'
  <2>1. \A u \in alive' : \A i : Pending(u, i)' => Pending(u, i)
    BY <1>11 DEF Pending
  <2>. QED
    BY <1>0, <1>11, <2>1, OwnerKept
<1>12. CASE HandleEvent
  <2>1. \A f \in Fds : watch'[f] = watch[f] \/ watch'[f] = NoThread
    BY <1>12, <1>0 DEF HandleEvent, EpollDisable, TypeOK
  <2>. QED
    BY <1>11, <1>12, <2>1 DEF HandleEvent
<1>13. CASE UNCHANGED <<alive, cleanup_stack, destruct_enabled, frames, open, watch>>
  BY <1>11, <1>13
<1>. QED
  BY <1>1, <1>2, <1>3, <1>4, <1>5, <1>6, <1>7, <1>8, <1>9, <1>10, <1>12, <1>13
     DEF Next, DestructSteps, LoopSteps, vars, threadVars, kernelVars, Disturb,
         Slumber, EnterLoop, LoopTop, EnterThread, RunnablesDone,
         LoopReturn, EventsDone, ImproverDone, EpollReturn, Exited
-----------------------------------------------------------------------------
(* The theorems.                                                           *)

LEMMA InitInductive == Init => IInv
<1>. SUFFICES ASSUME Init PROVE IInv
  OBVIOUS
<1>1. TypeOK
  BY InitTyped
<1>2. IsInjective(runnable_list) /\ Range(runnable_list) = {} /\ BeingDestructed = {}
  BY DEF Init, IsInjective, Range, BeingDestructed
<1>3. RunnableListExact /\ OneDisposition
  BY <1>2 DEF Init, RunnableListExact, OneDisposition
<1>4. EpollExact
  <2>1. {f \in Fds : watch[f] # NoThread} = {}
    BY DEF Init
  <2>2. Cardinality({f \in Fds : watch[f] # NoThread}) = 0
    BY <2>1, FS_EmptySet
  <2>. QED
    BY <2>1, <2>2, NullsAssumption DEF Init, EpollExact
<1>5. NoDestructLost
  BY <1>2 DEF Init, NoDestructLost
<1>6. ZombieInert /\ BlocksOnlyWhenIdle /\ CurrentInv /\ DeadInv /\ EventsInv
  BY DEF Init, ZombieInert, BlocksOnlyWhenIdle, CurrentInv, DeadInv, EventsInv
<1>7. DestructInv
  BY <1>2 DEF Init, DestructInv
<1>8. OwnerInv
  BY NullsAssumption DEF Init, OwnerInv
<1>. QED
  BY <1>1, <1>3, <1>4, <1>5, <1>6, <1>7, <1>8 DEF IInv

LEMMA StepInductive == IInv /\ [Next]_vars => IInv'
BY TypeStep, RunnableStep, DispositionStep, EpollStep, NoDestructLostStep,
   ZombieStep, IdleStep, CurrentStep, DeadStep, DestructStep, EventsStep,
   OwnerStep DEF IInv

(* The inductive invariant holds throughout: the joint statement that the  *)
(* list, epoll, the destructs in progress and the owners of descriptors    *)
(* stay consistent, from which the properties below follow.                *)
THEOREM Inductive == Spec => []IInv
<1>1. Init => IInv
  BY InitInductive
<1>2. IInv /\ [Next]_vars => IInv'
  BY StepInductive
<1>. QED
  BY <1>1, <1>2, PTL DEF Spec

(* Every variable of the switch keeps its type, the cleanup stacks their   *)
(* limit included.                                                         *)
THEOREM TypeCorrect == Spec => []TypeOK
<1>1. IInv => TypeOK
  BY DEF IInv
<1>. QED
  BY <1>1, Inductive, PTL

(* The runnable list holds exactly the threads flagged runnable, once.     *)
THEOREM ListCorrect == Spec => []RunnableListExact
<1>1. IInv => RunnableListExact
  BY DEF IInv
<1>. QED
  BY <1>1, Inductive, PTL

(* No thread is lost between running, runnable, slumber and epoll, and     *)
(* none is in two of them.                                                 *)
THEOREM DispositionCorrect == Spec => []OneDisposition
<1>1. IInv => OneDisposition
  BY DEF IInv
<1>. QED
  BY <1>1, Inductive, PTL

(* The kernel's registrations, epoll_fd and epoll_nr agree, and none       *)
(* outlives its thread or its descriptor.                                  *)
THEOREM EpollCorrect == Spec => []EpollExact
<1>1. IInv => EpollExact
  BY DEF IInv
<1>. QED
  BY <1>1, Inductive, PTL

(* No destruct that has begun is forgotten, at any depth of nesting.       *)
THEOREM DestructsCorrect == Spec => []NoDestructLost
<1>1. IInv => NoDestructLost
  BY DEF IInv
<1>. QED
  BY <1>1, Inductive, PTL

(* A zombie only waits to be dequeued.                                     *)
THEOREM ZombiesCorrect == Spec => []ZombieInert
<1>1. IInv => ZombieInert
  BY DEF IInv
<1>. QED
  BY <1>1, Inductive, PTL

(* The loop blocks in epoll only when nothing is runnable, and returns     *)
(* only when all that is left slumbers.                                    *)
THEOREM IdleCorrect == Spec => []BlocksOnlyWhenIdle
<1>1. IInv => BlocksOnlyWhenIdle
  BY DEF IInv
<1>. QED
  BY <1>1, Inductive, PTL

LEMMA AssuresFollow == IInv => Assures
<1>. SUFFICES ASSUME IInv PROVE Assures
  OBVIOUS
<1>1. \A t \in alive : slumber_enabled[t] => ~runnable[t]
  BY DEF IInv, OneDisposition
<1>2. pc = "run" /\ runnable_list # <<>> => runnable[Head(runnable_list)]
  <2>1. runnable_list # <<>> => Head(runnable_list) \in Range(runnable_list)
    BY PopRange DEF IInv, TypeOK
  <2>. QED
    BY <2>1 DEF IInv, RunnableListExact
<1>3. ASSUME pc = "events", events # <<>>
      PROVE  LET t == watch[Head(events)]
             IN  t \in alive /\ epoll_fd[t] = Head(events) /\ ~runnable[t]
  <2>1. /\ Head(events) \in Fds
        /\ watch[Head(events)] # NoThread
    BY <1>3, PopFront DEF IInv, TypeOK, EventsInv
  <2>2. watch[Head(events)] \in alive /\ watch[Head(events)] \in Threads
    BY <2>1 DEF IInv, EpollExact, TypeOK
  <2>3. epoll_fd[watch[Head(events)]] = Head(events)
    BY <2>1, <2>2 DEF IInv, EpollExact
  <2>. QED
    BY <2>1, <2>2, <2>3, NullsAssumption DEF IInv, OneDisposition
<1>4. pc = "thread" /\ frames = <<>> => ~destruct_me
  BY DEF IInv, NoDestructLost
<1>5. ASSUME pc = "thread", frames # <<>>
      PROVE  /\ epoll_fd[Head(frames).target] = NoFd
             /\ Head(frames).target = current => ~destruct_me
  BY <1>5, TargetFacts
<1>. QED
  BY <1>1, <1>2, <1>3, <1>4, <1>5 DEF Assures

(* None of the switch's own assertions can fail.                           *)
THEOREM AssuresHold == Spec => []Assures
BY AssuresFollow, Inductive, PTL

-----------------------------------------------------------------------------
(* Switch implements Scheduler under statusOf and owedOf: each step of the *)
(* switch is one step of the abstract thread it acts on, or none.  Which   *)
(* one follows from the inductive invariant.                               *)

(* The mapping, thread by thread.                                          *)

LEMMA StatusKept ==
  ASSUME NEW u \in Threads,
         u \in alive' <=> u \in alive,
         destruct_enabled'[u] = destruct_enabled[u],
         runnable'[u] = runnable[u],
         slumber_enabled'[u] = slumber_enabled[u],
         epoll_fd'[u] = epoll_fd[u]
  PROVE  statusOf(u)' = statusOf(u)
BY DEF statusOf

LEMMA OwedKept ==
  ASSUME NEW u \in Threads,
         destruct_enabled'[u] = destruct_enabled[u],
         cleanup_stack'[u] = cleanup_stack[u],
         frames' = frames
  PROVE  owedOf(u)' = owedOf(u)
BY DEF owedOf, BeingDestructed

LEMMA TheFrame ==
  ASSUME NEW fr, NEW k \in DOMAIN fr,
         \A i, j \in DOMAIN fr : fr[i].target = fr[j].target => i = j
  PROVE  (CHOOSE i \in DOMAIN fr : fr[i].target = fr[k].target) = k
OBVIOUS

(* What a thread in a destruct owes is in its frame.                       *)
LEMMA OwedByFrame ==
  ASSUME NEW u \in Threads, NEW k \in DOMAIN frames, DistinctTargets,
         destruct_enabled[u], frames[k].target = u
  PROVE  owedOf(u) = frames[k].left + (IF frames[k].in_handler THEN 1 ELSE 0)
BY TheFrame DEF owedOf, BeingDestructed, DistinctTargets

LEMMA OwedByFrameNext ==
  ASSUME NEW u \in Threads, NEW k \in DOMAIN frames', DistinctTargets',
         destruct_enabled'[u], frames'[k].target = u
  PROVE  owedOf(u)' = frames'[k].left + (IF frames'[k].in_handler THEN 1 ELSE 0)
<1>1. (CHOOSE i \in DOMAIN frames' : frames'[i].target = frames'[k].target) = k
  BY TheFrame DEF DistinctTargets
<1>. QED
  BY <1>1 DEF owedOf, BeingDestructed

(* Frames move when another is pushed, popped or changed.                  *)
LEMMA OwedMoved ==
  ASSUME NEW u \in Threads, DistinctTargets, DistinctTargets',
         destruct_enabled'[u] = destruct_enabled[u],
         cleanup_stack'[u] = cleanup_stack[u],
         u \in BeingDestructed' <=> u \in BeingDestructed,
         \A k \in DOMAIN frames : frames[k].target = u =>
           \E m \in DOMAIN frames' : frames'[m] = frames[k]
  PROVE  owedOf(u)' = owedOf(u)
<1>1. CASE ~destruct_enabled[u] \/ u \notin BeingDestructed
  BY <1>1 DEF owedOf
<1>2. CASE destruct_enabled[u] /\ u \in BeingDestructed
  <2>1. PICK k \in DOMAIN frames : frames[k].target = u
    BY <1>2 DEF BeingDestructed
  <2>2. PICK m \in DOMAIN frames' : frames'[m] = frames[k]
    BY <2>1
  <2>3. owedOf(u) = frames[k].left + (IF frames[k].in_handler THEN 1 ELSE 0)
    BY <1>2, <2>1, OwedByFrame
  <2>4. owedOf(u)' = frames'[m].left + (IF frames'[m].in_handler THEN 1 ELSE 0)
    BY <1>2, <2>1, <2>2, OwedByFrameNext
  <2>. QED
    BY <2>2, <2>3, <2>4
<1>. QED
  BY <1>1, <1>2

LEMMA AbstractKept ==
  /\ (\A u \in Threads : statusOf(u)' = statusOf(u)) =>
       [u \in Threads |-> statusOf(u)]' = [u \in Threads |-> statusOf(u)]
  /\ (\A u \in Threads : owedOf(u)' = owedOf(u)) =>
       [u \in Threads |-> owedOf(u)]' = [u \in Threads |-> owedOf(u)]
OBVIOUS

LEMMA AbstractMove ==
  ASSUME NEW t \in Threads, NEW from, NEW to,
         statusOf(t) = from, statusOf(t)' = to,
         \A u \in Threads \ {t} : statusOf(u)' = statusOf(u)
  PROVE  Abstract!Move(t, from, to)
BY DEF Abstract!Move

LEMMA AbstractOwe ==
  ASSUME NEW t \in Threads, NEW n, owedOf(t)' = n,
         \A u \in Threads \ {t} : owedOf(u)' = owedOf(u)
  PROVE  Abstract!Owe(t, n)
BY DEF Abstract!Owe

LEMMA AbstractStutter ==
  ASSUME \A u \in Threads : statusOf(u)' = statusOf(u) /\ owedOf(u)' = owedOf(u)
  PROVE  UNCHANGED Abstract!vars
BY AbstractKept DEF Abstract!vars

-----------------------------------------------------------------------------
(* The steps.                                                              *)

AbstractStep == [Abstract!Next]_(Abstract!vars)

(* The thread that runs client code is running in Scheduler's sense.       *)
LEMMA CurrentRuns ==
  ASSUME IInv, pc = "thread", ~destruct_enabled[current]
  PROVE  /\ current \in Threads /\ current \in alive
         /\ ~runnable[current] /\ ~slumber_enabled[current] /\ epoll_fd[current] = NoFd
         /\ statusOf(current) = "running"
         /\ owedOf(current) = Len(cleanup_stack[current])
<1>1. current \in alive /\ current \in Threads
  BY DEF IInv, CurrentInv, TypeOK
<1>2. ~runnable[current] /\ ~slumber_enabled[current] /\ epoll_fd[current] = NoFd
  BY <1>1 DEF IInv, OneDisposition, OnCpu
<1>. QED
  BY <1>1, <1>2 DEF statusOf, owedOf

(* With no destruct in progress it is not one that is destructed.          *)
LEMMA CurrentKept ==
  ASSUME IInv, pc = "thread", frames = <<>>
  PROVE  ~destruct_enabled[current]
<1>1. current \in alive /\ current \in Threads
  BY DEF IInv, CurrentInv, TypeOK
<1>2. ~destruct_me /\ current \notin BeingDestructed /\ ~zombie[current]
  BY <1>1 DEF IInv, NoDestructLost, BeingDestructed, ZombieInert
<1>. QED
  BY <1>1, <1>2 DEF IInv, NoDestructLost

LEMMA CreateMaps ==
  ASSUME IInv, NEW t \in Threads, CreateThread(t)
  PROVE  AbstractStep
<1>1. statusOf(t) = "absent"
  BY DEF CreateThread, statusOf
<1>2. statusOf(t)' = "ready" /\ owedOf(t)' = 0
  BY DEF CreateThread, AddRunnable, statusOf, owedOf, IInv, TypeOK
<1>3. \A u \in Threads \ {t} : statusOf(u)' = statusOf(u)
  BY StatusKept DEF CreateThread, AddRunnable, IInv, TypeOK
<1>4. \A u \in Threads \ {t} : owedOf(u)' = owedOf(u)
  BY OwedKept DEF CreateThread, IInv, TypeOK
<1>5. Abstract!Create(t)
  BY <1>1, <1>2, <1>3, <1>4, AbstractMove, AbstractOwe DEF Abstract!Create
<1>. QED
  BY <1>5 DEF AbstractStep, Abstract!Next

LEMMA DisturbMaps ==
  ASSUME IInv, NEW t \in Threads, Disturb(t)
  PROVE  AbstractStep
<1>1. ~runnable[t]
  BY DEF Disturb, IInv, OneDisposition
<1>2. \A u \in Threads : owedOf(u)' = owedOf(u)
  BY OwedKept DEF Disturb
<1>3. \A u \in Threads \ {t} : statusOf(u)' = statusOf(u)
  BY StatusKept DEF Disturb, AddRunnable, IInv, TypeOK
<1>4. CASE destruct_enabled[t]
  <2>1. statusOf(t)' = statusOf(t)
    BY <1>4 DEF Disturb, statusOf
  <2>. QED
    BY <1>2, <1>3, <2>1, AbstractStutter DEF AbstractStep
<1>5. CASE ~destruct_enabled[t]
  <2>1. statusOf(t) = "asleep" /\ statusOf(t)' = "ready"
    BY <1>1, <1>5 DEF Disturb, AddRunnable, statusOf, IInv, TypeOK
  <2>2. Abstract!Wake(t)
    BY <1>2, <1>3, <2>1, AbstractMove, AbstractKept DEF Abstract!Wake
  <2>. QED
    BY <2>2 DEF AbstractStep, Abstract!Next
<1>. QED
  BY <1>4, <1>5

LEMMA SlumberMaps ==
  ASSUME IInv, Slumber
  PROVE  AbstractStep
<1>1. ~destruct_enabled[current]
  BY CurrentKept DEF Slumber, InClientCode
<1>2. PICK t \in Threads : t = current /\ t = current'
  BY <1>1, CurrentRuns DEF Slumber, InClientCode
<1>3. statusOf(t) = "running" /\ statusOf(t)' = "asleep"
  BY <1>1, <1>2, CurrentRuns DEF Slumber, InClientCode, statusOf, IInv, TypeOK
<1>4. \A u \in Threads \ {t} : statusOf(u)' = statusOf(u)
  BY <1>2, StatusKept DEF Slumber, IInv, TypeOK
<1>5. \A u \in Threads : owedOf(u)' = owedOf(u)
  BY OwedKept DEF Slumber
<1>6. Abstract!Block(t)
  BY <1>3, <1>4, <1>5, AbstractMove, AbstractKept DEF Abstract!Block
<1>. QED
  BY <1>6 DEF AbstractStep, Abstract!Next

LEMMA EpollWaitMaps ==
  ASSUME IInv, NEW f \in Fds, EpollWait(f)
  PROVE  AbstractStep
<1>1. ~destruct_enabled[current]
  BY CurrentKept DEF EpollWait, InClientCode
<1>2. PICK t \in Threads : t = current /\ t = current'
  BY <1>1, CurrentRuns DEF EpollWait, InClientCode
<1>3. statusOf(t) = "running" /\ statusOf(t)' = "waiting"
  BY <1>1, <1>2, CurrentRuns, NullsAssumption
     DEF EpollWait, InClientCode, statusOf, IInv, TypeOK
<1>4. \A u \in Threads \ {t} : statusOf(u)' = statusOf(u)
  BY <1>2, StatusKept DEF EpollWait, IInv, TypeOK
<1>5. \A u \in Threads : owedOf(u)' = owedOf(u)
  BY OwedKept DEF EpollWait
<1>6. Abstract!Block(t)
  BY <1>3, <1>4, <1>5, AbstractMove, AbstractKept DEF Abstract!Block
<1>. QED
  BY <1>6 DEF AbstractStep, Abstract!Next

LEMMA PushCleanupMaps ==
  ASSUME IInv, NEW h \in Handler, PushCleanup(h)
  PROVE  AbstractStep
<1>1. PICK t \in Threads : t = current /\ t = current'
  BY CurrentRuns DEF PushCleanup, InClientCode
<1>2. /\ statusOf(t) = "running" /\ owedOf(t) = Len(cleanup_stack[t])
      /\ Len(cleanup_stack[t]) < CleanupLimit /\ ~destruct_enabled'[t]
  BY <1>1, CurrentRuns DEF PushCleanup, InClientCode, CleanupRoom
<1>3. \A u \in Threads : statusOf(u)' = statusOf(u)
  BY StatusKept DEF PushCleanup
<1>4. owedOf(t)' = owedOf(t) + 1
  <2>1. cleanup_stack[t] \in Seq(Handler)
    BY DEF IInv, TypeOK
  <2>2. Len(Append(cleanup_stack[t], h)) = Len(cleanup_stack[t]) + 1
    BY <2>1, AppendProperties
  <2>3. cleanup_stack'[t] = Append(cleanup_stack[t], h)
    BY <1>1 DEF PushCleanup, IInv, TypeOK
  <2>. QED
    BY <1>2, <2>2, <2>3 DEF owedOf
<1>5. \A u \in Threads \ {t} : owedOf(u)' = owedOf(u)
  BY <1>1, OwedKept DEF PushCleanup, IInv, TypeOK
<1>6. Abstract!Register(t)
  BY <1>2, <1>3, <1>4, <1>5, AbstractKept, AbstractOwe DEF Abstract!Register
<1>. QED
  BY <1>6 DEF AbstractStep, Abstract!Next

LEMMA PullCleanupMaps ==
  ASSUME IInv, PullCleanup
  PROVE  AbstractStep
<1>1. PICK t \in Threads : t = current /\ t = current'
  BY CurrentRuns DEF PullCleanup, InClientCode
<1>2. /\ statusOf(t) = "running" /\ owedOf(t) = Len(cleanup_stack[t])
      /\ Len(cleanup_stack[t]) > 0 /\ ~destruct_enabled'[t]
  BY <1>1, CurrentRuns DEF PullCleanup, InClientCode
<1>3. \A u \in Threads : statusOf(u)' = statusOf(u)
  BY StatusKept DEF PullCleanup
<1>4. owedOf(t)' = owedOf(t) - 1
  <2>. DEFINE n == Len(cleanup_stack[t]) - 1
  <2>1. cleanup_stack[t] \in Seq(Handler) /\ n \in Nat
    BY <1>2, StackTyped DEF IInv, TypeOK
  <2>2. Len(SubSeq(cleanup_stack[t], 1, n)) = n
    BY <2>1, StackTyped, SubSeqProperties, LimitsAssumption DEF IInv
  <2>3. cleanup_stack'[t] = SubSeq(cleanup_stack[t], 1, n)
    BY <1>1 DEF PullCleanup, IInv, TypeOK
  <2>. QED
    BY <1>2, <2>2, <2>3 DEF owedOf
<1>5. \A u \in Threads \ {t} : owedOf(u)' = owedOf(u)
  BY <1>1, OwedKept DEF PullCleanup, IInv, TypeOK
<1>6. Abstract!Unregister(t)
  BY <1>2, <1>3, <1>4, <1>5, AbstractKept, AbstractOwe DEF Abstract!Unregister
<1>. QED
  BY <1>6 DEF AbstractStep, Abstract!Next

(* The frames are of different threads before and after a step.            *)
LEMMA Distinct ==
  ASSUME IInv, IInv'
  PROVE  DistinctTargets /\ DistinctTargets'
BY DEF IInv, NoDestructLost, DistinctTargets

LEMMA DestructBeginMaps ==
  ASSUME IInv, IInv', NEW t \in Threads, DestructBegin(t)
  PROVE  AbstractStep
<1>. DEFINE f == [target |-> t, left |-> HandlersToRun(t), in_handler |-> FALSE]
<1>0. TypeOK /\ f \in Frame /\ f.target = t
  BY StackTyped DEF IInv, Frame, HandlersToRun
<1>1. frames' = <<f>> \o frames
  BY DEF DestructBegin
<1>2. /\ 1 \in DOMAIN frames' /\ frames'[1] = f
      /\ \A k \in DOMAIN frames : k + 1 \in DOMAIN frames' /\ frames'[k + 1] = frames[k]
      /\ BeingDestructed' = {t} \cup BeingDestructed
  <2>. HIDE DEF f
  <2>. QED
    BY <1>0, <1>1, FramePush, FrameFacts
<1>3. /\ ~destruct_enabled[t] /\ destruct_enabled'[t]
      /\ \A u \in Threads \ {t} : destruct_enabled'[u] = destruct_enabled[u]
  BY <1>0 DEF DestructBegin, TypeOK
<1>4. \A u \in Threads \ {t} : statusOf(u)' = statusOf(u)
  BY <1>0, <1>3, StatusKept DEF DestructBegin, EpollDisable, TypeOK
<1>5. /\ statusOf(t) \notin {"absent", "dying"}
      /\ statusOf(t)' = "dying"
  BY <1>3 DEF DestructBegin, statusOf
<1>6. owedOf(t)' = owedOf(t)
  <2>1. owedOf(t)' = f.left
    <3>1. owedOf(t)' = frames'[1].left + (IF frames'[1].in_handler THEN 1 ELSE 0)
      BY <1>0, <1>2, <1>3, OwedByFrameNext, Distinct
    <3>2. f.left \in Int
      BY <1>0, LimitsAssumption DEF Frame
    <3>. QED
      BY <1>2, <3>1, <3>2
  <2>. QED
    BY <2>1, <1>3 DEF owedOf, HandlersToRun
<1>7. \A u \in Threads \ {t} : owedOf(u)' = owedOf(u)
  BY <1>2, <1>3, OwedMoved, Distinct DEF DestructBegin
<1>8. Abstract!Destruct(t)
  BY <1>4, <1>5, <1>6, <1>7, AbstractKept DEF Abstract!Destruct
<1>. QED
  BY <1>8 DEF AbstractStep, Abstract!Next

(* A step within the innermost destruct leaves what others owe.            *)
LEMMA RetopOwed ==
  ASSUME IInv, IInv', RunCleanup \/ HandlerReturn
  PROVE  \E t \in Threads :
           /\ t = Head(frames).target
           /\ statusOf(t) = "dying"
           /\ owedOf(t) = frames[1].left + (IF frames[1].in_handler THEN 1 ELSE 0)
           /\ owedOf(t)' = frames'[1].left + (IF frames'[1].in_handler THEN 1 ELSE 0)
           /\ \A u \in Threads : statusOf(u)' = statusOf(u)
           /\ \A u \in Threads \ {t} : owedOf(u)' = owedOf(u)
<1>0. TypeOK /\ frames # <<>> /\ UNCHANGED threadVars
  BY DEF IInv, RunCleanup, HandlerReturn
<1>1. PICK t \in Threads : t = Head(frames).target /\ t \in alive /\ destruct_enabled[t]
  BY <1>0, TargetFacts
<1>2. /\ BeingDestructed' = BeingDestructed
      /\ DOMAIN frames' = DOMAIN frames
      /\ \A k \in DOMAIN frames : frames'[k].target = frames[k].target
      /\ \A k \in DOMAIN frames : k # 1 => frames'[k] = frames[k]
  BY <1>0, RetopSteps
<1>3. 1 \in DOMAIN frames /\ frames[1] = Head(frames)
  BY <1>0, PopFront DEF TypeOK
<1>4. /\ owedOf(t) = frames[1].left + (IF frames[1].in_handler THEN 1 ELSE 0)
      /\ owedOf(t)' = frames'[1].left + (IF frames'[1].in_handler THEN 1 ELSE 0)
  BY <1>0, <1>1, <1>2, <1>3, OwedByFrame, OwedByFrameNext, Distinct DEF threadVars
<1>5. \A u \in Threads : statusOf(u)' = statusOf(u)
  BY <1>0, StatusKept DEF threadVars
<1>6. ASSUME NEW u \in Threads \ {t}
      PROVE  owedOf(u)' = owedOf(u)
  <2>1. \A k \in DOMAIN frames : frames[k].target = u => k # 1
    BY <1>1, <1>3
  <2>. QED
    BY <1>0, <1>2, <2>1, OwedMoved, Distinct DEF threadVars
<1>7. statusOf(t) = "dying"
  BY <1>1 DEF statusOf
<1>. QED
  BY <1>1, <1>4, <1>5, <1>6, <1>7

(* A handler that closes a descriptor is through in this step; an opaque   *)
(* one is owed until it returns.                                           *)
LEMMA RunCleanupMaps ==
  ASSUME IInv, IInv', RunCleanup
  PROVE  AbstractStep
<1>. DEFINE f == Head(frames)
            h == cleanup_stack[f.target][f.left]
<1>0. TypeOK /\ frames # <<>> /\ f \in Frame /\ frames[1] = f /\ Tail(frames) \in Seq(Frame)
  BY ListTyped, PopFront DEF IInv, RunCleanup, TypeOK
<1>1. /\ ~f.in_handler /\ f.left > 0 /\ f.left \in Nat
      /\ frames' = <<[f EXCEPT !.left = @ - 1, !.in_handler = (h = User)]>> \o Tail(frames)
  BY <1>0, LimitsAssumption DEF RunCleanup, Frame
<1>2. frames'[1] = [f EXCEPT !.left = @ - 1, !.in_handler = (h = User)]
  BY <1>1
<1>3. /\ frames'[1].left = f.left - 1
      /\ h = User => frames'[1].in_handler = TRUE
      /\ h # User => frames'[1].in_handler = FALSE
  BY <1>0, <1>2 DEF Frame
<1>. HIDE DEF f, h
<1>4. PICK t \in Threads :
        /\ statusOf(t) = "dying"
        /\ owedOf(t) = f.left + (IF f.in_handler THEN 1 ELSE 0)
        /\ owedOf(t)' = frames'[1].left + (IF frames'[1].in_handler THEN 1 ELSE 0)
        /\ \A u \in Threads : statusOf(u)' = statusOf(u)
        /\ \A u \in Threads \ {t} : owedOf(u)' = owedOf(u)
  BY <1>0, RetopOwed
<1>5. CASE h = User
  <2>1. owedOf(t)' = owedOf(t)
    BY <1>0, <1>1, <1>3, <1>4, <1>5
  <2>. QED
    BY <1>4, <2>1, AbstractStutter DEF AbstractStep
<1>6. CASE h # User
  <2>1. owedOf(t) > 0 /\ owedOf(t)' = owedOf(t) - 1
    BY <1>0, <1>1, <1>3, <1>4, <1>6
  <2>2. Abstract!Owe(t, owedOf(t) - 1)
    BY <1>4, <2>1, AbstractOwe
  <2>3. Abstract!RunCleanup(t)
    BY <1>4, <2>1, <2>2, AbstractKept DEF Abstract!RunCleanup
  <2>. QED
    BY <2>3 DEF AbstractStep, Abstract!Next
<1>. QED
  BY <1>5, <1>6

LEMMA HandlerReturnMaps ==
  ASSUME IInv, IInv', HandlerReturn
  PROVE  AbstractStep
<1>. DEFINE f == Head(frames)
<1>0. TypeOK /\ frames # <<>> /\ f \in Frame /\ frames[1] = f /\ Tail(frames) \in Seq(Frame)
  BY ListTyped, PopFront DEF IInv, HandlerReturn, TypeOK
<1>1. /\ f.in_handler /\ f.left \in Nat
      /\ frames' = <<[f EXCEPT !.in_handler = FALSE]>> \o Tail(frames)
  BY <1>0, LimitsAssumption DEF HandlerReturn, Frame
<1>2. frames'[1] = [f EXCEPT !.in_handler = FALSE]
  BY <1>1
<1>3. f.in_handler = TRUE /\ frames'[1].left = f.left /\ frames'[1].in_handler = FALSE
  BY <1>0, <1>1, <1>2 DEF Frame
<1>. HIDE DEF f
<1>4. PICK t \in Threads :
        /\ statusOf(t) = "dying"
        /\ owedOf(t) = f.left + (IF f.in_handler THEN 1 ELSE 0)
        /\ owedOf(t)' = frames'[1].left + (IF frames'[1].in_handler THEN 1 ELSE 0)
        /\ \A u \in Threads : statusOf(u)' = statusOf(u)
        /\ \A u \in Threads \ {t} : owedOf(u)' = owedOf(u)
  BY <1>0, RetopOwed
<1>5. owedOf(t) > 0 /\ owedOf(t)' = owedOf(t) - 1
  <2>1. owedOf(t) = f.left + 1
    BY <1>3, <1>4
  <2>2. owedOf(t)' = f.left
    BY <1>1, <1>3, <1>4
  <2>. QED
    BY <1>1, <2>1, <2>2
<1>6. Abstract!RunCleanup(t)
  BY <1>4, <1>5, AbstractKept, AbstractOwe DEF Abstract!RunCleanup
<1>. QED
  BY <1>6 DEF AbstractStep, Abstract!Next

(* Another thread is released as soon as its handlers are through, unless  *)
(* it is on the runnable list; the current one goes on owing nothing.      *)
LEMMA ReapMaps ==
  ASSUME IInv, NEW t \in Threads, t \in alive, destruct_enabled[t],
         Reap(t), owedOf(t) = 0, owedOf(t)' = 0,
         \A u \in Threads \ {t} : owedOf(u)' = owedOf(u)
  PROVE  AbstractStep
<1>1. statusOf(t) = "dying"
  BY DEF statusOf
<1>2. \A u \in Threads \ {t} : statusOf(u)' = statusOf(u)
  BY StatusKept DEF Reap, Free, IInv, TypeOK
<1>3. \A u \in Threads : owedOf(u)' = owedOf(u)
  OBVIOUS
<1>4. CASE runnable[t]
  <2>1. statusOf(t)' = statusOf(t)
    BY <1>4, StatusKept DEF Reap
  <2>. QED
    BY <1>2, <1>3, <2>1, AbstractStutter DEF AbstractStep
<1>5. CASE ~runnable[t]
  <2>1. statusOf(t)' = "absent"
    BY <1>5 DEF Reap, Free, statusOf
  <2>2. Abstract!Release(t)
    BY <1>1, <1>2, <1>3, <2>1, AbstractMove, AbstractKept DEF Abstract!Release
  <2>. QED
    BY <2>2 DEF AbstractStep, Abstract!Next
<1>. QED
  BY <1>4, <1>5

LEMMA DestructEndMaps ==
  ASSUME IInv, IInv', DestructEnd
  PROVE  AbstractStep
<1>0. TypeOK /\ frames # <<>> /\ frames' = Tail(frames)
  BY DEF IInv, DestructEnd
<1>1. PICK t \in Threads : /\ t = Head(frames).target /\ t \in alive /\ destruct_enabled[t]
                           /\ t \in BeingDestructed
  BY <1>0, TargetFacts
<1>2. /\ \A k \in DOMAIN frames : k # 1 => k - 1 \in DOMAIN frames' /\ frames'[k - 1] = frames[k]
      /\ BeingDestructed' = BeingDestructed \ {t}
  BY <1>0, <1>1, FramePop, Distinct
<1>3. 1 \in DOMAIN frames /\ frames[1] = Head(frames)
  BY <1>0, PopFront DEF TypeOK
<1>4. owedOf(t) = 0
  BY <1>1, <1>3, OwedByFrame, Distinct DEF DestructEnd
<1>5. ASSUME NEW u \in Threads \ {t},
             destruct_enabled'[u] = destruct_enabled[u], cleanup_stack'[u] = cleanup_stack[u]
      PROVE  owedOf(u)' = owedOf(u)
  <2>1. \A k \in DOMAIN frames : frames[k].target = u => k # 1
    BY <1>1, <1>3
  <2>. QED
    BY <1>2, <1>5, <2>1, OwedMoved, Distinct
<1>6. CASE UNCHANGED threadVars
  <2>1. owedOf(t)' = 0
    BY <1>1, <1>2, <1>6 DEF owedOf, threadVars
  <2>2. \A u \in Threads : statusOf(u)' = statusOf(u) /\ owedOf(u)' = owedOf(u)
    BY <1>4, <1>5, <1>6, <2>1, StatusKept DEF threadVars
  <2>. QED
    BY <2>2, AbstractStutter DEF AbstractStep
<1>7. CASE Reap(t)
  <2>1. \A u \in Threads \ {t} : owedOf(u)' = owedOf(u)
    BY <1>5, <1>7 DEF Reap, Free, IInv, TypeOK
  <2>2. owedOf(t)' = 0
    <3>1. CASE runnable[t]
      BY <1>1, <1>2, <1>7, <3>1 DEF Reap, owedOf
    <3>2. CASE ~runnable[t]
      <4>1. ~destruct_enabled'[t] /\ cleanup_stack'[t] = <<>>
        BY <1>7, <3>2 DEF Reap, Free, IInv, TypeOK
      <4>. QED
        BY <4>1 DEF owedOf
    <3>. QED
      BY <3>1, <3>2
  <2>. QED
    BY <1>1, <1>4, <1>7, <2>1, <2>2, ReapMaps
<1>. QED
  BY <1>1, <1>6, <1>7 DEF DestructEnd

LEMMA FreeZombieMaps ==
  ASSUME IInv, FreeZombie
  PROVE  AbstractStep
<1>1. PICK t \in Threads : /\ t = Head(runnable_list) /\ t \in alive /\ zombie[t]
                           /\ destruct_enabled[t] /\ t \notin BeingDestructed
  BY FreeZombieFacts DEF IInv, NoDestructLost, ZombieInert
<1>2. Free(t) /\ UNCHANGED frames
  BY <1>1 DEF FreeZombie
<1>3. \A u \in Threads \ {t} : statusOf(u)' = statusOf(u)
  BY <1>2, StatusKept DEF Free, IInv, TypeOK
<1>4. \A u \in Threads \ {t} : owedOf(u)' = owedOf(u)
  BY <1>2, OwedKept DEF Free, IInv, TypeOK
<1>5. owedOf(t) = 0
  BY <1>1 DEF owedOf
<1>6. owedOf(t)' = 0
  <2>1. ~destruct_enabled'[t] /\ cleanup_stack'[t] = <<>>
    BY <1>2 DEF Free, IInv, TypeOK
  <2>. QED
    BY <2>1 DEF owedOf
<1>7. statusOf(t) = "dying" /\ statusOf(t)' = "absent"
  BY <1>1, <1>2 DEF Free, statusOf
<1>8. Abstract!Release(t)
  BY <1>3, <1>4, <1>5, <1>6, <1>7, AbstractMove, AbstractKept DEF Abstract!Release
<1>. QED
  BY <1>8 DEF AbstractStep, Abstract!Next

(* No other thread runs: what left the processor slumbers, waits or is     *)
(* being destructed.                                                       *)
LEMMA NobodyRuns ==
  ASSUME IInv, pc # "thread", NEW u \in Threads
  PROVE  statusOf(u) # "running"
BY DEF IInv, OneDisposition, OnCpu, statusOf

LEMMA EnterThreadMaps ==
  ASSUME IInv, EnterThread
  PROVE  AbstractStep
<1>1. PICK t \in Threads : t = Head(runnable_list) /\ t \in alive
  BY EnterThreadFacts
<1>2. statusOf(t) = "ready" /\ statusOf(t)' = "running"
  BY <1>1, EnterThreadFacts DEF EnterThread, statusOf
<1>3. \A u \in Threads \ {t} : statusOf(u)' = statusOf(u)
  BY <1>1, EnterThreadFacts, StatusKept DEF EnterThread
<1>4. \A u \in Threads : owedOf(u)' = owedOf(u)
  BY OwedKept DEF EnterThread
<1>5. \A u \in Threads : statusOf(u) # "running"
  BY NobodyRuns DEF EnterThread
<1>6. Abstract!Dispatch(t)
  BY <1>2, <1>3, <1>4, <1>5, AbstractMove, AbstractKept DEF Abstract!Dispatch
<1>. QED
  BY <1>6 DEF AbstractStep, Abstract!Next

LEMMA LeaveThreadMaps ==
  ASSUME IInv, LeaveThread
  PROVE  AbstractStep
<1>1. CASE UNCHANGED threadVars
  <2>1. \A u \in Threads : statusOf(u)' = statusOf(u) /\ owedOf(u)' = owedOf(u)
    BY <1>1, StatusKept, OwedKept DEF LeaveThread, threadVars
  <2>. QED
    BY <2>1, AbstractStutter DEF AbstractStep
<1>2. CASE destruct_me /\ Reap(current)
  <2>1. PICK t \in Threads : /\ t = current /\ t \in alive
                             /\ destruct_enabled[t] /\ t \notin BeingDestructed
    BY <1>2 DEF LeaveThread, IInv, TypeOK, NoDestructLost, DestructInv
  <2>2. Reap(t) /\ UNCHANGED frames
    BY <1>2, <2>1 DEF LeaveThread
  <2>3. owedOf(t) = 0
    BY <2>1 DEF owedOf
  <2>4. \A u \in Threads \ {t} : owedOf(u)' = owedOf(u)
    BY <2>2, OwedKept DEF Reap, Free, IInv, TypeOK
  <2>5. owedOf(t)' = 0
    <3>1. CASE runnable[t]
      BY <2>2, <2>3, <3>1, OwedKept DEF Reap
    <3>2. CASE ~runnable[t]
      <4>1. ~destruct_enabled'[t] /\ cleanup_stack'[t] = <<>>
        BY <2>2, <3>2 DEF Reap, Free, IInv, TypeOK
      <4>. QED
        BY <4>1 DEF owedOf
    <3>. QED
      BY <3>1, <3>2
  <2>. QED
    BY <2>1, <2>2, <2>3, <2>4, <2>5, ReapMaps
<1>. QED
  BY <1>1, <1>2 DEF LeaveThread

LEMMA HandleEventMaps ==
  ASSUME IInv, HandleEvent
  PROVE  AbstractStep
<1>1. PICK t \in Threads :
        /\ t = watch[Head(events)] /\ t \in alive /\ epoll_fd[t] # NoFd
        /\ ~runnable[t] /\ ~slumber_enabled[t] /\ ~destruct_enabled[t]
  BY EventThread, NullsAssumption DEF HandleEvent
<1>2. EpollDisable(t) /\ AddRunnable(t)
  BY <1>1 DEF HandleEvent
<1>3. statusOf(t) = "waiting" /\ statusOf(t)' = "ready"
  BY <1>1, <1>2 DEF HandleEvent, AddRunnable, statusOf, IInv, TypeOK
<1>4. \A u \in Threads \ {t} : statusOf(u)' = statusOf(u)
  BY <1>2, StatusKept DEF HandleEvent, AddRunnable, EpollDisable, IInv, TypeOK
<1>5. \A u \in Threads : owedOf(u)' = owedOf(u)
  BY OwedKept DEF HandleEvent
<1>6. Abstract!Wake(t)
  BY <1>3, <1>4, <1>5, AbstractMove, AbstractKept DEF Abstract!Wake
<1>. QED
  BY <1>6 DEF AbstractStep, Abstract!Next

(* The loop's other steps touch no thread.                                 *)
LEMMA LoopMaps ==
  ASSUME UNCHANGED <<threadVars, frames>>
  PROVE  AbstractStep
<1>1. \A u \in Threads : statusOf(u)' = statusOf(u) /\ owedOf(u)' = owedOf(u)
  BY StatusKept, OwedKept DEF threadVars
<1>. QED
  BY <1>1, AbstractStutter DEF AbstractStep

LEMMA StepMaps == IInv /\ IInv' /\ [Next]_vars => AbstractStep
<1>. SUFFICES ASSUME IInv, IInv', [Next]_vars
              PROVE  AbstractStep
  OBVIOUS
<1>1. ASSUME NEW t \in Threads, CreateThread(t) \/ Disturb(t) \/ DestructBegin(t)
      PROVE  AbstractStep
  BY <1>1, CreateMaps, DisturbMaps, DestructBeginMaps
<1>2. ASSUME NEW f \in Fds, EpollWait(f)
      PROVE  AbstractStep
  BY <1>2, EpollWaitMaps
<1>3. ASSUME NEW h \in Handler, PushCleanup(h)
      PROVE  AbstractStep
  BY <1>3, PushCleanupMaps
<1>4. CASE Slumber \/ PullCleanup
  BY <1>4, SlumberMaps, PullCleanupMaps
<1>5. CASE HandlerReturn \/ RunCleanup \/ DestructEnd
  BY <1>5, HandlerReturnMaps, RunCleanupMaps, DestructEndMaps
<1>6. CASE FreeZombie \/ EnterThread \/ LeaveThread \/ HandleEvent
  BY <1>6, FreeZombieMaps, EnterThreadMaps, LeaveThreadMaps, HandleEventMaps
<1>7. CASE \/ EnterLoop \/ LoopTop \/ RunnablesDone \/ EventsDone \/ LoopReturn
           \/ ImproverDone \/ EpollReturn \/ Exited \/ UNCHANGED vars
  <2>1. UNCHANGED <<threadVars, frames>>
    BY <1>7 DEF EnterLoop, LoopTop, RunnablesDone, EventsDone, LoopReturn,
                ImproverDone, EpollReturn, Exited, vars
  <2>. QED
    BY <2>1, LoopMaps
<1>. QED
  BY <1>1, <1>2, <1>3, <1>4, <1>5, <1>6, <1>7 DEF Next, DestructSteps, LoopSteps

LEMMA InitMaps == Init => Abstract!Init
<1>. SUFFICES ASSUME Init PROVE Abstract!Init
  OBVIOUS
<1>1. \A t \in Threads : statusOf(t) = "absent" /\ owedOf(t) = 0
  BY DEF Init, statusOf, owedOf
<1>. QED
  BY <1>1 DEF Abstract!Init

(* The switch keeps what Scheduler promises to every client, with any      *)
(* number of threads, descriptors and handlers: one thread at a time runs, *)
(* a destructed thread never again, and a thread's memory is released only *)
(* when each of its handlers has run to its end.                           *)
THEOREM SwitchImplements == Spec => ImplementsScheduler
<1>1. Init => Abstract!Init
  BY InitMaps
<1>2. IInv /\ IInv' /\ [Next]_vars => [Abstract!Next]_(Abstract!vars)
  BY StepMaps DEF AbstractStep
<1>3. ImplementsScheduler <=> Abstract!Init /\ [][Abstract!Next]_(Abstract!vars)
  BY DEF ImplementsScheduler, Abstract!Spec
<1>. QED
  BY <1>1, <1>2, <1>3, Inductive, PTL DEF Spec

=============================================================================
