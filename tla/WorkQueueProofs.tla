-------------------------- MODULE WorkQueueProofs ---------------------------
(***************************************************************************)
(* Proofs about WorkQueue for any number of threads and items.             *)
(***************************************************************************)
EXTENDS WorkQueue, SequenceLemmas, FiniteSetTheorems

Handlers == Work \cup {Unwait}

TypeOK ==
  /\ work \in Seq(Work)
  /\ sk_wait \in Seq(Threads)
  /\ status \in [Threads -> Status]
  /\ obtaining \in SUBSET Threads
  /\ handlers \in [Threads -> Seq(Handlers)]
  /\ fresh \in SUBSET Work
  /\ done \in SUBSET Work
  /\ aborted \in BOOLEAN
  /\ casualties \in SUBSET {"waiter", "kicked"}

(* Who is inside obtain sleeps or was woken there, with the handler of     *)
(* obtain on top; and who sleeps is inside obtain.                         *)
ObtainersOnTop ==
  \A t \in Threads :
    /\ status[t] = "asleep" => t \in obtaining
    /\ t \in obtaining =>
         /\ status[t] \in {"asleep", "ready", "running"}
         /\ handlers[t] # <<>>
         /\ Last(handlers[t]) = Unwait
    /\ t \notin obtaining => Unwait \notin Range(handlers[t])

IInv ==
  /\ TypeOK /\ ObtainersOnTop /\ IsFiniteSet(obtaining)
  /\ WorkConserved
  /\ WaitersKnown /\ WaitersExact
  /\ NoIdleWork

-----------------------------------------------------------------------------
(* What the procedures of the queue do to its state.                       *)

QueueStates ==
  [work : Seq(Work), wait : Seq(Threads), status : [Threads -> Status],
   aborted : BOOLEAN]

Asleep(q) == {v \in obtaining : q.status[v] = "asleep"}
Woken(q) == {v \in obtaining : q.status[v] \in {"ready", "running"}}
Known(q) == Asleep(q) \subseteq Range(q.wait)
Exact(q) == IsInjective(q.wait) /\ Range(q.wait) = Asleep(q)
Spare(q) == q.wait # <<>> => Len(q.work) <= Cardinality(Woken(q))

(* Sleepers may have been made ready; nothing else happened to a thread.   *)
OnlyWakes(p, q) ==
  \A v \in Threads :
    q.status[v] = p.status[v] \/ (p.status[v] = "asleep" /\ q.status[v] = "ready")

LEMMA DisturbFacts ==
  ASSUME NEW q \in QueueStates, NEW t \in Threads
  PROVE  /\ Disturb(q, t) \in QueueStates
         /\ Disturb(q, t).work = q.work
         /\ Disturb(q, t).wait = q.wait
         /\ Disturb(q, t).status =
              [q.status EXCEPT ![t] = IF @ = "asleep" THEN "ready" ELSE @]
<1>. DEFINE s == [q.status EXCEPT ![t] = IF @ = "asleep" THEN "ready" ELSE @]
            a == q.aborted \/ q.status[t] = "absent"
<1>1. q.status \in [Threads -> Status] /\ q.aborted \in BOOLEAN
  BY DEF QueueStates
<1>2. s \in [Threads -> Status]
  BY <1>1 DEF Status
<1>3. Disturb(q, t) = [work |-> q.work, wait |-> q.wait, status |-> s, aborted |-> a]
  <2>1. q = [work |-> q.work, wait |-> q.wait, status |-> q.status,
             aborted |-> q.aborted]
    BY DEF QueueStates
  <2>2. [q EXCEPT !.status[t] = IF @ = "asleep" THEN "ready" ELSE @] =
          [work |-> q.work, wait |-> q.wait, status |-> s, aborted |-> q.aborted]
    BY <2>1
  <2>3. Disturb(q, t) = [[q EXCEPT !.status[t] = IF @ = "asleep" THEN "ready" ELSE @]
                           EXCEPT !.aborted = a]
    BY DEF Disturb
  <2>. HIDE DEF s, a
  <2>. QED
    BY <2>2, <2>3
<1>4. a \in BOOLEAN
  OBVIOUS
<1>. HIDE DEF s, a
<1>5. [work |-> q.work, wait |-> q.wait, status |-> s, aborted |-> a] \in QueueStates
  BY <1>2, <1>4 DEF QueueStates
<1>. QED
  BY <1>3, <1>5 DEF s

LEMMA KickFacts ==
  ASSUME IsFiniteSet(obtaining), obtaining \in SUBSET Threads, NEW q \in QueueStates
  PROVE  /\ Kick(q) \in QueueStates
         /\ Kick(q).work = q.work
         /\ OnlyWakes(q, Kick(q))
         /\ Known(q) => Known(Kick(q))
         /\ Exact(q) => Exact(Kick(q))
         /\ Kick(q).wait # <<>> => q.wait # <<>>
         /\ Exact(q) /\ q.wait # <<>> =>
              Cardinality(Woken(Kick(q))) = Cardinality(Woken(q)) + 1
<1>1. CASE q.wait = <<>>
  BY <1>1 DEF Kick, OnlyWakes
<1>2. CASE q.wait # <<>>
  <2>. DEFINE h == Head(q.wait)
              p == [q EXCEPT !.wait = Tail(@)]
              k == Disturb(p, h)
  <2>1. /\ q.wait \in Seq(Threads) /\ q.work \in Seq(Work)
        /\ q.status \in [Threads -> Status]
    BY DEF QueueStates
  <2>2. h \in Threads /\ Tail(q.wait) \in Seq(Threads)
    BY <1>2, <2>1, PopFront
  <2>3. /\ Range(q.wait) = {h} \cup Range(Tail(q.wait))
        /\ IsInjective(q.wait) =>
             IsInjective(Tail(q.wait)) /\ h \notin Range(Tail(q.wait))
    BY <1>2, <2>1, PopRange
  <2>4. /\ p \in QueueStates
        /\ p.work = q.work /\ p.wait = Tail(q.wait) /\ p.status = q.status
    BY <2>2 DEF QueueStates
  <2>5. Kick(q) = k
    BY <1>2 DEF Kick
  <2>. HIDE DEF h, p
  <2>6. /\ k \in QueueStates
        /\ k.work = q.work /\ k.wait = Tail(q.wait)
        /\ k.status = [q.status EXCEPT ![h] = IF @ = "asleep" THEN "ready" ELSE @]
    BY <2>2, <2>4, DisturbFacts
  <2>. HIDE DEF k
  <2>7. \A v \in Threads :
          k.status[v] = IF v = h /\ q.status[v] = "asleep" THEN "ready" ELSE q.status[v]
    BY <2>1, <2>6
  <2>8. Asleep(k) = Asleep(q) \ {h}
    BY <2>2, <2>7 DEF Asleep
  <2>9. OnlyWakes(q, k)
    BY <2>7 DEF OnlyWakes
  <2>10. Known(q) => Known(k)
    BY <2>3, <2>6, <2>8 DEF Known
  <2>11. Exact(q) => Exact(k)
    BY <2>3, <2>6, <2>8 DEF Exact
  <2>12. ASSUME Exact(q)
         PROVE  Cardinality(Woken(k)) = Cardinality(Woken(q)) + 1
    <3>1. h \in obtaining /\ q.status[h] = "asleep"
      BY <2>3, <2>12 DEF Exact, Asleep
    <3>2. Woken(k) = Woken(q) \cup {h} /\ h \notin Woken(q)
      BY <2>2, <2>7, <3>1 DEF Woken
    <3>3. IsFiniteSet(Woken(q))
      BY FS_Subset DEF Woken
    <3>. QED
      BY <3>2, <3>3, FS_AddElement
  <2>. QED
    BY <1>2, <2>5, <2>6, <2>9, <2>10, <2>11, <2>12
<1>. QED
  BY <1>1, <1>2

(* An item goes in at either end, and a waiter is kicked for it.           *)
LEMMA KickForItem ==
  ASSUME IsFiniteSet(obtaining), obtaining \in SUBSET Threads, NEW q \in QueueStates,
         NEW w \in Seq(Work), Len(w) = Len(q.work) + 1,
         NEW k, k = Kick([q EXCEPT !.work = w])
  PROVE  /\ k \in QueueStates
         /\ k.work = w
         /\ OnlyWakes(q, k)
         /\ Known(q) => Known(k)
         /\ Exact(q) => Exact(k)
         /\ Exact(q) /\ Spare(q) => Spare(k)
<1>. DEFINE p == [q EXCEPT !.work = w]
<1>1. /\ p \in QueueStates
      /\ p.work = w /\ p.wait = q.wait /\ p.status = q.status
  BY DEF QueueStates
<1>2. /\ Known(q) = Known(p) /\ Exact(q) = Exact(p) /\ Woken(q) = Woken(p)
      /\ OnlyWakes(p, k) = OnlyWakes(q, k)
  BY <1>1 DEF Known, Exact, Woken, Asleep, OnlyWakes
<1>3. k = Kick(p)
  OBVIOUS
<1>. HIDE DEF p
<1>4. ASSUME Exact(q), Spare(q), k.wait # <<>>
      PROVE  Len(k.work) <= Cardinality(Woken(k))
  <2>1. p.wait # <<>> /\ k.work = w
    BY <1>1, <1>3, <1>4, KickFacts
  <2>2. Cardinality(Woken(k)) = Cardinality(Woken(p)) + 1
    BY <1>1, <1>2, <1>3, <1>4, <2>1, KickFacts
  <2>3. Len(q.work) <= Cardinality(Woken(q))
    BY <1>1, <1>4, <2>1 DEF Spare
  <2>4. Len(q.work) \in Nat
    BY LenProperties DEF QueueStates
  <2>5. Cardinality(Woken(q)) \in Nat
    <3>1. IsFiniteSet(Woken(q))
      BY FS_Subset DEF Woken
    <3>. QED
      BY <3>1, FS_CardinalityType
  <2>. QED
    BY <1>2, <2>1, <2>2, <2>3, <2>4, <2>5
<1>. QED
  BY <1>1, <1>2, <1>3, <1>4, KickFacts DEF Spare

LEMMA ResubmitFacts ==
  ASSUME IsFiniteSet(obtaining), obtaining \in SUBSET Threads, NEW q \in QueueStates,
         NEW i \in Work, NEW k, k = Resubmit(q, i)
  PROVE  /\ k \in QueueStates
         /\ Range(k.work) = {i} \cup Range(q.work)
         /\ IsInjective(q.work) /\ i \notin Range(q.work) => IsInjective(k.work)
         /\ OnlyWakes(q, k)
         /\ Known(q) => Known(k)
         /\ Exact(q) => Exact(k)
         /\ Exact(q) /\ Spare(q) => Spare(k)
<1>. DEFINE w == <<i>> \o q.work
<1>1. q.work \in Seq(Work)
  BY DEF QueueStates
<1>2. w \in Seq(Work) /\ Len(w) = Len(q.work) + 1
  <2>1. w \in Seq(Work) /\ DOMAIN w = 1..(Len(q.work) + 1)
    BY <1>1, PushFront
  <2>2. Len(q.work) \in Nat /\ Len(w) \in Nat /\ DOMAIN w = 1..Len(w)
    BY <1>1, <2>1, LenProperties
  <2>. HIDE DEF w
  <2>. QED
    BY <2>1, <2>2
<1>3. /\ Range(w) = {i} \cup Range(q.work)
      /\ IsInjective(q.work) /\ i \notin Range(q.work) => IsInjective(w)
  BY <1>1, PushRange
<1>4. k = Kick([q EXCEPT !.work = w])
  BY DEF Resubmit
<1>. HIDE DEF w
<1>. QED
  BY <1>2, <1>3, <1>4, KickForItem

(* The handler of obtain takes the thread that runs it off the stack.      *)
LEMMA UnwaitFacts ==
  ASSUME NEW q \in QueueStates, NEW u \in Threads, NEW k, k = RunHandler(u, q, Unwait)
  PROVE  /\ k \in QueueStates
         /\ k.work = q.work /\ k.status = q.status
         /\ Range(k.wait) = Range(q.wait) \ {u}
         /\ IsInjective(q.wait) => IsInjective(k.wait)
<1>. DEFINE w == Kept(q.wait, Threads \ {u})
<1>1. q.wait \in Seq(Threads)
  BY DEF QueueStates
<1>2. /\ w \in Seq(Threads)
      /\ Range(w) = Range(q.wait) \cap (Threads \ {u})
      /\ IsInjective(q.wait) => IsInjective(w)
  BY <1>1, KeptRange
<1>3. Range(q.wait) \subseteq Threads
  BY <1>1, LenProperties, ElementOfSeq DEF Range
<1>4. k = [q EXCEPT !.wait = w]
  BY DEF RunHandler
<1>. HIDE DEF w
<1>. QED
  BY <1>2, <1>3, <1>4 DEF QueueStates

LEMMA RunHandlerType ==
  ASSUME IsFiniteSet(obtaining), obtaining \in SUBSET Threads, NEW u \in Threads,
         NEW q \in QueueStates, NEW h \in Handlers
  PROVE  RunHandler(u, q, h) \in QueueStates
<1>1. CASE h = Unwait
  BY <1>1, UnwaitFacts
<1>2. CASE h # Unwait
  BY <1>2, ResubmitFacts DEF RunHandler, Handlers
<1>. QED
  BY <1>1, <1>2

(* The destruct's loop over the handlers, as the states it goes through.   *)
InSteps(u, t) ==
  LET hs == handlers[t]
  IN  \E f :
        /\ f[0] = Queues
        /\ \A i \in 1..Len(hs) : f[i] = RunHandler(u, f[i - 1], hs[Len(hs) + 1 - i])
        /\ AfterHandlers(u, t) = f[Len(hs)]

LEMMA QueuesType == TypeOK => Queues \in QueueStates
BY DEF TypeOK, Queues, QueueStates

LEMMA HandlersUnfold ==
  ASSUME TypeOK, IsFiniteSet(obtaining), NEW u \in Threads, NEW t \in Threads
  PROVE  InSteps(u, t)
<1>. DEFINE hs == handlers[t]
            n == Len(hs)
            Do(q, i) == RunHandler(u, q, hs[n + 1 - i])
            step == [p \in (1..n) \X QueueStates |-> Do(p[2], p[1])]
            Body(f) == [i \in 0..n |-> IF i = 0 THEN Queues ELSE Do(f[i - 1], i)]
            after == CHOOSE f : f = Body(f)
<1>1. hs \in Seq(Handlers) /\ n \in Nat
  BY LenProperties DEF TypeOK
<1>2. ASSUME NEW i \in 1..n, NEW q \in QueueStates PROVE Do(q, i) \in QueueStates
  <2>1. n + 1 - i \in 1..n
    BY <1>1
  <2>2. hs[n + 1 - i] \in Handlers
    BY <1>1, <2>1, ElementOfSeq
  <2>. QED
    BY <2>2, RunHandlerType DEF TypeOK
<1>. HIDE DEF Do, n, hs
<1>3. step \in [(1..n) \X QueueStates -> QueueStates]
  BY <1>2
<1>4. PICK g \in [0..n -> QueueStates] :
        g[0] = Queues /\ \A i \in 1..n : g[i] = step[<<i, g[i - 1]>>]
  <2>. HIDE DEF step, Body, after
  <2>1. Computable(n, QueueStates, Queues, step)
    BY <1>1, <1>3, QueuesType, Recursion
  <2>. QED
    BY <2>1 DEF Computable
<1>5. ASSUME NEW i \in 1..n PROVE g[i] = Do(g[i - 1], i)
  <2>1. i - 1 \in 0..n /\ g[i - 1] \in QueueStates
    <3>. HIDE DEF step, Body, after
    <3>1. i - 1 \in 0..n
      BY <1>1
    <3>. QED
      BY <3>1, <1>4
  <2>2. <<i, g[i - 1]>> \in (1..n) \X QueueStates
    BY <2>1
  <2>3. g[i] = step[<<i, g[i - 1]>>]
    BY <1>4
  <2>. QED
    BY <2>2, <2>3
<1>6. g = Body(g)
  <2>. HIDE DEF step, after
  <2>1. ASSUME NEW i \in 0..n PROVE g[i] = Body(g)[i]
    <3>1. CASE i = 0
      BY <3>1, <1>4
    <3>2. CASE i # 0
      <4>1. i \in 1..n
        BY <3>2, <1>1
      <4>. QED
        BY <3>2, <4>1, <1>5
    <3>. QED
      BY <3>1, <3>2
  <2>2. Body(g) = [i \in 0..n |-> Body(g)[i]]
    OBVIOUS
  <2>3. g = [i \in 0..n |-> g[i]]
    OBVIOUS
  <2>. HIDE DEF Body
  <2>. QED
    BY <2>1, <2>2, <2>3
<1>7. after = Body(after)
  <2>. HIDE DEF Body
  <2>. QED
    BY <1>6
<1>8. AfterHandlers(u, t) = after[n]
  BY DEF AfterHandlers, Do, n, hs
<1>. HIDE DEF after
<1>9. /\ after[0] = Queues
      /\ \A i \in 1..n : after[i] = Do(after[i - 1], i)
  <2>1. 0 \in 0..n /\ \A i \in 1..n : i \in 0..n /\ i # 0
    BY <1>1
  <2>. QED
    BY <1>7, <2>1
<1>. QED
  BY <1>8, <1>9 DEF InSteps, Do, n, hs

-----------------------------------------------------------------------------
(* The steps.                                                              *)

LEMMA OnlyWakesChain ==
  ASSUME NEW p, NEW q, NEW r, OnlyWakes(p, q), OnlyWakes(q, r)
  PROVE  OnlyWakes(p, r)
BY DEF OnlyWakes

LEMMA DestructLoop ==
  ASSUME IInv, NEW u \in Threads, NEW t \in Threads, status[u] = "running",
         NEW q, q = AfterHandlers(u, t)
  PROVE  /\ q \in QueueStates
         /\ OnlyWakes(Queues, q)
         /\ Known(q)
         /\ "waiter" \notin casualties => Exact(q)
         /\ casualties = {} /\ t \notin obtaining => Spare(q)
         /\ IsInjective(q.work)
         /\ Range(q.work) = Range(work) \cup Held(t)
<1>. DEFINE hs == handlers[t]
            n == Len(hs)
            Ran(i) == {hs[j] : j \in (n + 1 - i)..n}
<1>1. /\ TypeOK /\ ObtainersOnTop /\ IsFiniteSet(obtaining) /\ WorkConserved
      /\ WaitersKnown /\ WaitersExact /\ NoIdleWork
      /\ obtaining \in SUBSET Threads
  BY DEF IInv, TypeOK
<1>2. hs \in Seq(Handlers) /\ n \in Nat /\ DOMAIN hs = 1..n
  BY <1>1, LenProperties DEF TypeOK
<1>3. PICK f :
        /\ f[0] = Queues
        /\ \A i \in 1..n : f[i] = RunHandler(u, f[i - 1], hs[n + 1 - i])
        /\ q = f[n]
  <2>1. InSteps(u, t)
    BY <1>1, HandlersUnfold
  <2>. QED
    BY <2>1 DEF InSteps
<1>. DEFINE Good(i) ==
              /\ f[i] \in QueueStates
              /\ OnlyWakes(Queues, f[i])
              /\ Known(f[i])
              /\ "waiter" \notin casualties => Exact(f[i])
              /\ casualties = {} /\ t \notin obtaining => Spare(f[i])
              /\ IsInjective(f[i].work)
              /\ Range(f[i].work) = Range(work) \cup (Ran(i) \ {Unwait})
            G == {i \in Nat : i <= n => Good(i)}
<1>4. Good(0)
  <2>1. /\ f[0].work = work /\ f[0].wait = sk_wait /\ f[0].status = status
    BY <1>3 DEF Queues
  <2>2. f[0] \in QueueStates
    BY <1>1, <1>3, QueuesType
  <2>3. OnlyWakes(Queues, f[0])
    BY <1>3 DEF OnlyWakes
  <2>4. Ran(0) = {}
    BY <1>2
  <2>5. Asleep(f[0]) = Waiting /\ Woken(f[0]) = Kicked
    BY <2>1 DEF Asleep, Woken, Waiting, Kicked
  <2>6. /\ Known(f[0])
        /\ "waiter" \notin casualties => Exact(f[0])
        /\ casualties = {} => Spare(f[0])
    BY <1>1, <2>1, <2>5 DEF Known, Exact, Spare, WaitersKnown, WaitersExact, NoIdleWork
  <2>7. IsInjective(f[0].work)
    BY <1>1, <2>1 DEF WorkConserved
  <2>. QED
    BY <2>1, <2>2, <2>3, <2>4, <2>6, <2>7
<1>5. ASSUME NEW i \in Nat, i + 1 <= n, Good(i) PROVE Good(i + 1)
  <2>. DEFINE p == f[i]
              k == f[i + 1]
              m == n - i
              h == hs[m]
  <2>1. /\ p \in QueueStates /\ OnlyWakes(Queues, p) /\ Known(p)
        /\ "waiter" \notin casualties => Exact(p)
        /\ casualties = {} /\ t \notin obtaining => Spare(p)
        /\ IsInjective(p.work)
        /\ Range(p.work) = Range(work) \cup (Ran(i) \ {Unwait})
    BY <1>5
  <2>2. m \in 1..n /\ h \in Handlers /\ h \in Range(hs)
    <3>1. m \in 1..n
      BY <1>2, <1>5
    <3>. QED
      BY <1>2, <3>1, ElementOfSeq DEF Range
  <2>3. k = RunHandler(u, p, h)
    <3>1. i + 1 \in 1..n /\ (i + 1) - 1 = i /\ n + 1 - (i + 1) = m
      <4>. HIDE DEF n, Good
      <4>1. i \in Nat /\ i + 1 <= n /\ n \in Nat
        BY <1>2, <1>5
      <4>. QED
        BY <4>1
    <3>. HIDE DEF n, hs, m
    <3>. QED
      BY <1>3, <3>1
  <2>4. Ran(i + 1) = Ran(i) \cup {h}
    <3>1. (n + 1 - (i + 1))..n = ((n + 1 - i)..n) \cup {m}
      <4>. HIDE DEF n, Good
      <4>1. i \in Nat /\ i + 1 <= n /\ n \in Nat
        BY <1>2, <1>5
      <4>. QED
        BY <4>1
    <3>. QED
      BY <3>1
  <2>5. h \notin Ran(i)
    <3>1. IsInjective(hs)
      BY <1>1 DEF WorkConserved
    <3>2. \A j \in (n + 1 - i)..n : j \in 1..n /\ j # m
      BY <1>2, <1>5
    <3>. QED
      BY <1>2, <2>2, <3>1, <3>2 DEF IsInjective
  <2>. HIDE DEF p, k, h, m, Ran
  <2>6. CASE h = Unwait
    <3>1. /\ k \in QueueStates
          /\ k.work = p.work /\ k.status = p.status
          /\ Range(k.wait) = Range(p.wait) \ {u}
          /\ IsInjective(p.wait) => IsInjective(k.wait)
      BY <2>1, <2>3, <2>6, UnwaitFacts
    <3>2. /\ OnlyWakes(Queues, k) /\ Asleep(k) = Asleep(p)
      BY <2>1, <3>1 DEF OnlyWakes, Asleep
    <3>3. u \notin Asleep(p)
      BY <2>1 DEF Asleep, OnlyWakes, Queues
    <3>4. Known(k)
      BY <2>1, <3>1, <3>2, <3>3 DEF Known
    <3>5. Exact(p) => Exact(k)
      BY <3>1, <3>2, <3>3 DEF Exact
    <3>6. t \in obtaining
      BY <1>1, <2>2, <2>6 DEF ObtainersOnTop
    <3>7. Ran(i + 1) \ {Unwait} = Ran(i) \ {Unwait}
      BY <2>4, <2>6
    <3>. QED
      BY <2>1, <3>1, <3>2, <3>4, <3>5, <3>6, <3>7 DEF k
  <2>7. CASE h # Unwait
    <3>1. h \in Work /\ k = Resubmit(p, h)
      BY <2>2, <2>3, <2>7 DEF Handlers, RunHandler
    <3>2. h \notin Range(work)
      BY <1>1, <2>2, <2>7 DEF WorkConserved, Held
    <3>3. h \notin Range(p.work)
      BY <2>1, <2>5, <3>2
    <3>4. /\ k \in QueueStates
          /\ Range(k.work) = {h} \cup Range(p.work)
          /\ IsInjective(k.work)
          /\ OnlyWakes(p, k)
          /\ Known(k)
          /\ Exact(p) => Exact(k)
          /\ Exact(p) /\ Spare(p) => Spare(k)
      BY <1>1, <2>1, <3>1, <3>3, ResubmitFacts
    <3>5. OnlyWakes(Queues, k)
      BY <2>1, <3>4, OnlyWakesChain
    <3>6. Range(k.work) = Range(work) \cup (Ran(i + 1) \ {Unwait})
      BY <2>1, <2>4, <2>7, <3>4
    <3>. QED
      BY <2>1, <3>4, <3>5, <3>6 DEF k
  <2>. QED
    BY <2>6, <2>7
<1>6. Good(n)
  <2>. HIDE DEF Good
  <2>1. 0 \in G
    BY <1>4
  <2>2. ASSUME NEW i \in Nat, i \in G PROVE i + 1 \in G
    BY <1>2, <1>5, <2>2
  <2>. HIDE DEF G
  <2>3. Nat \subseteq G
    BY <2>1, <2>2, SetInduction
  <2>. QED
    BY <1>2, <2>3 DEF G
<1>7. Ran(n) \ {Unwait} = Held(t)
  BY <1>2 DEF Held, Range
<1>. QED
  BY <1>3, <1>6, <1>7

LEMMA MoveStep ==
  ASSUME IInv, NEW t \in Threads, NEW w \in Status, w # "asleep", status[t] # "asleep",
         t \in obtaining =>
           {status[t], w} \subseteq {"ready", "running"},
         status' = [status EXCEPT ![t] = w],
         UNCHANGED <<work, sk_wait, obtaining, handlers, fresh, done, aborted,
                     casualties>>
  PROVE  IInv'
<1>1. TypeOK'
  BY DEF IInv, TypeOK
<1>2. \A v \in Threads : status'[v] = IF v = t THEN w ELSE status[v]
  BY DEF IInv, TypeOK
<1>3. obtaining \subseteq Threads
  BY DEF IInv, TypeOK
<1>4. ObtainersOnTop'
  BY <1>2 DEF IInv, ObtainersOnTop
<1>5. Waiting' = Waiting /\ Kicked' = Kicked
  BY <1>2, <1>3 DEF Waiting, Kicked
<1>. QED
  BY <1>1, <1>4, <1>5
  DEF IInv, WorkConserved, Held, WaitersKnown, WaitersExact, NoIdleWork

LEMMA SubmitStep ==
  ASSUME IInv, NEW i \in Work, Submit(i)
  PROVE  IInv'
<1>. DEFINE w == Append(work, i)
            q == Kick([Queues EXCEPT !.work = w])
<1>1. /\ TypeOK /\ ObtainersOnTop /\ IsFiniteSet(obtaining) /\ WorkConserved
      /\ WaitersKnown /\ WaitersExact /\ NoIdleWork
      /\ obtaining \in SUBSET Threads
  BY DEF IInv, TypeOK
<1>2. /\ w \in Seq(Work) /\ Len(w) = Len(work) + 1
      /\ Range(w) = Range(work) \cup {i}
      /\ IsInjective(work) /\ i \notin Range(work) => IsInjective(w)
  BY <1>1, AppendRange DEF TypeOK
<1>3. /\ Queues.work = work /\ Queues.wait = sk_wait /\ Queues.status = status
      /\ Queues \in QueueStates
  BY <1>1, QueuesType DEF Queues
<1>4. /\ Asleep(Queues) = Waiting /\ Woken(Queues) = Kicked
      /\ Known(Queues)
      /\ "waiter" \notin casualties => Exact(Queues)
      /\ casualties = {} => Spare(Queues)
  BY <1>1, <1>3 DEF Asleep, Woken, Waiting, Kicked, Known, Exact, Spare, WaitersKnown,
                    WaitersExact, NoIdleWork
<1>5. /\ q \in QueueStates
      /\ q.work = w
      /\ OnlyWakes(Queues, q)
      /\ Known(q)
      /\ Exact(Queues) => Exact(q)
      /\ Exact(Queues) /\ Spare(Queues) => Spare(q)
  <2>. HIDE DEF w
  <2>. QED
    BY <1>1, <1>2, <1>3, <1>4, KickForItem
<1>6. /\ work' = q.work /\ sk_wait' = q.wait /\ status' = q.status
      /\ aborted' = q.aborted
      /\ fresh' = fresh \ {i} /\ i \in fresh
      /\ UNCHANGED <<obtaining, handlers, done, casualties>>
  BY DEF Submit, Becomes, Queues
<1>. HIDE DEF q, w
<1>7. TypeOK'
  BY <1>1, <1>5, <1>6 DEF TypeOK, QueueStates
<1>8. ObtainersOnTop'
  BY <1>1, <1>3, <1>5, <1>6 DEF ObtainersOnTop, OnlyWakes
<1>9. Waiting' = Asleep(q) /\ Kicked' = Woken(q)
  BY <1>6 DEF Waiting, Kicked, Asleep, Woken
<1>10. WaitersKnown' /\ WaitersExact' /\ NoIdleWork'
  BY <1>4, <1>5, <1>6, <1>9
  DEF WaitersKnown, WaitersExact, NoIdleWork, Known, Exact, Spare
<1>11. WorkConserved'
  <2>1. i \notin Range(work) /\ i \notin done /\ \A v \in Threads : i \notin Held(v)
    BY <1>1, <1>6 DEF WorkConserved
  <2>2. \A v \in Threads : Held(v)' = Held(v)
    BY <1>6 DEF Held
  <2>. QED
    BY <1>1, <1>2, <1>5, <1>6, <2>1, <2>2 DEF WorkConserved
<1>. QED
  BY <1>1, <1>6, <1>7, <1>8, <1>10, <1>11 DEF IInv

(* What a thread holds but for the handler of obtain.                      *)
LEMMA OwnFacts ==
  ASSUME IInv, NEW t \in Threads
  PROVE  /\ OwnHandlers(t) \in Seq(Handlers)
         /\ Range(OwnHandlers(t)) = Held(t)
         /\ IsInjective(OwnHandlers(t))
<1>1. handlers[t] \in Seq(Handlers) /\ IsInjective(handlers[t])
  BY DEF IInv, TypeOK, WorkConserved
<1>2. CASE t \in obtaining
  <2>1. /\ handlers[t] # <<>> /\ handlers[t][Len(handlers[t])] = Unwait
        /\ OwnHandlers(t) = SubSeq(handlers[t], 1, Len(handlers[t]) - 1)
    BY <1>2 DEF IInv, ObtainersOnTop, OwnHandlers, Front, Last
  <2>. QED
    BY <1>1, <2>1, PopBack DEF Held
<1>3. CASE t \notin obtaining
  <2>1. OwnHandlers(t) = handlers[t] /\ Unwait \notin Range(handlers[t])
    BY <1>3 DEF IInv, ObtainersOnTop, OwnHandlers
  <2>. QED
    BY <1>1, <2>1 DEF Held
<1>. QED
  BY <1>2, <1>3

LEMMA KickedFinite ==
  ASSUME IInv
  PROVE  IsFiniteSet(Kicked) /\ Cardinality(Kicked) \in Nat
<1>1. IsFiniteSet(Kicked)
  BY FS_Subset DEF IInv, Kicked
<1>. QED
  BY <1>1, FS_CardinalityType

LEMMA ObtainItemStep ==
  ASSUME IInv, NEW t \in Threads, ObtainItem(t)
  PROVE  IInv'
<1>. DEFINE own == OwnHandlers(t)
            h == Head(work)
            hs == Append(own, h)
<1>1. /\ TypeOK /\ ObtainersOnTop /\ IsFiniteSet(obtaining) /\ WorkConserved
      /\ WaitersKnown /\ WaitersExact /\ NoIdleWork
      /\ obtaining \in SUBSET Threads
  BY DEF IInv, TypeOK
<1>2. /\ status[t] = "running" /\ work # <<>> /\ work' = Tail(work)
      /\ handlers' = [handlers EXCEPT ![t] = hs]
      /\ obtaining' = obtaining \ {t}
      /\ UNCHANGED <<sk_wait, status, fresh, done, aborted, casualties>>
  BY DEF ObtainItem, Running
<1>3. /\ Tail(work) \in Seq(Work) /\ h \in Work
      /\ Range(work) = {h} \cup Range(Tail(work))
      /\ IsInjective(Tail(work)) /\ h \notin Range(Tail(work))
      /\ Len(work) \in Nat \ {0} /\ Len(Tail(work)) = Len(work) - 1
  BY <1>1, <1>2, PopFront, PopRange, HeadTailProperties DEF TypeOK, WorkConserved
<1>4. h \notin Held(t) /\ h # Unwait
  BY <1>1, <1>3, UnwaitAssumption DEF WorkConserved
<1>5. /\ hs \in Seq(Handlers) /\ Range(hs) = Held(t) \cup {h} /\ IsInjective(hs)
  <2>1. /\ own \in Seq(Handlers) /\ Range(own) = Held(t) /\ IsInjective(own)
    BY OwnFacts
  <2>2. h \in Handlers
    BY <1>3 DEF Handlers
  <2>. HIDE DEF own, h
  <2>. QED
    BY <1>4, <2>1, <2>2, AppendRange
<1>. HIDE DEF hs, h
<1>6. TypeOK'
  BY <1>1, <1>2, <1>3, <1>5 DEF TypeOK
<1>7. ASSUME NEW v \in Threads
      PROVE  /\ handlers'[v] = IF v = t THEN hs ELSE handlers[v]
             /\ Held(v)' = IF v = t THEN Held(t) \cup {h} ELSE Held(v)
  <2>1. handlers'[v] = IF v = t THEN hs ELSE handlers[v]
    BY <1>1, <1>2 DEF TypeOK
  <2>2. Range(hs) \ {Unwait} = Held(t) \cup {h}
    BY <1>4, <1>5 DEF Held
  <2>. QED
    BY <2>1, <2>2 DEF Held
<1>8. ObtainersOnTop'
  <2>1. Unwait \notin Range(hs)
    BY <1>4, <1>5 DEF Held
  <2>. QED
    BY <1>1, <1>2, <1>7, <2>1 DEF ObtainersOnTop
<1>9. Waiting' = Waiting /\ Kicked' = Kicked \ {t}
  BY <1>2 DEF Waiting, Kicked
<1>10. WaitersKnown' /\ WaitersExact'
  BY <1>1, <1>2, <1>9 DEF WaitersKnown, WaitersExact
<1>11. NoIdleWork'
  <2>1. IsFiniteSet(Kicked) /\ Cardinality(Kicked) \in Nat
    BY KickedFinite
  <2>2. Cardinality(Kicked \ {t}) \in {Cardinality(Kicked), Cardinality(Kicked) - 1}
    BY <2>1, FS_RemoveElement
  <2>. QED
    BY <1>1, <1>2, <1>3, <1>9, <2>1, <2>2 DEF NoIdleWork
<1>12. WorkConserved'
  <2>1. \A v \in Threads : h \notin Held(v)
    BY <1>1, <1>3 DEF WorkConserved
  <2>2. \A v \in Threads : Held(v) \subseteq Held(v)' /\ h \in Held(t)'
    BY <1>7
  <2>3. \A v \in Threads : IsInjective(handlers'[v])
    BY <1>1, <1>5, <1>7 DEF WorkConserved
  <2>. QED
    BY <1>1, <1>2, <1>3, <1>7, <2>1, <2>2, <2>3 DEF WorkConserved
<1>13. IsFiniteSet(obtaining')
  BY <1>1, <1>2, FS_RemoveElement
<1>. QED
  BY <1>6, <1>8, <1>10, <1>11, <1>12, <1>13 DEF IInv

LEMMA ObtainWaitStep ==
  ASSUME IInv, NEW t \in Threads, ObtainWait(t)
  PROVE  IInv'
<1>. DEFINE own == OwnHandlers(t)
            hs == Append(own, Unwait)
            w == <<t>> \o sk_wait
<1>1. /\ TypeOK /\ ObtainersOnTop /\ IsFiniteSet(obtaining) /\ WorkConserved
      /\ WaitersKnown /\ WaitersExact /\ NoIdleWork
      /\ obtaining \in SUBSET Threads
  BY DEF IInv, TypeOK
<1>2. /\ status[t] = "running" /\ work = <<>> /\ sk_wait' = w
      /\ handlers' = [handlers EXCEPT ![t] = hs]
      /\ status' = [status EXCEPT ![t] = "asleep"]
      /\ obtaining' = obtaining \cup {t}
      /\ UNCHANGED <<work, fresh, done, aborted, casualties>>
  BY DEF ObtainWait, Running
<1>3. /\ w \in Seq(Threads) /\ Range(w) = {t} \cup Range(sk_wait)
      /\ IsInjective(sk_wait) /\ t \notin Range(sk_wait) => IsInjective(w)
  BY <1>1, PushFront, PushRange DEF TypeOK
<1>4. /\ hs \in Seq(Handlers) /\ Range(hs) = Held(t) \cup {Unwait} /\ IsInjective(hs)
      /\ hs # <<>> /\ Last(hs) = Unwait
  <2>1. /\ own \in Seq(Handlers) /\ Range(own) = Held(t) /\ IsInjective(own)
        /\ Unwait \notin Range(own) /\ Unwait \in Handlers
    BY OwnFacts DEF Held, Handlers
  <2>. HIDE DEF own
  <2>2. Len(hs) = Len(own) + 1 /\ hs[Len(own) + 1] = Unwait
    BY <2>1, AppendProperties
  <2>. QED
    BY <2>1, <2>2, AppendRange DEF Last
<1>. HIDE DEF hs, w
<1>5. TypeOK'
  BY <1>1, <1>2, <1>3, <1>4 DEF TypeOK, Status
<1>6. ASSUME NEW v \in Threads
      PROVE  /\ handlers'[v] = IF v = t THEN hs ELSE handlers[v]
             /\ status'[v] = IF v = t THEN "asleep" ELSE status[v]
             /\ Held(v)' = Held(v)
  <2>1. /\ handlers'[v] = IF v = t THEN hs ELSE handlers[v]
        /\ status'[v] = IF v = t THEN "asleep" ELSE status[v]
    BY <1>1, <1>2 DEF TypeOK
  <2>2. Range(hs) \ {Unwait} = Held(t)
    BY <1>4 DEF Held
  <2>. QED
    BY <2>1, <2>2 DEF Held
<1>7. ObtainersOnTop'
  BY <1>1, <1>2, <1>4, <1>6 DEF ObtainersOnTop
<1>8. Waiting' = Waiting \cup {t} /\ t \notin Waiting
  BY <1>1, <1>2, <1>6 DEF Waiting
<1>9. WaitersKnown' /\ WaitersExact'
  BY <1>1, <1>2, <1>3, <1>8 DEF WaitersKnown, WaitersExact
<1>10. IsFiniteSet(obtaining')
  BY <1>1, <1>2, FS_AddElement
<1>11. NoIdleWork'
  <2>1. IsFiniteSet(Kicked')
    BY <1>10, FS_Subset DEF Kicked
  <2>2. Cardinality(Kicked') \in Nat
    BY <2>1, FS_CardinalityType
  <2>3. Len(work') = 0
    BY <1>2
  <2>. QED
    BY <2>2, <2>3 DEF NoIdleWork
<1>12. WorkConserved'
  <2>1. \A v \in Threads : IsInjective(handlers'[v])
    BY <1>1, <1>4, <1>6 DEF WorkConserved
  <2>. QED
    BY <1>1, <1>2, <1>6, <2>1 DEF WorkConserved
<1>. QED
  BY <1>5, <1>7, <1>9, <1>10, <1>11, <1>12 DEF IInv

LEMMA FinishStep ==
  ASSUME IInv, NEW t \in Threads, Finish(t)
  PROVE  IInv'
<1>. DEFINE x == Last(handlers[t])
            hs == Front(handlers[t])
<1>1. /\ TypeOK /\ ObtainersOnTop /\ IsFiniteSet(obtaining) /\ WorkConserved
      /\ WaitersKnown /\ WaitersExact /\ NoIdleWork
  BY DEF IInv
<1>2. /\ t \notin obtaining /\ handlers[t] # <<>>
      /\ done' = done \cup {x}
      /\ handlers' = [handlers EXCEPT ![t] = hs]
      /\ UNCHANGED <<work, sk_wait, status, obtaining, fresh, aborted, casualties>>
  BY DEF Finish, InClientCode
<1>3. /\ hs \in Seq(Handlers) /\ x \in Handlers
      /\ Range(handlers[t]) = Range(hs) \cup {x}
      /\ IsInjective(hs) /\ x \notin Range(hs)
  BY <1>1, <1>2, PopBack DEF TypeOK, WorkConserved, Front, Last
<1>. HIDE DEF x, hs
<1>4. Unwait \notin Range(handlers[t]) /\ x \in Work /\ x \in Held(t)
  BY <1>1, <1>2, <1>3 DEF ObtainersOnTop, Handlers, Held
<1>5. TypeOK'
  BY <1>1, <1>2, <1>3, <1>4 DEF TypeOK
<1>6. ASSUME NEW v \in Threads
      PROVE  /\ handlers'[v] = IF v = t THEN hs ELSE handlers[v]
             /\ Held(v)' = IF v = t THEN Held(t) \ {x} ELSE Held(v)
  <2>1. handlers'[v] = IF v = t THEN hs ELSE handlers[v]
    BY <1>1, <1>2 DEF TypeOK
  <2>2. Range(hs) \ {Unwait} = Held(t) \ {x}
    BY <1>3 DEF Held
  <2>. QED
    BY <2>1, <2>2 DEF Held
<1>7. ObtainersOnTop'
  BY <1>1, <1>2, <1>3, <1>4, <1>6 DEF ObtainersOnTop
<1>8. WaitersKnown' /\ WaitersExact' /\ NoIdleWork'
  BY <1>1, <1>2 DEF WaitersKnown, WaitersExact, NoIdleWork, Waiting, Kicked
<1>9. WorkConserved'
  <2>1. \A v \in Threads : v # t => x \notin Held(v)
    BY <1>1, <1>4 DEF WorkConserved
  <2>2. \A v \in Threads : Held(v)' = Held(v) \ {x}
    BY <1>6, <2>1
  <2>3. \A v \in Threads : IsInjective(handlers'[v])
    BY <1>1, <1>3, <1>6 DEF WorkConserved
  <2>4. x \notin fresh /\ x \notin Range(work)
    BY <1>1, <1>4 DEF WorkConserved
  <2>. QED
    BY <1>1, <1>2, <1>4, <1>6, <2>1, <2>2, <2>3, <2>4 DEF WorkConserved
<1>. QED
  BY <1>1, <1>2, <1>5, <1>7, <1>8, <1>9 DEF IInv

LEMMA DestructStep ==
  ASSUME IInv, NEW u \in Threads, NEW t \in Threads, Destruct(u, t)
  PROVE  IInv'
<1>. DEFINE q == AfterHandlers(u, t)
            end == IF q.status[t] = "ready" THEN "zombie" ELSE "absent"
<1>1. /\ TypeOK /\ ObtainersOnTop /\ IsFiniteSet(obtaining) /\ WorkConserved
      /\ WaitersKnown /\ WaitersExact /\ NoIdleWork
      /\ obtaining \in SUBSET Threads
  BY DEF IInv, TypeOK
<1>2. status[u] = "running"
  BY DEF Destruct, InClientCode, Running
<1>3. /\ q \in QueueStates
      /\ OnlyWakes(Queues, q)
      /\ Known(q)
      /\ "waiter" \notin casualties => Exact(q)
      /\ casualties = {} /\ t \notin obtaining => Spare(q)
      /\ IsInjective(q.work)
      /\ Range(q.work) = Range(work) \cup Held(t)
  BY <1>2, DestructLoop
<1>4. /\ q.work \in Seq(Work) /\ q.wait \in Seq(Threads)
      /\ q.status \in [Threads -> Status] /\ q.aborted \in BOOLEAN
  BY <1>3 DEF QueueStates
<1>5. /\ work' = q.work /\ sk_wait' = q.wait /\ aborted' = q.aborted
      /\ status' = [q.status EXCEPT ![t] = end]
  <2>1. LET r == [q EXCEPT !.status[t] = IF @ = "ready" THEN "zombie" ELSE "absent"]
        IN  /\ r.work = q.work /\ r.wait = q.wait /\ r.aborted = q.aborted
            /\ r.status = [q.status EXCEPT ![t] = end]
    <3>. HIDE DEF q
    <3>. QED
      BY <1>3 DEF QueueStates
  <2>2. Becomes([q EXCEPT !.status[t] = IF @ = "ready" THEN "zombie" ELSE "absent"])
    BY DEF Destruct
  <2>. HIDE DEF q, end
  <2>. QED
    BY <2>1, <2>2 DEF Becomes
<1>6. /\ handlers' = [handlers EXCEPT ![t] = <<>>]
      /\ obtaining' = obtaining \ {t}
      /\ casualties' = casualties \cup Casualty(t)
      /\ UNCHANGED <<fresh, done>>
  BY DEF Destruct
<1>7. end \in {"zombie", "absent"}
  OBVIOUS
<1>. HIDE DEF q, end
<1>8. ASSUME NEW v \in Threads
      PROVE  /\ status'[v] = IF v = t THEN end ELSE q.status[v]
             /\ handlers'[v] = IF v = t THEN <<>> ELSE handlers[v]
             /\ Held(v)' = IF v = t THEN {} ELSE Held(v)
  <2>1. /\ status'[v] = IF v = t THEN end ELSE q.status[v]
        /\ handlers'[v] = IF v = t THEN <<>> ELSE handlers[v]
    BY <1>1, <1>4, <1>5, <1>6 DEF TypeOK
  <2>2. Range(<<>>) = {}
    BY DEF Range
  <2>. QED
    BY <2>1, <2>2 DEF Held
<1>9. TypeOK'
  <2>1. <<>> \in Seq(Handlers)
    BY EmptySeq
  <2>2. status' \in [Threads -> Status] /\ handlers' \in [Threads -> Seq(Handlers)]
    BY <1>1, <1>4, <1>5, <1>6, <1>7, <2>1 DEF TypeOK, Status
  <2>3. casualties' \in SUBSET {"waiter", "kicked"}
    BY <1>1, <1>6 DEF TypeOK, Casualty
  <2>. QED
    BY <1>1, <1>4, <1>5, <1>6, <2>2, <2>3 DEF TypeOK
<1>10. ObtainersOnTop'
  <2>1. \A v \in Threads :
          q.status[v] = status[v] \/ (status[v] = "asleep" /\ q.status[v] = "ready")
    BY <1>3 DEF OnlyWakes, Queues
  <2>2. Range(<<>>) = {}
    BY DEF Range
  <2>. QED
    BY <1>1, <1>6, <1>7, <1>8, <2>1, <2>2 DEF ObtainersOnTop
<1>11. Waiting' = Asleep(q) \ {t} /\ Kicked' = Woken(q) \ {t}
  BY <1>1, <1>6, <1>7, <1>8 DEF Waiting, Kicked, Asleep, Woken
<1>12. "waiter" \notin casualties' => "waiter" \notin casualties /\ t \notin Asleep(q)
  <2>1. t \in Asleep(q) => t \in obtaining /\ status[t] = "asleep"
    BY <1>3 DEF Asleep, OnlyWakes, Queues
  <2>. QED
    BY <1>6, <2>1 DEF Casualty
<1>13. casualties' = {} => casualties = {} /\ t \notin obtaining
  BY <1>6 DEF Casualty
<1>14. WaitersKnown' /\ WaitersExact'
  BY <1>3, <1>5, <1>11, <1>12 DEF WaitersKnown, WaitersExact, Known, Exact
<1>15. NoIdleWork'
  <2>. SUFFICES ASSUME casualties' = {} PROVE Spare(q) /\ Woken(q) = Kicked'
    BY <1>5 DEF NoIdleWork, Spare
  <2>. QED
    BY <1>3, <1>11, <1>13 DEF Woken
<1>16. WorkConserved'
  <2>1. \A v \in Threads : IsInjective(handlers'[v])
    <3>1. IsInjective(<<>>)
      BY DEF IsInjective
    <3>. QED
      BY <1>1, <1>8, <3>1 DEF WorkConserved
  <2>. QED
    BY <1>1, <1>3, <1>5, <1>6, <1>8, <2>1 DEF WorkConserved
<1>17. IsFiniteSet(obtaining')
  BY <1>1, <1>6, FS_RemoveElement
<1>. QED
  BY <1>9, <1>10, <1>14, <1>15, <1>16, <1>17 DEF IInv

LEMMA RenewStep ==
  ASSUME IInv, Renew
  PROVE  IInv'
<1>1. /\ TypeOK /\ ObtainersOnTop /\ IsFiniteSet(obtaining) /\ WorkConserved
  BY DEF IInv
<1>2. /\ obtaining = {} /\ sk_wait' = <<>> /\ casualties' = {}
      /\ UNCHANGED <<work, status, obtaining, handlers, fresh, done, aborted>>
  BY DEF Renew
<1>3. TypeOK'
  BY <1>1, <1>2, EmptySeq DEF TypeOK
<1>4. ObtainersOnTop' /\ WorkConserved'
  BY <1>1, <1>2 DEF ObtainersOnTop, WorkConserved, Held
<1>5. Range(sk_wait') = {} /\ IsInjective(sk_wait') /\ Waiting' = {}
  BY <1>2 DEF Range, IsInjective, Waiting
<1>6. WaitersKnown' /\ WaitersExact' /\ NoIdleWork'
  BY <1>2, <1>5 DEF WaitersKnown, WaitersExact, NoIdleWork
<1>. QED
  BY <1>1, <1>2, <1>3, <1>4, <1>6 DEF IInv

LEMMA InitInductive == Init => IInv
<1>. SUFFICES ASSUME Init PROVE IInv
  OBVIOUS
<1>1. /\ \A R : <<>> \in Seq(R)
      /\ Range(<<>>) = {} /\ IsInjective(<<>>)
  BY EmptySeq DEF Range, IsInjective
<1>2. \A t \in Threads : handlers[t] = <<>> /\ Held(t) = {} /\ status[t] = "ready"
  BY <1>1 DEF Init, Held
<1>3. TypeOK
  <2>1. handlers \in [Threads -> Seq(Handlers)] /\ status \in [Threads -> Status]
    BY <1>1 DEF Init, Status
  <2>2. work \in Seq(Work) /\ sk_wait \in Seq(Threads) /\ aborted \in BOOLEAN
    BY <1>1 DEF Init
  <2>. QED
    BY <2>1, <2>2 DEF Init, TypeOK
<1>4. ObtainersOnTop
  BY <1>1, <1>2 DEF Init, ObtainersOnTop
<1>5. IsFiniteSet(obtaining)
  BY FS_EmptySet DEF Init
<1>6. WorkConserved
  BY <1>1, <1>2 DEF Init, WorkConserved
<1>7. WaitersKnown /\ WaitersExact /\ NoIdleWork
  BY <1>1 DEF Init, WaitersKnown, WaitersExact, NoIdleWork, Waiting
<1>. QED
  BY <1>3, <1>4, <1>5, <1>6, <1>7 DEF IInv

LEMMA NextInductive ==
  ASSUME IInv, Next
  PROVE  IInv'
<1>1. CASE Renew
  BY <1>1, RenewStep
<1>2. ASSUME NEW i \in Work, Submit(i) PROVE IInv'
  BY <1>2, SubmitStep
<1>3. ASSUME NEW t \in Threads,
             Create(t) \/ Dispatch(t) \/ FreeZombie(t) \/ GoAway(t) \/ ComeBack(t)
      PROVE  IInv'
  <2>1. PICK w \in Status : status' = [status EXCEPT ![t] = w] /\ w # "asleep" /\
          (t \in obtaining => {status[t], w} \subseteq {"ready", "running"})
    BY <1>3 DEF Create, Dispatch, FreeZombie, GoAway, ComeBack, Status, InClientCode,
                Running, IInv, ObtainersOnTop
  <2>2. status[t] # "asleep"
    BY <1>3 DEF Create, Dispatch, FreeZombie, GoAway, ComeBack, InClientCode, Running
  <2>3. UNCHANGED <<work, sk_wait, obtaining, handlers, fresh, done, aborted,
                    casualties>>
    BY <1>3 DEF Create, Dispatch, FreeZombie, GoAway, ComeBack
  <2>. QED
    BY <2>1, <2>2, <2>3, MoveStep
<1>4. ASSUME NEW t \in Threads, ObtainItem(t) \/ ObtainWait(t) \/ Finish(t)
      PROVE  IInv'
  BY <1>4, ObtainItemStep, ObtainWaitStep, FinishStep
<1>5. ASSUME NEW t \in Threads, NEW u \in Threads, Destruct(u, t) PROVE IInv'
  BY <1>5, DestructStep
<1>. QED
  BY <1>1, <1>2, <1>3, <1>4, <1>5 DEF Next

THEOREM Inductive == Spec => []IInv
<1>1. IInv /\ UNCHANGED vars => IInv'
  BY DEF vars, IInv, TypeOK, ObtainersOnTop, WorkConserved, Held, WaitersKnown,
         WaitersExact, NoIdleWork, Waiting, Kicked
<1>2. IInv /\ [Next]_vars => IInv'
  BY <1>1, NextInductive
<1>. QED
  BY InitInductive, <1>2, PTL DEF Spec

(* Every item is in one place: not submitted, queued, held by one thread   *)
(* with the handler that puts it back, or done, whoever is destructed when *)
(* and however many items it holds.                                        *)
THEOREM NothingLost == Spec => []WorkConserved
<1>1. IInv => WorkConserved
  BY DEF IInv
<1>. QED
  BY <1>1, Inductive, PTL

(* A thread that slumbers in obtain is on the stack of waiters, whatever   *)
(* stale pointers are beside it.                                           *)
THEOREM NobodyForgotten == Spec => []WaitersKnown
<1>1. IInv => WaitersKnown
  BY DEF IInv
<1>. QED
  BY <1>1, Inductive, PTL

(* As long as nobody destructs a thread that slumbers in obtain, the stack *)
(* of waiters holds those threads and no other, each once.                 *)
THEOREM WaitersAccounted == Spec => []WaitersExact
<1>1. IInv => WaitersExact
  BY DEF IInv
<1>. QED
  BY <1>1, Inductive, PTL

(* As long as nobody destructs a thread inside obtain, there is a woken    *)
(* thread for every queued item while others slumber.                      *)
THEOREM NoItemIdles == Spec => []NoIdleWork
<1>1. IInv => NoIdleWork
  BY DEF IInv
<1>. QED
  BY <1>1, Inductive, PTL
=============================================================================
