---------------------------- MODULE TimerProofs -----------------------------
(***************************************************************************)
(* Proofs about what runs on timers: TokenBucket and Heartbeat, for any    *)
(* number of threads, any limit and any amounts, and Watchdog, for any set *)
(* of watchdogs.                                                           *)
(***************************************************************************)
EXTENDS Heartbeat, Watchdog, SequenceLemmas

IInv == TypeOK /\ NoSleepBesideTokens

LEMMA InitInductive == Init => IInv
<1>. SUFFICES ASSUME Init PROVE IInv
  OBVIOUS
<1>1. qu_wait \in Seq(Threads)
  BY EmptySeq DEF Init
<1>2. TypeOK
  <2>1. amt \in 0..Limit /\ trickle_count \in 0..(TrickleEvery - 1)
    BY BucketAssumption DEF Init
  <2>2. status \in [Threads -> Status] /\ aborted \in BOOLEAN
    BY DEF Init, Status
  <2>3. need \in [Threads -> 0..MaxAmount]
    BY BucketAssumption DEF Init
  <2>. QED
    BY <1>1, <2>1, <2>2, <2>3 DEF TypeOK
<1>3. NoSleepBesideTokens
  BY DEF Init, NoSleepBesideTokens, Waiting
<1>. QED
  BY <1>2, <1>3 DEF IInv

(* Tokens that come in leave nobody asleep.                                *)
LEMMA AddStep ==
  ASSUME IInv, NEW n \in Nat, Add(n), trickle_count' \in 0..(TrickleEvery - 1),
         UNCHANGED need
  PROVE  IInv'
<1>1. amt' \in 0..Limit
  <2>1. CASE amt + n <= Limit
    BY <2>1, BucketAssumption DEF Add, Fill, IInv, TypeOK
  <2>2. CASE ~ (amt + n <= Limit)
    BY <2>2, BucketAssumption DEF Add, Fill
  <2>. QED
    BY <2>1, <2>2
<1>2. qu_wait' = <<>> /\ <<>> \in Seq(Threads)
  BY EmptySeq DEF Add, WakeAll
<1>3. status' \in [Threads -> Status]
  BY DEF Add, WakeAll, IInv, TypeOK, Status
<1>4. aborted' \in BOOLEAN
  BY DEF Add, WakeAll
<1>5. TypeOK'
  BY <1>1, <1>2, <1>3, <1>4 DEF IInv, TypeOK
<1>6. ASSUME NEW t \in Threads PROVE status'[t] # "asleep"
  <2>1. status[t] = "asleep" => t \in Range(qu_wait)
    BY DEF IInv, NoSleepBesideTokens, Waiting
  <2>2. status'[t] = IF t \in Range(qu_wait) /\ status[t] = "asleep"
                     THEN "ready" ELSE status[t]
    BY DEF Add, WakeAll
  <2>. QED
    BY <2>1, <2>2
<1>. QED
  BY <1>5, <1>6 DEF IInv, NoSleepBesideTokens, Waiting

LEMMA TrickleStep ==
  ASSUME IInv, Trickle
  PROVE  IInv'
<1>1. CASE TrickleDue
  <2>1. 0 \in 0..(TrickleEvery - 1)
    BY BucketAssumption
  <2>. QED
    BY <1>1, <2>1, AddStep DEF Trickle
<1>2. CASE ~TrickleDue
  <2>1. trickle_count' \in 0..(TrickleEvery - 1)
    BY <1>2, BucketAssumption DEF Trickle, TrickleDue, IInv, TypeOK
  <2>2. UNCHANGED <<amt, qu_wait, status, need, aborted>>
    BY <1>2 DEF Trickle
  <2>. QED
    BY <2>1, <2>2 DEF IInv, TypeOK, NoSleepBesideTokens, Waiting
<1>. QED
  BY <1>1, <1>2

(* A thread goes somewhere else than to sleep in obtain.                   *)
LEMMA MoveStep ==
  ASSUME IInv, NEW t \in Threads, NEW w \in Status, w # "asleep",
         status' = [status EXCEPT ![t] = w],
         UNCHANGED <<amt, trickle_count, qu_wait, need, aborted>>
  PROVE  IInv'
<1>1. TypeOK'
  BY DEF IInv, TypeOK
<1>2. NoSleepBesideTokens'
  BY DEF IInv, TypeOK, NoSleepBesideTokens, Waiting
<1>. QED
  BY <1>1, <1>2 DEF IInv

LEMMA ObtainTakeStep ==
  ASSUME IInv, NEW t \in Threads, NEW n \in 1..MaxAmount, ObtainTake(t, n)
  PROVE  IInv'
<1>1. amt' \in 0..Limit /\ amt' <= amt
  BY BucketAssumption DEF ObtainTake, IInv, TypeOK
<1>2. TypeOK'
  BY <1>1, BucketAssumption DEF ObtainTake, IInv, TypeOK
<1>3. ASSUME NEW v \in Threads, status[v] = "asleep"
      PROVE  need'[v] > amt' /\ v \in Range(qu_wait)
  <2>1. v # t
    BY <1>3 DEF ObtainTake, Asks, Running
  <2>2. need'[v] = need[v] /\ need[v] \in Nat /\ amt \in Nat /\ amt' \in Nat
    BY <1>1, <2>1, BucketAssumption DEF ObtainTake, IInv, TypeOK
  <2>. QED
    BY <1>1, <1>3, <2>2 DEF IInv, NoSleepBesideTokens, Waiting
<1>. QED
  BY <1>2, <1>3 DEF IInv, NoSleepBesideTokens, Waiting, ObtainTake

LEMMA ObtainWaitStep ==
  ASSUME IInv, NEW t \in Threads, NEW n \in 1..MaxAmount, ObtainWait(t, n)
  PROVE  IInv'
<1>1. qu_wait' \in Seq(Threads) /\ Range(qu_wait') = Range(qu_wait) \cup {t}
  BY AppendRange DEF ObtainWait, IInv, TypeOK
<1>2. n \in 0..MaxAmount /\ n > amt
  BY BucketAssumption DEF ObtainWait, IInv, TypeOK
<1>3. TypeOK'
  BY <1>1, <1>2 DEF ObtainWait, IInv, TypeOK, Status
<1>4. NoSleepBesideTokens'
  BY <1>1, <1>2 DEF ObtainWait, IInv, TypeOK, NoSleepBesideTokens, Waiting
<1>. QED
  BY <1>3, <1>4 DEF IInv

(* The handler removes the thread that runs it, and that one is awake.     *)
LEMMA DestructStep ==
  ASSUME IInv, NEW u \in Threads, NEW t \in Threads, Destruct(u, t)
  PROVE  IInv'
<1>1. qu_wait' \in Seq(Threads) /\ Range(qu_wait) \ {u} \subseteq Range(qu_wait')
  <2>1. Range(qu_wait) \subseteq Threads
    BY LenProperties, ElementOfSeq DEF IInv, TypeOK, Range
  <2>2. CASE need[t] > 0
    <3>1. qu_wait' = Kept(qu_wait, Threads \ {u})
      BY <2>2 DEF Destruct, RunHandler
    <3>2. /\ Kept(qu_wait, Threads \ {u}) \in Seq(Threads)
          /\ Range(Kept(qu_wait, Threads \ {u})) = Range(qu_wait) \cap (Threads \ {u})
      BY KeptRange DEF IInv, TypeOK
    <3>. QED
      BY <2>1, <3>1, <3>2
  <2>3. CASE ~ (need[t] > 0)
    BY <2>3 DEF Destruct, RunHandler, IInv, TypeOK
  <2>. QED
    BY <2>2, <2>3
<1>2. PICK w \in {"zombie", "absent"} : status' = [status EXCEPT ![t] = w]
  BY DEF Destruct
<1>3. status' \in [Threads -> Status] /\ need' \in [Threads -> 0..MaxAmount]
  BY <1>2, BucketAssumption DEF Destruct, IInv, TypeOK, Status
<1>4. TypeOK'
  BY <1>1, <1>3 DEF Destruct, IInv, TypeOK
<1>5. ASSUME NEW v \in Threads, status'[v] = "asleep"
      PROVE  need'[v] > amt' /\ v \in Range(qu_wait')
  <2>1. v # t
    BY <1>2, <1>5 DEF IInv, TypeOK
  <2>2. status[v] = "asleep" /\ need'[v] = need[v] /\ amt' = amt
    BY <1>2, <1>5, <2>1 DEF Destruct, IInv, TypeOK
  <2>3. v # u
    BY <2>2 DEF Destruct, InClientCode, Running
  <2>. QED
    BY <1>1, <2>2, <2>3 DEF IInv, NoSleepBesideTokens, Waiting
<1>. QED
  BY <1>4, <1>5 DEF IInv, NoSleepBesideTokens, Waiting

(* Nobody is inside obtain, so nobody sleeps.                              *)
LEMMA RenewStep ==
  ASSUME IInv, Renew
  PROVE  IInv'
<1>1. TypeOK'
  BY EmptySeq, BucketAssumption DEF Renew, IInv, TypeOK
<1>2. ASSUME NEW t \in Threads PROVE status[t] # "asleep"
  BY BucketAssumption DEF Renew, IInv, TypeOK, NoSleepBesideTokens, Waiting
<1>. QED
  BY <1>1, <1>2 DEF Renew, IInv, NoSleepBesideTokens, Waiting

LEMMA NextInductive ==
  ASSUME IInv, Next
  PROVE  IInv'
<1>1. CASE Renew
  BY <1>1, RenewStep
<1>2. ASSUME NEW n \in 1..MaxAmount, Submit(n) PROVE IInv'
  BY <1>2, AddStep, BucketAssumption DEF Submit, IInv, TypeOK
<1>3. CASE Trickle
  BY <1>3, TrickleStep
<1>4. ASSUME NEW t \in Threads,
             Create(t) \/ Dispatch(t) \/ FreeZombie(t) \/ GoAway(t) \/ ComeBack(t)
      PROVE  IInv'
  <2>1. \E w \in Status : w # "asleep" /\ status' = [status EXCEPT ![t] = w]
    BY <1>4 DEF Create, Dispatch, FreeZombie, GoAway, ComeBack, Status
  <2>2. UNCHANGED <<amt, trickle_count, qu_wait, need, aborted>>
    BY <1>4 DEF Create, Dispatch, FreeZombie, GoAway, ComeBack
  <2>. QED
    BY <2>1, <2>2, MoveStep
<1>5. ASSUME NEW u \in Threads, NEW t \in Threads, Destruct(u, t) PROVE IInv'
  BY <1>5, DestructStep
<1>6. ASSUME NEW t \in Threads, NEW n \in 1..MaxAmount,
             ObtainTake(t, n) \/ ObtainWait(t, n)
      PROVE  IInv'
  BY <1>6, ObtainTakeStep, ObtainWaitStep
<1>. QED
  BY <1>1, <1>2, <1>3, <1>4, <1>5, <1>6 DEF Next

LEMMA StutterInductive == IInv /\ UNCHANGED vars => IInv'
  BY DEF vars, IInv, TypeOK, NoSleepBesideTokens, Waiting

(* The bucket by itself, with anybody submitting at any time.              *)
THEOREM Inductive == Spec => []IInv
<1>1. IInv /\ [Next]_vars => IInv'
  BY NextInductive, StutterInductive
<1>. QED
  BY InitInductive, <1>1, PTL DEF Spec

(* The bucket holds between nothing and its limit, and its trickle counts  *)
(* below its period, with any submits and any destructs.                   *)
THEOREM BucketBounded == Spec => []TypeOK
<1>1. IInv => TypeOK
  BY DEF IInv
<1>. QED
  BY <1>1, Inductive, PTL

(* No thread slumbers in obtain for tokens that are there, and every one   *)
(* that slumbers is in the queue that the next submit wakes.               *)
THEOREM NobodyForgotten == Spec => []NoSleepBesideTokens
<1>1. IInv => NoSleepBesideTokens
  BY DEF IInv
<1>. QED
  BY <1>1, Inductive, PTL

(* A step with the heartbeat is one of the bucket, or leaves it alone.     *)
LEMMA HeartStep ==
  ASSUME [HeartNext]_allVars
  PROVE  Trickle \/ [Next]_vars
<1>1. CASE HeartNext
  <2>1. CASE ThreadsStep
    BY <2>1 DEF ThreadsStep
  <2>2. CASE Beat
    BY <2>2 DEF Beat
  <2>3. CASE Expire \/ Poll \/ HeartRuns \/ HeartWaits
    BY <2>3 DEF Expire, Poll, HeartRuns, HeartWaits, bucket, vars
  <2>. QED
    BY <1>1, <2>1, <2>2, <2>3 DEF HeartNext
<1>2. CASE UNCHANGED allVars
  BY <1>2 DEF allVars, vars
<1>. QED
  BY <1>1, <1>2

(* The same of a bucket that a heartbeat feeds, whatever beats are late.   *)
THEOREM HeartInductive == HeartSpec => []IInv
<1>1. HeartInit => IInv
  BY InitInductive DEF HeartInit
<1>2. IInv /\ [HeartNext]_allVars => IInv'
  BY HeartStep, TrickleStep, NextInductive, StutterInductive
<1>. QED
  BY <1>1, <1>2, PTL DEF HeartSpec

(* No beat, however late, breaks the bounds or leaves a thread asleep      *)
(* beside tokens that are there.                                           *)
THEOREM FedBucketSound == HeartSpec => [](TypeOK /\ NoSleepBesideTokens)
<1>1. IInv => TypeOK /\ NoSleepBesideTokens
  BY DEF IInv
<1>. QED
  BY <1>1, HeartInductive, PTL

-----------------------------------------------------------------------------
(* The other timers of the event loop: Watchdog, beside the bucket and the *)
(* heartbeat, for every set of watchdogs.                                  *)

(* A timer that expired does so for an interval that passed since it was   *)
(* armed last.                                                             *)
ExpiredIsOverdue == \A d \in Dogs : timer[d] = "expired" => d \in overdue

DogInv == WatchdogTypeOK /\ DogsLeashed /\ ExpiredIsOverdue

LEMMA DogInit == WatchdogInit => DogInv
<1>. SUFFICES ASSUME WatchdogInit PROVE DogInv
  OBVIOUS
<1>1. handlers \in Seq(Dogs) /\ Range(handlers) = {} /\ IsInjective(handlers)
  BY EmptySeq DEF WatchdogInit, Range, IsInjective
<1>. QED
  BY <1>1 DEF WatchdogInit, DogInv, WatchdogTypeOK, DogsLeashed, ExpiredIsOverdue, Watched

(* The end of main, whoever brings it about: all handlers run.             *)
LEMMA DestructMainStep ==
  ASSUME DogInv, NEW by \in Dogs \cup {Client}, DestructMain(by)
  PROVE  DogInv'
<1>1. handlers' \in Seq(Dogs) /\ Range(handlers') = {} /\ IsInjective(handlers')
  BY EmptySeq DEF DestructMain, Range, IsInjective
<1>2. WatchdogTypeOK'
  BY <1>1 DEF DogInv, WatchdogTypeOK, DestructMain, Cleanup
<1>3. DogsLeashed'
  BY <1>1 DEF DogInv, DogsLeashed, DestructMain, Cleanup, Watched, WatchdogTypeOK
<1>4. ExpiredIsOverdue'
  BY DEF DogInv, ExpiredIsOverdue, DestructMain, Cleanup, WatchdogTypeOK
<1>. QED
  BY <1>2, <1>3, <1>4 DEF DogInv

LEMMA EndScopeStep ==
  ASSUME DogInv, EndScope
  PROVE  DogInv'
<1>. DEFINE d == Last(handlers)
<1>1. /\ handlers' \in Seq(Dogs)
      /\ Range(handlers) = Range(handlers') \cup {d}
      /\ IsInjective(handlers') /\ d \notin Range(handlers')
  BY PopBack DEF EndScope, Front, Last, DogInv, WatchdogTypeOK, DogsLeashed
<1>2. WatchdogTypeOK'
  BY <1>1 DEF DogInv, WatchdogTypeOK, EndScope, Cleanup
<1>3. DogsLeashed'
  BY <1>1 DEF DogInv, DogsLeashed, EndScope, Cleanup, Watched, WatchdogTypeOK
<1>4. ExpiredIsOverdue'
  BY DEF DogInv, ExpiredIsOverdue, EndScope, Cleanup, WatchdogTypeOK
<1>. QED
  BY <1>2, <1>3, <1>4 DEF DogInv

LEMMA WatchStep ==
  ASSUME DogInv, NEW d \in Dogs, NEW b \in BOOLEAN, Watch(d, b)
  PROVE  DogInv'
<1>1. /\ handlers' \in Seq(Dogs)
      /\ Range(handlers') = Range(handlers) \cup {d}
      /\ IsInjective(handlers')
  BY AppendRange DEF Watch, Watched, DogInv, WatchdogTypeOK, DogsLeashed
<1>2. WatchdogTypeOK'
  BY <1>1 DEF DogInv, WatchdogTypeOK, Watch
<1>3. DogsLeashed'
  BY <1>1 DEF DogInv, DogsLeashed, Watch, Watched, WatchdogTypeOK
<1>4. ExpiredIsOverdue'
  BY DEF DogInv, ExpiredIsOverdue, Watch, WatchdogTypeOK
<1>. QED
  BY <1>2, <1>3, <1>4 DEF DogInv

(* To arm or stop a timer that is open.                                    *)
LEMMA ArmStep ==
  ASSUME DogInv, NEW d \in Dogs, NEW on \in BOOLEAN, d \in Watched, Arm(d, on),
         interval' \in [Dogs -> BOOLEAN],
         UNCHANGED <<main, others, handlers, scoped, dog, ended_by>>
  PROVE  DogInv'
<1>1. WatchdogTypeOK'
  BY DEF DogInv, WatchdogTypeOK, Arm
<1>2. DogsLeashed'
  BY DEF DogInv, DogsLeashed, Arm, Watched, WatchdogTypeOK
<1>3. ExpiredIsOverdue'
  BY DEF DogInv, ExpiredIsOverdue, Arm, WatchdogTypeOK
<1>. QED
  BY <1>1, <1>2, <1>3 DEF DogInv

LEMMA DogNext == DogInv /\ [WatchdogNext]_watchdogVars => DogInv'
<1>. SUFFICES ASSUME DogInv, [WatchdogNext]_watchdogVars PROVE DogInv'
  OBVIOUS
<1>1. CASE Run \/ Yield \/ OthersRun \/ OthersYield \/ Return \/ Restart \/ WakeOthers
  BY <1>1 DEF Run, Yield, OthersRun, OthersYield, Return, Restart, WakeOthers, dogVars, DogInv, WatchdogTypeOK, DogsLeashed,
              ExpiredIsOverdue, Watched
<1>2. CASE EndScope
  BY <1>2, EndScopeStep
<1>3. CASE ClientDestructs
  BY <1>3, DestructMainStep DEF ClientDestructs
<1>4. ASSUME NEW d \in Dogs, NEW b \in BOOLEAN, Watch(d, b)
      PROVE  DogInv'
  BY <1>4, WatchStep
<1>5. ASSUME NEW d \in Dogs, NEW b \in BOOLEAN, Interval(d, b)
      PROVE  DogInv'
  <2>1. interval' \in [Dogs -> BOOLEAN]
    BY <1>5 DEF Interval, DogInv, WatchdogTypeOK
  <2>. QED
    BY <1>5, <2>1, ArmStep DEF Interval
<1>6. ASSUME NEW d \in Dogs, Tickle(d) \/ Disable(d)
      PROVE  DogInv'
  BY <1>6, ArmStep DEF Tickle, Disable, DogInv, WatchdogTypeOK
<1>7. ASSUME NEW d \in Dogs, TimerExpires(d)
      PROVE  DogInv'
  BY <1>7 DEF TimerExpires, DogInv, WatchdogTypeOK, DogsLeashed, ExpiredIsOverdue, Watched
<1>8. ASSUME NEW d \in Dogs, DogWaits(d)
      PROVE  DogInv'
  BY <1>8 DEF DogWaits, DogInv, WatchdogTypeOK, DogsLeashed, ExpiredIsOverdue, Watched
<1>9. ASSUME NEW d \in Dogs, DogBites(d)
      PROVE  DogInv'
  BY <1>9, DestructMainStep DEF DogBites
<1>10. ASSUME NEW pack \in SUBSET Dogs, Report(pack)
       PROVE  DogInv'
  BY <1>10 DEF Report, DogInv, WatchdogTypeOK, DogsLeashed, ExpiredIsOverdue, Watched
<1>11. CASE UNCHANGED watchdogVars
  BY <1>11 DEF watchdogVars, DogInv, WatchdogTypeOK, DogsLeashed, ExpiredIsOverdue, Watched
<1>. QED
  BY <1>1, <1>2, <1>3, <1>4, <1>5, <1>6, <1>7, <1>8, <1>9, <1>10, <1>11
     DEF WatchdogNext

(* Every step of main, of a watchdog's thread or of a timer keeps DogInv.  *)
THEOREM DogInductive == WatchdogSpec => []DogInv
<1>1. WatchdogInit => DogInv
  BY DogInit
<1>2. DogInv /\ [WatchdogNext]_watchdogVars => DogInv'
  BY DogNext
<1>. QED
  BY <1>1, <1>2, PTL DEF WatchdogSpec

(* Handler, thread and timer of a watchdog come and go together, whoever   *)
(* ends main and whatever the watchdog's thread was doing.                 *)
THEOREM Leashed == WatchdogSpec => []DogsLeashed
<1>1. DogInv => DogsLeashed
  BY DEF DogInv
<1>. QED
  BY <1>1, DogInductive, PTL

(* Only a destruct ends main, and only DogBites says that it was a         *)
(* watchdog, which has read an expiration.                                 *)
LEMMA EndsInTime ==
  ASSUME DogInv, [WatchdogNext]_watchdogVars
  PROVE  \A d \in Dogs : main # "absent" /\ main' = "absent" /\ ended_by' = d
           => d \in overdue
<1>. SUFFICES ASSUME NEW d \in Dogs, main # "absent", main' = "absent", ended_by' = d
              PROVE  d \in overdue
  OBVIOUS
<1>1. CASE ClientDestructs
  BY <1>1, ClientAssumption DEF ClientDestructs, DestructMain
<1>2. ASSUME NEW e \in Dogs, DogBites(e)
      PROVE  d \in overdue
  BY <1>2 DEF DogBites, DestructMain, Expired, DogInv, ExpiredIsOverdue
<1>3. ASSUME NEW e \in Dogs, \/ \E b \in BOOLEAN : Watch(e, b) \/ Interval(e, b)
                             \/ Tickle(e) \/ Disable(e)
                             \/ TimerExpires(e) \/ DogWaits(e)
      PROVE  d \in overdue
  BY <1>3 DEF Watch, Interval, Tickle, Disable, TimerExpires, DogWaits
<1>4. CASE \/ Run \/ Yield \/ OthersRun \/ OthersYield \/ Return \/ Restart
           \/ WakeOthers \/ EndScope \/ UNCHANGED watchdogVars
  BY <1>4 DEF Run, Yield, OthersRun, OthersYield, Return, Restart, WakeOthers, EndScope,
              watchdogVars
<1>5. ASSUME NEW pack \in SUBSET Dogs, Report(pack)
      PROVE  d \in overdue
  BY <1>5 DEF Report
<1>. QED
  BY <1>1, <1>2, <1>3, <1>4, <1>5 DEF WatchdogNext

(* No watchdog ends main before its interval has passed since main armed   *)
(* or tickled it last, not even one that was woken by an expiration.       *)
THEOREM NeverFalse == WatchdogSpec => NoFalseAlarm
<1>1. DogInv /\ [WatchdogNext]_watchdogVars =>
        [\A d \in Dogs : main # "absent" /\ main' = "absent" /\ ended_by' = d
           => d \in overdue]_watchdogVars
  BY EndsInTime
<1>. QED
  BY <1>1, DogInductive, PTL DEF WatchdogSpec, NoFalseAlarm
=============================================================================
