------------------------------ MODULE Heartbeat -----------------------------
(***************************************************************************)
(* heartbeat.c with a proc that trickles tokens into a bucket: a timer of  *)
(* the kernel, the heartbeat's thread, which nobody can destruct because   *)
(* lb_heartbeat_launch gives its address to nobody, and the threads of     *)
(* TokenBucket on the same event loop.                                     *)
(*                                                                         *)
(* Of the timer's count it matters here whether it is zero: what was read  *)
(* goes into the counter at once, and proc is called once however large it *)
(* was.                                                                    *)
(***************************************************************************)
EXTENDS TokenBucket

VARIABLES
  heart,    \* where the switch has the heartbeat's thread
  expired   \* the interval passed since hb->fd_timer was read

bucket == <<amt, trickle_count, qu_wait, status, need, aborted>>
allVars == <<amt, trickle_count, qu_wait, status, need, aborted, heart, expired>>

HeartInit ==
  /\ Init
  /\ heart = "ready" /\ expired = FALSE

(* Nobody runs and nobody is left on the runnable list: the loop polls.    *)
Idle ==
  /\ LoopRuns /\ heart = "away"
  /\ \A t \in Threads : status[t] \notin {"ready", "zombie"}

(* An interval passes.                                                     *)
Expire ==
  /\ expired' = TRUE
  /\ UNCHANGED <<bucket, heart>>

(* epoll_wait reports the timer, among others.                             *)
Poll ==
  /\ Idle /\ expired
  /\ heart' = "ready"
  /\ UNCHANGED <<bucket, expired>>

HeartRuns ==
  /\ LoopRuns /\ heart = "ready"
  /\ heart' = "running"
  /\ UNCHANGED <<bucket, expired>>

(* lbi_heartbeat_thread: the timer is read, and proc is called.            *)
Beat ==
  /\ heart = "running" /\ expired
  /\ Trickle
  /\ expired' = FALSE /\ UNCHANGED heart

(* Nothing to read (any more): lb_io_read waits in epoll.                  *)
HeartWaits ==
  /\ heart = "running" /\ ~expired
  /\ heart' = "away"
  /\ UNCHANGED <<bucket, expired>>

(* The threads of the bucket, while the heartbeat's does not run.          *)
ThreadsStep == Next /\ heart # "running" /\ UNCHANGED <<heart, expired>>

HeartNext ==
  /\ ~aborted
  /\ ThreadsStep \/ Expire \/ Poll \/ HeartRuns \/ Beat \/ HeartWaits

(* Time passes, and a loop that comes to poll again and again reports the  *)
(* timer: registrations are level triggered.  Nothing is assumed of the    *)
(* threads.                                                                *)
Fairness == WF_allVars(Expire) /\ SF_allVars(Poll)

HeartSpec == HeartInit /\ [][HeartNext]_allVars /\ Fairness

-----------------------------------------------------------------------------

(* Somebody waits for tokens that the bucket can hold.                     *)
Servable == ~aborted /\ \E t \in Threads : need[t] \in 1..Limit

Take == \E t \in Threads, n \in 1..MaxAmount : ObtainTake(t, n)

(* The bucket does not get stuck: as long as the loop comes to poll again  *)
(* and again, which it does not if threads keep each other runnable        *)
(* (switch.c 106-112), somebody obtains tokens again and again while there *)
(* is somebody to be served; whoever sleeps, is destructed or waits for    *)
(* more than the bucket ever holds.  It need not be the same one: small    *)
(* requests can starve a large one (token_bucket.c 42-49, 72-83).          *)
TokensFlow == []<>Idle /\ <>[]Servable => []<><<Take>>_bucket
=============================================================================
