------------------------------ MODULE Watchdog ------------------------------
(***************************************************************************)
(* watchdog.c: a thread, main, is watched by watchdogs.  Each is a record, *)
(* a timer and a thread of its own that reads the timer and then destructs *)
(* main; a cleanup handler of main takes all three away, also when it is   *)
(* the watchdog's thread that destructs main.                              *)
(*                                                                         *)
(* Threads are as in Scheduler, cut to what matters here; a step is what   *)
(* runs between two calls that can switch.  The other threads of the event *)
(* loop are one variable: whether any of them runs or is on the runnable   *)
(* list.  The kernel's timers run on at any moment.  main starts again     *)
(* after it was destructed, so that records and threads are reused.        *)
(*                                                                         *)
(* Names that TokenBucket has as well carry a prefix: a bucket, its        *)
(* heartbeat and watchdogs may be on one event loop (TimerProofs).         *)
(***************************************************************************)
EXTENDS SequencesExt

CONSTANTS Dogs,   \* lb_watchdog_t records
          Client  \* whoever else destructs main: itself or another thread

ASSUME ClientAssumption == Client \notin Dogs

VARIABLES
  main,       \* where the switch has the watched thread
  others,     \* where it has the other threads: "ready" while any of them is
  handlers,   \* main's cleanup handlers: its watchdogs, last pushed last
  scoped,     \* watchdogs of lb_watchdog_passthrough whose proc is running
  dog,        \* where the switch has each wd->wdog
  timer,      \* the timer of wd->fd_timer, or "closed"
  interval,   \* wd->itimerspec is not zero
  overdue,    \* watchdogs whose interval passed since they were last armed
  ended_by    \* who destructed main last

watchdogVars == <<main, others, handlers, scoped, dog, timer, interval, overdue, ended_by>>

WatchdogTypeOK ==
  /\ main \in {"absent", "ready", "running", "away"}
  /\ others \in {"ready", "running", "away"}
  /\ handlers \in Seq(Dogs)
  /\ scoped \in SUBSET Dogs
  /\ dog \in [Dogs -> {"absent", "ready", "waiting"}]
  /\ timer \in [Dogs -> {"closed", "off", "armed", "expired"}]
  /\ interval \in [Dogs -> BOOLEAN]
  /\ overdue \in SUBSET Dogs
  /\ ended_by \in Dogs \cup {Client}

WatchdogInit ==
  /\ main = "ready" /\ others \in {"ready", "away"}
  /\ handlers = <<>> /\ scoped = {}
  /\ dog = [d \in Dogs |-> "absent"]
  /\ timer = [d \in Dogs |-> "closed"]
  /\ interval = [d \in Dogs |-> FALSE]
  /\ overdue = {}
  /\ ended_by = Client

Watched == Range(handlers)
dogVars == <<handlers, scoped, dog, timer, interval, overdue, ended_by>>

-----------------------------------------------------------------------------
(* The switch.                                                             *)

(* sw->current is NULL: the event loop's own code runs.                    *)
NobodyRuns == main # "running" /\ others # "running"

(* Nor is anybody on the runnable list: the loop polls.                    *)
Quiet ==
  /\ NobodyRuns
  /\ main # "ready" /\ others # "ready"
  /\ \A d \in Dogs : dog[d] # "ready"

Run ==
  /\ NobodyRuns /\ main = "ready"
  /\ main' = "running"
  /\ UNCHANGED <<others, dogVars>>

Yield ==
  /\ main = "running"
  /\ main' = "away"
  /\ UNCHANGED <<others, dogVars>>

OthersRun ==
  /\ NobodyRuns /\ others = "ready"
  /\ others' = "running"
  /\ UNCHANGED <<main, dogVars>>

(* Perhaps others of them are still runnable, or have been made so.        *)
OthersYield ==
  /\ others = "running"
  /\ others' \in {"ready", "away"}
  /\ UNCHANGED <<main, dogVars>>

(* A thread disturbs main.                                                 *)
Return ==
  /\ others = "running" /\ main = "away"
  /\ main' = "ready"
  /\ UNCHANGED <<others, dogVars>>

Restart ==
  /\ others = "running" /\ main = "absent"
  /\ main' = "ready"
  /\ UNCHANGED <<others, dogVars>>

(* main disturbs or creates other threads.                                 *)
WakeOthers ==
  /\ main = "running" /\ others = "away"
  /\ others' = "ready"
  /\ UNCHANGED <<main, dogVars>>

-----------------------------------------------------------------------------
(* Watchdogs from outside.                                                 *)

(* lb_watchdog_irreversible, or with scope the start of passthrough.       *)
Watch(d, scope) ==
  /\ main = "running" /\ d \notin Watched
  /\ timer' = [timer EXCEPT ![d] = "off"]
  /\ interval' = [interval EXCEPT ![d] = FALSE]
  /\ dog' = [dog EXCEPT ![d] = "ready"]
  /\ handlers' = Append(handlers, d)
  /\ scoped' = IF scope THEN scoped \cup {d} ELSE scoped
  /\ UNCHANGED <<main, others, overdue, ended_by>>

(* settime starts the interval anew and forgets an expiration.             *)
Arm(d, on) ==
  /\ timer' = [timer EXCEPT ![d] = IF on THEN "armed" ELSE "off"]
  /\ overdue' = overdue \ {d}

(* lb_watchdog_interval and its hires variant, with zero or not, like the  *)
(* two calls below by whoever has the record.                              *)
Interval(d, on) ==
  /\ ~NobodyRuns /\ d \in Watched
  /\ interval' = [interval EXCEPT ![d] = on]
  /\ Arm(d, on)
  /\ UNCHANGED <<main, others, handlers, scoped, dog, ended_by>>

Tickle(d) ==
  /\ ~NobodyRuns /\ d \in Watched
  /\ Arm(d, interval[d])
  /\ UNCHANGED <<main, others, handlers, scoped, dog, interval, ended_by>>

Disable(d) ==
  /\ ~NobodyRuns /\ d \in Watched
  /\ Arm(d, FALSE)
  /\ UNCHANGED <<main, others, handlers, scoped, dog, interval, ended_by>>

(* Mutant: the thread of the watchdog is left alone.                       *)
BugCleanup(gone) ==
  /\ UNCHANGED dog
  /\ timer' = [d \in Dogs |-> IF d \in gone THEN "closed" ELSE timer[d]]
  /\ overdue' = overdue \ gone
  /\ scoped' = scoped \ gone

(* lbi_watchdog_cleanup for each of them: destructs the thread, which may  *)
(* be the one that runs the handler, and closes the timer.                 *)
Cleanup(gone) ==
  /\ dog' = [d \in Dogs |-> IF d \in gone THEN "absent" ELSE dog[d]]
  /\ timer' = [d \in Dogs |-> IF d \in gone THEN "closed" ELSE timer[d]]
  /\ overdue' = overdue \ gone
  /\ scoped' = scoped \ gone

(* proc of a passthrough returns; what it pushed it has pulled.            *)
EndScope ==
  /\ main = "running" /\ handlers # <<>> /\ Last(handlers) \in scoped
  /\ Cleanup({Last(handlers)})
  /\ handlers' = Front(handlers)
  /\ UNCHANGED <<main, others, interval, ended_by>>

(* lb_switch_destruct_thread(_, main): its handlers, and it is gone.  Its  *)
(* handlers may wake other threads.                                        *)
DestructMain(by) ==
  /\ main # "absent"
  /\ main' = "absent"
  /\ others' \in IF others = "away" THEN {"ready", "away"} ELSE {others}
  /\ Cleanup(Watched)
  /\ handlers' = <<>>
  /\ ended_by' = by
  /\ UNCHANGED interval

ClientDestructs == ~NobodyRuns /\ DestructMain(Client)

-----------------------------------------------------------------------------
(* The timers and the watchdogs' threads.                                  *)

TimerExpires(d) ==
  /\ timer[d] = "armed"
  /\ timer' = [timer EXCEPT ![d] = "expired"]
  /\ overdue' = overdue \cup {d}
  /\ UNCHANGED <<main, others, handlers, scoped, dog, interval, ended_by>>

(* Mutant: the event of a timer that expired before is not seen.           *)
BugReport(pack) ==
  /\ Quiet
  /\ \A d \in pack : dog[d] = "waiting" /\ timer[d] = "armed"
  /\ dog' = [d \in Dogs |-> IF d \in pack THEN "ready" ELSE dog[d]]
  /\ main' \in IF main = "away" THEN {"ready", "away"} ELSE {main}
  /\ others' \in {"ready", "away"}
  /\ UNCHANGED <<handlers, scoped, timer, interval, overdue, ended_by>>

(* epoll_wait returns events of these timers, of what main waits for and   *)
(* of what others wait for, and the loop makes those threads runnable.     *)
Report(pack) ==
  /\ Quiet
  /\ \A d \in pack : dog[d] = "waiting" /\ timer[d] = "expired"
  /\ dog' = [d \in Dogs |-> IF d \in pack THEN "ready" ELSE dog[d]]
  /\ main' \in IF main = "away" THEN {"ready", "away"} ELSE {main}
  /\ others' \in {"ready", "away"}
  /\ UNCHANGED <<handlers, scoped, timer, interval, overdue, ended_by>>

(* Mutant: to have been woken is as good as to have read the timer.        *)
BugExpired(d) == timer[d] # "off" \/ interval[d]
Expired(d) == timer[d] = "expired"

(* lbi_watchdog_thread in lb_io_read_fully: nothing to read, it waits;     *)
(* otherwise it destructs main.                                            *)
DogWaits(d) ==
  /\ NobodyRuns
  /\ dog[d] = "ready" /\ ~Expired(d)
  /\ dog' = [dog EXCEPT ![d] = "waiting"]
  /\ UNCHANGED <<main, others, handlers, scoped, timer, interval, overdue, ended_by>>

DogBites(d) ==
  /\ NobodyRuns
  /\ dog[d] = "ready" /\ Expired(d)
  /\ DestructMain(d)

WatchdogNext ==
  \/ Run \/ Yield \/ OthersRun \/ OthersYield \/ Return \/ Restart
  \/ WakeOthers \/ EndScope \/ ClientDestructs
  \/ \E d \in Dogs :
       \/ \E b \in BOOLEAN : Watch(d, b) \/ Interval(d, b)
       \/ Tickle(d) \/ Disable(d)
       \/ TimerExpires(d) \/ DogWaits(d) \/ DogBites(d)
  \/ \E pack \in SUBSET Dogs : Report(pack)

WatchdogSpec == WatchdogInit /\ [][WatchdogNext]_watchdogVars

Reports(d) == \E pack \in SUBSET Dogs : d \in pack /\ Report(pack)

(* A loop that comes to poll again and again reports the timer:            *)
(* registrations are level triggered.  Nothing is assumed of the threads.  *)
WatchdogFairness == \A d \in Dogs : SF_watchdogVars(Reports(d))

FairSpec == WatchdogSpec /\ WatchdogFairness

-----------------------------------------------------------------------------

(* A watchdog's thread, its open timer and the handler that takes both     *)
(* away exist together or not at all, however main ends and whoever ends   *)
(* it: the thread never reads a closed timer or a freed record (20-41,     *)
(* 57-59, 73-79).                                                          *)
DogsLeashed ==
  /\ IsInjective(handlers)
  /\ \A d \in Dogs :
       /\ dog[d] # "absent" <=> d \in Watched
       /\ timer[d] # "closed" <=> d \in Watched
  /\ main = "absent" => handlers = <<>>

(* "tickle watchdog so that it does not trigger until the interval         *)
(* expires" (84-88), also when the thread was woken by an expiration just  *)
(* before: only a watchdog that is overdue ends main.                      *)
NoFalseAlarm ==
  [][\A d \in Dogs : main # "absent" /\ main' = "absent" /\ ended_by' = d
       => d \in overdue]_watchdogVars

(* As long as the loop comes to poll again and again, a main that lets an  *)
(* interval pass and does not arm the watchdog again is destructed, in     *)
(* whatever order the threads of a batch run (31-41).  Threads that keep   *)
(* each other runnable, or that do not give way, keep the loop from        *)
(* polling and are out of a watchdog's reach (switch.c 106-112).           *)
Bites == []<>Quiet => \A d \in Dogs : d \in overdue ~> d \notin overdue
=============================================================================
