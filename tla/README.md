# libaboon in TLA+

libaboon is a C library, without libc, for single-process servers on Linux:
cooperative threads on one event loop (the *switch*), stacks and queues, a work
queue, a token bucket, watchdogs, heartbeats, kernel asynchronous I/O, and some
pure code beside them (an allocator over `brk`, big numbers, SHA-256, sorting,
strings). `src/test.c` is a program of many `main_NNN`s that use it.

There is one CPU context. What is hard here is not parallel memory access but
*order*: a thread keeps the CPU until a call that switches, any thread may be
destructed by any other at such a point, cleanup handlers run on whatever thread
does the destructing and may destruct further threads, and the kernel (epoll,
timers, asynchronous requests) moves on beside all that. These specifications
state what must hold at every such point.

Contents: [inventory](#inventory) · [modules](#modules) · [runs](#runs) ·
[what the code and its words disagree on](#disagreements) · [proofs](#proofs) ·
[what is only model-checked](#only-model-checked) · [what is not modelled](#not-modelled) ·
[plan](#plan) · [how to run](#how-to-run)

## Inventory

| part | state | operations | talks to |
|---|---|---|---|
| **contexts** `context.c` | per context an `rsp`; per turn of it who to yield to | initialize, enter, yield | switch |
| **switch** `switch.c` | per thread: `runnable`, `slumber_enabled`, `epoll_enabled`/`epoll_fd`, `destruct_enabled`, hibernated pages, a bounded stack of cleanup handlers; per switch: `runnable_list`, `current`, `destruct_nesting`, `destruct_me`, `epoll_nr`, free pages | create, disturb, slumber, epoll wait, push/pull cleanup, destruct, the event loop and its improver, save and restore of stacks | kernel epoll; every part below |
| **stack, queue** `stack.c`, `queue.c` | groups of pointers; a queue is two stacks | push, pull, `_many` (reverse, non-null), delete_all | allocator |
| **work queue** `work_queue.c` | `qu_work`, `sk_wait` | submit, submit by switch, obtain, resubmit, delete; the handlers of obtain and of items | queue, stack, switch (disturb, slumber, cleanup) |
| **token bucket** `token_bucket.c` | `amt`, `lim`, `trickle_count`, `qu_wait` | submit, trickle, obtain, delete; its handler | queue, switch, heartbeat |
| **aio hub** `aio.c` | `nfl`, `max`, `qu_wtg`, a kernel context, an eventfd, a thread | submit, reap, resubmit | kernel aio, io, queue, switch |
| **watchdog** `watchdog.c` | a timer, a thread, the interval, the watched thread | launch irreversible or around a proc, interval, tickle, disable; its handler | kernel timers, switch (destruct) |
| **heartbeat** `heartbeat.c` | a timer, a thread, a counter | launch, one beat | kernel timers, io, queue, work queue, a proc (a bucket's trickle) |
| **saved stacks** `switch.c` | per thread a list of pages and a length; `page_list` of free pages; one stack for all | copy out, copy in, first stack, free | allocator |
| **io, bufio** `io.c`, `bufio.c` | a descriptor; a buffer with two positions | read, write, accept, `_fully`, numbers in network byte order; refill | switch (epoll wait, destruct self) |
| **allocator** `alloc.c` | a break, bins of powers of two with free lists | allocate, free, both with the bin looked up beforehand | `brk`; everything |
| **bignum, sha256, sorting, strings, memory, printing** | none outlives a call (sha256: a block; the random generator: a table) | pure functions | - |
| **system calls, parkour** `linux.c` | the position in a log, in programs built with `LBT_PARKOUR` | each call: record what goes out and comes in, or check the one and take the other from the log | kernel; everything |
| **chat servers** `test.c` main_004, main_006 | `gs->senders`, `gs->chain`; per thread a `cs` with peer and descriptor | accept, receive, send, cleanup | switch, io, watchdog |

Hard behaviours, and what makes each part correct:

* **switch** - nested destructs (a handler destructs other threads, or the very
  thread it runs on), destructs of threads in every state (running, on the
  runnable list, asleep, in epoll), a descriptor closed by a handler while its
  thread waits on it, more events than one `epoll_wait` returns, an improver
  that makes threads runnable just before polling. Correct: the list holds each
  runnable thread once and nothing freed; a live thread is in exactly one
  place; epoll's set agrees with the threads; no destruct that began is dropped;
  the process blocks only when nobody can run.
* **saved stacks** - thread structures, pages and other blocks come from the same
  bins and go round; a running thread keeps its list of pages although they are
  no longer its own; a zombie has a structure and no pages. Correct: every byte
  of the heap has one owner, and a thread finds the stack it left.
* **queue** - group boundaries, refills, put-backs past the refill. Correct: it
  is a sequence.
* **work queue, token bucket** - a thread is destructed while it sleeps in
  obtain, after it was woken and before it runs, or in the middle of an item.
  Correct: no item lost or done twice, no sleeper forgotten, nobody asleep
  beside what it waits for.
* **aio hub** - completions arrive while the hub reaps and resubmits. Correct:
  the count is the kernel's, `io_getevents` never blocks the process, no slot idles.
* **watchdog** - the timer expires, the watchdog's thread is woken, and the
  watched thread tickles first; the watchdog's thread destructs the watched
  thread, whose handler destructs the watchdog's thread. Correct: no false alarm,
  no missed one, nothing outlives its thread.
* **heartbeat** - beats that come late or not at all while threads keep each other
  runnable. Correct: what it feeds does not get stuck.
* **contexts** - contexts enter each other, and one is entered by another way than
  before. Correct: a yield goes to whoever entered last, and no switch into dead frames.
* **io** - transfers cut short, refused, failing in the middle. Correct: what arrives
  is what was sent, or the thread is gone.
* **parkour** - a log without marks, read by calls that have to know from what they
  were given how much each one wrote. Correct: a replay sees what recording saw, up to the first call of
  a few whose wrappers do not log enough for that.
* **bignum, sorting, strings, memory, printing, bufio, sha256** - digits and words that wrap, sizes
  at a boundary, an empty operand, a short read. Correct: what the function
  computes, and its assertions fail only on operands it may not be given.
* **chat servers** - two threads share a connection and destruct each other, on
  any order of failure. Correct: pairs live and die together, lists of peers
  hold nothing freed, no sender sleeps through a message.

`PROJECT.json` lists the hazards line by line with the properties that cover them.

## Modules

| module | models | abstraction |
|---|---|---|
| `Scheduler` | what the switch promises: one status per thread, and how many handlers it is owed | abstract specification |
| `Switch` | `switch.c` | stack pages (a thread has them or is a zombie), contents of threads |
| `Alloc` | `alloc.c`, as operators on a record of memory | what is in a block |
| `ThreadPages` | the stack pages of `switch.c`, on `Alloc` | which runnable thread comes next |
| `Fifo`, `Stack`, `Queue` | a sequence; `stack.c`; `queue.c` on it | memory of groups |
| `WorkQueue` | `work_queue.c` among threads that work, block, destruct | `qu_work` is a sequence, by `Queue` |
| `TokenBucket` | `token_bucket.c` among such threads | `qu_wait` is a sequence |
| `Heartbeat` | `heartbeat.c` trickling into that bucket, its timer, the loop's polling | of the timer's count, whether it is zero |
| `Aio` | `aio.c`, the kernel's context and its eventfd | buffers, failed requests (they abort), when the hub's thread gets its turn |
| `AioLoop` | that thread among others on the event loop | the others: whether any of them runs or is runnable |
| `Watchdog` | `watchdog.c`, the kernel's timers, one watched thread | time: an interval passes or does not; the other threads, as in `AioLoop` |
| `Chat` | main_006 of `test.c` | text: the length of the chain; a destruct is one step |
| `Bignum`, `Sorting`, `Lagged` | `bignum.c`; sorting, searching and the random generator of `misc.c` | digits are in base 2^`DigitBits`; any first table |
| `Memory`, `Numbers`, `Printer` | searches and copies of `sysdeps.c`, `string.c`, `misc.c`; number conversions of `string.c`; `printer.c` | words are in 2^`WordBits`; characters are numbers |
| `Io`, `Bufio`, `Sha256` | `io.c` between two threads, with the byte swaps of `sysdeps.c`; `lb_bufio_read`; how `lb_sha256_calc` cuts and pads a message and in which order of bytes the core reads it | octets have `OctetBits` bits; a failed buffered read (it aborts); the compression |
| `Context` | `context.c` | an `rsp` is a stack and how often it was left; the other registers |
| `Parkour` | recording and replaying of system calls in `linux.c` | one wrapper per shape; a cell for a byte or a structure |
| `Filters` | - | a sequence cut down to the members of a set, as a recursive function that can be proved about |
| `SequenceLemmas`, `SwitchProofs`, `QueueProofs`, `AioProofs`, `TimerProofs`, `WorkQueueProofs`, `ThreadPagesProofs`, `ChatProofs` | - | the theorems |
| `MC*` | - | symmetry sets for TLC, instances; `MCAlgorithms` enumerates the inputs of the modules from `Bignum` to `Parkour` and states the reference definitions |

`Switch` is the core. `Scheduler` says what clients rely on; `Switch` is shown to
implement it through the refinement mapping `statusOf`, `owedOf`. `WorkQueue`,
`TokenBucket`, `Watchdog` and `Chat` use threads as `Scheduler` has them, cut to
what each needs; `Queue` implements `Fifo`, which is what justifies sequences in
the others. `ThreadPages` takes from `Switch` the places where a thread is
entered, left and dropped, and puts them on the memory of `Alloc`.

### Switch and the code

One variable per field: `runnable`, `slumber_enabled`, `epoll_fd`,
`destruct_enabled`, `zombie` (the thread's `hiber_page_list` is NULL),
`cleanup_stack`; `runnable_list`, `current`, `destruct_me`, `epoll_nr`; `frames`
is the stack of active calls of `lb_switch_destruct_thread`, whose length is
`destruct_nesting`. `pc` is the place in the event loop. `watch` and `open` are
the kernel's epoll set and open descriptors.

| action | code |
|---|---|
| `CreateThread`, `Disturb`, `Slumber`, `EpollWait` | the calls of those names |
| `PushCleanup`, `PullCleanup` | `lb_switch_push_cleanup`, `_pull_cleanup` |
| `DestructBegin`, `RunCleanup`, `HandlerReturn`, `DestructEnd` | `lb_switch_destruct_thread`, cut where handlers run, so that handlers can do anything in between, destructs included |
| `EnterLoop`, `LoopTop`, `FreeZombie`, `EnterThread`, `LeaveThread`, `RunnablesDone` | the loop over `runnable_list` |
| `ImproverDone`, `EpollReturn`, `HandleEvent`, `EventsDone`, `LoopReturn` | the rest of the loop |

Handlers are of two kinds: one that closes a descriptor of the thread (the usual
one in the repository), and `User`, opaque code that may create, disturb and
destruct.

Client code is any sequence of calls that the switch's contract permits. The
contract, which the code does not check, appears as guards:

* thread pointers passed in are of threads that exist and whose destruct has not
  begun;
* a descriptor that is waited for is open, belongs to the waiting thread (its own
  cleanup handler closes it) and nobody else waits for it. The descriptors of
  watchdogs, heartbeats and the aio hub live longer than that and are in the
  modules of those parts;
* a cleanup handler does not slumber or wait: the loop would go on with the
  destruct half done;
* nobody pushes or pulls handlers of a thread in destruction.

What the switch owes to *itself* is never a guard: its `LB_ASSURE`s are the
property `Assures`.

### Saved stacks and the heap

All threads run on the program's one stack. `Leave` is the copy out of
`lbi_switch_load_exec_save`, `Enter` the copy in, both page by page in the order
of the code; `CreateThread`, `FreeZombie`, `LeaveDestructed` and `Destruct` are
the places where a structure or a page changes hands. Addresses are byte offsets
in the heap and a thread's name is its address, so a structure that is freed
twice, or handed out while it is in use, is a collision that the model can see.
A word of stack says whose it is and how far from the base; what a free page
holds has no meaning (`Junk`). A running thread's `pages` are left as the code
leaves them: still pointing at pages that are others' by now.

### Functions

The constants of `Bignum` and `Numbers` are the widths of a digit (64 bits in the
library) and of a word. A function's `LB_ASSURE`s are part of its result
(`ok`), so a reference definition says for every input both
what is computed and when the program aborts. Recursive procedures of the code
are recursive operators. The last loop of a reduction, which subtracts the modulus
until the rest is less, is a remainder: subtraction is exact by `ArithmeticExact`.

The kernel's side of `Io`, `Bufio`, `Printer` and `Parkour` is a script of answers, one per
call: an amount at most, a refusal, an error. When it is used up, the kernel does all it is
asked for, so that short scripts show what longer ones would. `Io` has a thread write a
number on a connection and another accept it and read the number, each with its own script;
a wait in epoll is counted and returns at once, since the order of threads is `Switch`'s and
`Chat`'s matter. `Memory` says of each comparison whether it stays inside the memory.
`Context` is driven by any sequence of entries and yields; the reference is a stack of active
contexts. `Parkour` runs two calls on one buffer, where the second uses the first one's
result as its descriptor, records them, and replays them from the log or a part of it.
Recording and replaying are operators of their own where their code differs: `Outgoing` and `Compared` for
the pointers of `io_submit`, `LengthAfter` for the length of an address.

`Sha256` has the order of bytes in the host's words as an argument, since the second padding
(`fini` 2) is about it: `LengthInBytes` is big-endian on any host, `LengthInWords` puts two words as the
host stores them. The state of the hash is the words the core works on, after `swap`.

### The clients

`WorkQueue` and `TokenBucket` take one step per stretch of code between two calls
that can switch. Any running thread destructs any other at any such point, itself
included, the event loop's improver submits too, and freed thread structures are
reused. A destructed thread that was runnable stays on the runnable list as a
zombie until the loop frees it, as in `Switch`. A disturb of a *freed* structure
is modelled by what happens in this build: its first field, `sw`, was overwritten
by the allocator's free-list link, so `lb_switch_disturb`'s assertion fails and
the program aborts (`aborted`, after which nothing happens). `casualties`
is a history variable: it records that a thread was destructed inside obtain,
because some properties of the work queue are true only until then.
`Renew` deletes the queue or the bucket and makes a new one, which is legal
only while nobody is in a call of it and no handler of it is pushed.

`Heartbeat` puts `lbi_heartbeat_thread` on the loop of `TokenBucket`, with a proc that
trickles. Its thread is in nobody's reach, so nobody destructs it; the loop polls
only when no thread is runnable, so busy threads make beats late, and expirations
in between are read as one.

`Aio` has the kernel as three actions: complete a request, then signal the
eventfd, both at any moment, and start one. The hub's thread gives way only in
`lb_io_read_fully`. `AioLoop` puts it on the loop, as `Heartbeat` does for its thread: it waits in
epoll, comes back only when the loop polls, and the loop polls only when no thread is runnable.
The clients run, submit, yield and wake each other in any order; every step of `AioLoop` is one of `Aio` or none
(`LoopImplements`), so what holds of the hub holds of it there.

`Watchdog` lets the watched thread run, block, return, end its passthrough scopes
in order, and start over after it was destructed, beside other threads of the loop, who wake it, tickle
its watchdogs and destruct it. `Report` is a poll: it makes any of the threads runnable whose timers expired, and
others, and they run in any order. A destruct is one step, with all its handlers: that handlers may
nest is `Switch`'s matter, and what `DogsLeashed` sees of it is where it ends. `overdue` remembers which
watchdogs' interval passed since they were last armed.

`Chat` keeps the runnable list in its order, because `lb_switch_create_thread`
pushes on it and the order in which a pair first runs matters. It is main_006; main_004, an
earlier server with handlers of its own, is not modelled.

## Runs

Deadlock is checked in `switch`, `switch_live` (the loop's return is a stuttering
step, `Exited`), `queue`, `thread_pages`, `watchdog` and `algorithms` (whose only
step is from an input to itself). The others may stop: everything was delivered
(`aio`), all connections are gone (`chat`), or a bounded queue of waiters is full
or the program aborted (`work_queue`, `token_bucket`).

| run | bounds | what it shows |
|---|---|---|
| `switch` | 3 thread structures, 2 descriptors, 2 handlers per thread, batches of 2 | types; the runnable list, dispositions, epoll's set and destructs in progress are exact; zombies are inert; the loop blocks only when idle; no own assertion fails; **`Switch` implements `Scheduler`** |
| `switch_live` | 3 threads, no descriptors | a destruct that began is carried through |
| `thread_pages` | 2 words to a page, 2 threads with stacks of 3 or 4 words, 1 block of other code, structures and pages in one bin | no byte of the heap is in two places or in none; the break is where the allocator thinks; a thread finds the stack it left |
| `queue` | groups of 2, 5 items, an element and NULL, up to 3 at once | **`Queue` implements `Fifo`** |
| `work_queue` | 3 threads, 3 items, `sk_wait` up to 4 | work is conserved; no sleeper is unknown; until somebody is destructed inside obtain, waiters are exact and no item idles beside one |
| `work_queue_stale` | the same, 2 items | *violation*: see below |
| `token_bucket` | 3 threads, limit 2, requests up to 3, `qu_wait` up to 4 | types with `amt` within its limit; nobody sleeps beside tokens; tokens flow while the heart beats and somebody can be served |
| `aio` | 5 requests, 2 in the kernel | the count is the kernel's; `io_getevents` never blocks; each request is in one place; no idle slot; while the loop polls again and again, all are delivered |
| `watchdog` | 2 watchdogs on one thread | threads, timers and handlers of watchdogs live and die together; no false alarm; while the loop polls again and again, each overdue watchdog bites or is armed again |
| `chat` | 2 connections, chain of 2 | pairs, senders and sleepers of main_006 |
| `algorithms` | digits of 3 bits: all pairs of numbers of up to 3 and up to 2 digits, divisions by a modulus of 1 digit (all) and 2 digits (5 of them), all dividends; generator tables of 4; arrays up to 6 with 4 keys; memories up to 6 cells and needles up to 3; 2 variables of up to 3 characters; strings up to 4 digits in words of 8 bits; formats up to 3 items; files up to 5 bytes in 3 requests; numbers of 1 to 8 octets, 2 answers to the writer and 3 to the reader; messages up to 40 bytes of 3 bits in blocks of 16 with a length of 2 words of 2, on hosts of both orders; 2 contexts, 7 switches; 2 system calls on a buffer of 2, logs cut off anywhere | the functions compute what their reference definitions say, and their assertions fail exactly when they should |
| `barrett` | the divisions of `algorithms` | *violation*: see below |

Why these bounds are enough to be interesting. Three threads and two handlers let
a destruct nest to depth three, with the running thread destructed in the innermost
handler, a second zombie on the list and a slumbering bystander. Two descriptors give two events
in one batch, of which handling the first can matter to the second. Groups of two and
five items cross group boundaries on both stacks while both are filled, and three at once fill more than a group. Three workers
and three items allow a waiter, a kicked thread and a busy worker at once; `MaxWait` above
the number of threads leaves room for stale pointers. A request of three on a bucket of
two can never be served, one of two needs two ticks, and three threads are two that pass tokens on while the third waits. Five requests are more than twice
the kernel's places, so the queue is refilled twice. Two watchdogs can nest and expire
together. Stacks of three and four words on pages of two are a page and a rest, and whole
pages; two of them and a structure of a page's size make pages, structures and
free blocks trade places. Two digits are enough for a carry through a digit, a
product's second row and a shift across digits; six elements take the sort through its partition, its exchange
and the recursion into both parts; messages of up to 40 bytes end before, at and after the
place where the length still fits the last block, and their lengths need both words and several bytes of each. Seven switches let a context be entered from
the program, yield, be entered from the other context, and yield back there. Two calls are what it takes
for a misread of the first to show in the second. Two connections are the smallest number at which a pair is torn down
beside a walk through the senders.

### Fairness

* `switch_live`: the code of `switch.c` runs on (weak), a thread that has left is
  switched away from (weak), and a cleanup handler, if its turn comes again and
  again, returns (strong: destructs nested in it disable its return for a
  while). Nothing is assumed of other client code, and no fairness between
  threads: the comment at `switch.c` 106-112 says that runnable threads go before
  polling, so two that wake each other starve the rest.
* `aio`: the kernel completes what it was given and signals (weak), and a loop that comes to poll again and
  again reports the eventfd (strong; epoll's registrations are level triggered). Nothing is assumed of the
  threads: `AllDelivered` begins with "as long as the loop comes to poll again and again".
* `token_bucket`: time passes (weak), and a loop that comes to poll again and again reports the
  heartbeat's timer (strong; epoll's registrations are level triggered). Nothing is assumed of the threads,
  which may keep each other runnable and so the loop from polling (`switch.c` 106-112): `TokensFlow`
  begins with "as long as the loop comes to poll again and again".
* `watchdog`: a loop that comes to poll again and again reports an expired timer (strong, for the same reason).
  `Bites` has the same condition. A watched thread that loops without a switching call, or threads that keep
  each other runnable, are out of any watchdog's reach. Once the loop polls again, the woken thread has
  had its turn, since it was on the runnable list.

## Disagreements

1. **A destructed waiter stays known to its work queue** (`work_queue_stale`).
   `lbi_work_queue_obtain_cleanup_proc` (`work_queue.c` 92-95) takes its argument
   `th` off `sk_wait`. The switch passes the thread that *runs* the destruct
   (`switch.c` 736), and a thread asleep in obtain is always destructed by another.
   So a kick can go to a freed thread, against "kick exactly one waiting thread" (45).
   `WorkConserved` and `WaitersKnown` hold nevertheless: up to the abort, no work is
   lost and no living sleeper forgotten.
2. **The Barrett reduction does not reduce** (`barrett`). `lb_bignum_barrett` begins with
   `lb_bignum_mov(r1, r)` (`bignum.c` 584): `r1` is to be the dividend `x`, and gets the old
   contents of the result `r`. `lb_bignum_barrett_old` computes the remainder as it should
   (`ArithmeticExact` in `algorithms`), and `test.c` 1246 and 1280 assert that a reduction
   agrees with long division. Two more lines of the same function are doubtful and hidden
   behind the first: the masking at 596 and the case `r1 == r2` at 598.

Smaller ones met on the way and not kept as runs:

* `token_bucket.c` 65-68 has the handler of (1) again; nothing but a stale disturb comes of it
  there until the structure is freed, and then the same abort.
* `m2_handler_recv_cleanup` of main_004 asserts `th == cs->th` (`test.c` 169). When one thread of
  a pair destructs the other, the other's handler gets the first as `th`. main_006 has the line
  commented out (468).
* `heartbeat.c` 65 says "the first counter value is always 1", but the timer is armed before the
  thread's first turn, and a late first read returns more; and the macro
  `LB_HEARTBEAT_LAUNCH_VARIANT_1` passes arguments the function does not take (nothing uses it).
* `lbt_epoll_ctl` (`linux.c` 502) is the one call whose result is not logged and which a replay makes again. The
  replay never created that epoll, so the call fails, and `switch.c` 607 asserts that it does not: no program in which
  a thread waits can be replayed. `brk`, the other way round, is logged and not made again, so the replay's heap is not there.
  What asynchronous reads put into memory is not logged either. The lines of `mk.sh` (126-127) that build such programs are commented out.
* `lbt_stat` and `lbt_lstat` (489-490) log `sizeof(stat)` bytes of the result, the size of the pointer; `lbt_accept` with an
  address takes its length from memory that is not logged (500); `lbt_exit_group` (480) does not end a replay; and
  `lbti_parkour_replay_Z_O_M_M_A` (388-399) does not look for NULL as the recording side (375-386) does, and so
  a recorded `io_submit` of a NULL array and a number ends its replay. `ReplayExact` says how far a replay
  gets with each (`Restored`). Nothing in the repository calls these so.
* The comment on `/fini 2` (`sha256.c` 175-179) has it that for words in host order a little-endian host gets the same with `/swap`
  as without, and the same with it as a big-endian one without. The same is got on both hosts *without* it,
  and on both with it (`PaddingExact`).
* In `token_bucket.c` 40 `amt + n` can wrap around before the minimum is taken; it needs submits near 2^64.

## Proofs

Checked by the TLA+ proof system for every value of the constants, under the
assumptions named in the modules: `NullsAssumption` (the NULL values are not threads or
descriptors), `LimitsAssumption` (finitely many descriptors, limits are naturals),
`MaxAssumption` (at least one request in the kernel), `RequestsAssumption` (finitely
many requests in all), `GroupLengthAssumption` (a group holds at least one pointer), `BoundsAssumption` (the bounds
of `Queue` are naturals), `BucketAssumption` (the limit, the requests and the bound of `qu_wait` are
naturals), `UnwaitAssumption` and `NamesAssumption` (constants that stand for nobody and for code
are not threads, items or watchdogs), `ClientAssumption` (whoever else ends a watched thread is not one of its
watchdogs), `AllocAssumption` (the size of a pointer and the largest alignment are
powers of two, the second no larger than the first: both are 8 in the library; there is a bin, and the break
moves by at least a byte) and `PagesAssumption` (a page has room for a word and for the first stack, and what is
asked of the allocator fits its largest bin).

**Switch** (`SwitchProofs`). `TypeOK`, `RunnableListExact`, `OneDisposition`, `EpollExact`,
`NoDestructLost`, `ZombieInert`, `BlocksOnlyWhenIdle` and `Assures` are invariants. None is
inductive alone. `IInv` joins them with

* `CurrentInv` - there is a current thread exactly while the loop runs one, and it is alive;
* `DeadInv` - a free structure is flagged as nothing;
* `DestructInv` - a thread in destruction is out of epoll, and a destruct counts down within the
  thread's handlers; `destruct_me` is set only when the current thread's own handlers are through;
* `EventsInv` - the events at hand are registrations still in force, each once: this is why
  handling one never meets a freed thread;
* `OwnerInv` - an open descriptor has exactly one handler still to run that closes it, and only the
  thread with that handler waits for it: no descriptor is closed under a waiting thread.

The last is where most of the work is: `RunCleanup` closes a descriptor, and `EpollExact` survives only
because the destruct took the owner out of epoll before its first handler ran (`switch.c` 723-728).
`SwitchProofs` has one lemma per conjunct, with one step per action, and lemmas about frames,
the runnable list and the freeing of threads that several of them cite. `Assures` follows from `IInv`
without a step of its own.

**Aio** (`AioProofs`). `NflExact`, `NeverBlocks`, `EachOnce` and `NoIdleSlot` are inductive together with
types and `Reaped` (the thread comes back to its read with nothing left to reap). The counters are right
because every request is in one place; `max - nfl` does not wrap because they are right; and the number
resubmitted is the number of free places because it does not wrap. `LoopImplements` and `HubOnLoopSound` carry this to
the hub on the event loop, which is what `aio` runs.

**Switch implements Scheduler** (the last part of `SwitchProofs`). `SwitchImplements` is the refinement that `switch` checks
on an instance, proved step by step: each action of `Switch` is an action of `Scheduler` under `statusOf`, `owedOf`, or a
stutter. Most lemmas are about `owedOf`: a thread in destruction owes what its frame says, and as targets
of frames are distinct (`NoDestructLost`) a push, a pop or a nested destruct moves no other
thread's debt.

**Queue implements Fifo** (`QueueProofs`). `QueueImplements` is the refinement that `queue` checks for groups of two,
proved for every group length, every set of elements, NULL among them or not, and every bound. It rests on
`StacksSound`: `len` is what `head_used` and the number of groups make it, and every position that counts holds an
element. Where an element is, is a division by the group length (`Contents`), so `PushFacts` and `PullFacts` say what
a push or a pull does to every position, at and away from a group's boundary, with the empty group that is kept until the next pull.
From there on `Contents` is a sequence: pushes and pulls of many repeat those two (`SeqInduction`,
`SetInduction`), `delete_all` is a filter between two reversals, and a refill turns one stack over onto an empty one,
which is why `items` is the one stack followed by the reverse of the other. `QueuePulls` carries that through the refill that a pull of many
meets in its middle.

**WorkQueue** (`WorkQueueProofs`). `WorkConserved`, `WaitersKnown`, `WaitersExact` and `NoIdleWork` are
invariants. What they need beside types is `ObtainersOnTop`, the handler discipline of obtain: a thread asleep
is in obtain, and one in obtain has obtain's handler on top of its stack. So a destruct runs that handler
first, and only then the items' handlers, which resubmit and kick. `DestructLoop` is the heart: a destruct runs any
number of handlers, each of which changes the queue and wakes somebody, and the lemma carries through all of
them that items are only moved, that threads are only woken, and that known sleepers stay known. It is an
induction over the handlers, done with `SetInduction` (below). `Known`, `Exact` and `Spare` state the
properties of a queue in the middle of such a call. `NoIdleWork` compares cardinalities; it
rests on `IsFiniteSet(obtaining)`, which is inductive itself, so that `Threads` may be infinite.

**TokenBucket** and **Heartbeat** (`TimerProofs`). `TypeOK`, which has `amt` within the limit, and `NoSleepBesideTokens` are
inductive together. The interesting step is a destruct, whose handler takes the wrong thread off `qu_wait`
(disagreement 1): nobody is forgotten, because that thread is the one that runs, and it does not sleep. `FedBucketSound`
says the same of the bucket with its heartbeat, every step of which is a trickle, a step of the
bucket or none.

**Watchdog** (`TimerProofs`). `DogsLeashed` is an invariant and `NoFalseAlarm` an action property. Both follow
from `DogInv`, which adds that an expired timer belongs to an overdue watchdog: a tickle rearms the timer and
clears the mark in one step, and so does the end of a scope.

**ThreadPages and Alloc** (`ThreadPagesProofs`). `TypeOK`, `HeapPartitioned` and `StackRestored` are invariants for any
number of bins, any sizes of pages, structures and blocks, and stacks of any lengths. The argument has three floors.

* *The allocator.* `PowerUnfolds` to `BinFacts` derive from the recursion of `Power` that the bin of a size is the one power of
  two that is enough for it. The heap is a set of *cuts*, pairs of an address and a bin, that tile the bytes below
  the break (`Tiled`). `AllocFacts`: `lb_alloc` adds a cut that nobody had, from a free list or by moving the
  break, after which the counters of `lb_sbrk` still agree; `FreeFacts`: `lb_alloc_free` of a cut in use moves it
  to a free list. That the break stays where cuts end needs `AlignedAlready`: a bin's size is a multiple of
  the alignment, so `lb_sbrk` rounds up by nothing.
* *Pages and copies.* `Pool` is the heap with the switch's list of pages in it. The copy out is a function defined by recursion
  on the pages written; `Copying` is the invariant of its steps and `OnePageMore` one step: another page that was nobody's, with the
  next part of the stack at its end, in front of the thread's list. `CopyOutFacts` has the whole: as many pages as
  `PagesFor` says, holding the stack in parts (`Holds`). `CopyInFacts` is the way back: whoever puts together pages that hold a stack
  gets that stack, though full pages are copied first on the way in and last on the way out.
* *The switch.* `IInv` joins `Layout` (structures, blocks, pages with stacks and pages on the list are distinct cuts,
  and with the free ones tile the heap), `Stacks` (each thread that does not run has pages that hold what it left),
  `Lives` (the one that runs has its words; one that is destructed but not freed is on the runnable list and has
  no pages), and types. Neither property is inductive alone: `StackRestored` says nothing of what is in the pages,
  and `HeapPartitioned` nothing of whether the structure that `FreeZombie` or `Destruct` frees was one. `Held` is where
  the running thread's stale list of pages matters: it counts as no pages while the thread runs, and the copy out replaces
  it before it counts again. `IInv` was checked with TLC on the instance of `thread_pages` before.

`HeapSound` then turns cuts into the pieces that the run counts: each piece is a cut and each cut one piece
(`PieceIsCut`, `CutIsPiece`, `PieceOnce`).

**Chat** (`ChatProofs`). `PairsTogether`, `SendersExact` and `NoLostBroadcast` are inductive with three more:
`SwitchExact` (the runnable list and the current thread agree with the threads' states),
`BegunOnce` (the threads of a connection begin together, from a connection in the backlog) and `LiveExact`
(the threads with a peer are exactly the live ones, none of them freed, and only a sender that ran slumbers). The teardown of a
pair is safe by the last: a live thread's peer is live, so what it destructs exists.

**Sequences** (`SequenceLemmas`): type, range and injectivity after a push, a pop, an append, a concatenation,
a reversal and a filter; and division with remainder. The proof system cannot use induction theorems that take an operator, nor
`SelectSeq` or folds, which are defined with them. `SetInduction` says the same of *sets* of naturals, and
follows from the well-foundedness of `<`; `Recursion` derives from it that a function defined
by recursion up to a bound exists and unfolds. This is why `Filters` has `Kept`, `Stack` has
`PushThose`, `WorkQueue` has `AfterHandlers`, and `Alloc` and `ThreadPages` have `Power` and the two copies,
as recursive functions.

## Only model-checked

* Liveness: `DestructCompletes`, `AllDelivered`, `Bites`, `TokensFlow`. Fairness and
  `ENABLED` are out of the proof system's reach.
* The functions from `Bignum` to `Parkour`: they are recursive over data, and what they
  compute is checked on every input within the bounds.

## Not modelled

* **heartbeat.c**: what it pushes to a queue or work queue (pushes like any other) and the value of its counter, which
  nothing else writes.
* **bignum.c**: `lb_bignum_modexp` and `lb_bignum_schnorr_verify` are chains of `lb_bignum_barrett`, which does not
  reduce (see above): there is nothing right to state of them until it does.
* The compression function of **SHA-256**: a fixed table of rounds on words of 32 bits, which published vectors test.
* **start.c, syscall.c** and the rest of **sysdeps.c**: assembler and one-instruction wrappers.
* **abort.c, macros, scripts**: no state that outlives a call.
* **io.c**: `lb_io_set_nonblocking`; the descriptors of the model are non-blocking from the start.
* Signals: `epoll_wait` interrupted by one ends the program; programs that use the switch block them.
* Memory never given back: when the first thread of a chat pair ends before the second ever ran, the second's
  record and descriptor stay. `PairsTogether` shows that the thread goes; nothing says that its memory does.

## Plan

Done: `Scheduler`, `Switch` and their runs; `Queue`; `WorkQueue`; `TokenBucket`; `Aio`; `Watchdog`; `Chat`;
`Alloc` and `ThreadPages`; `Heartbeat`; the functions from `Bignum` to `Parkour`; the theorems above.

Possible next:

1. In `ThreadPages`, which runnable thread comes next, joined with `Switch`.
2. main_004 beside main_006 in `Chat`, with its own handlers.
3. `Bignum`: modular exponentiation, once the reduction is right.

Every safety property of the components is proved. Theorems to come: of the functions, what the induction
of `SequenceLemmas` reaches.

## How to run

    tlc -config MCSwitch.cfg MCSwitch.tla        # any run: see PROJECT.json for module and cfg
    tlapm SwitchProofs.tla                       # likewise the other modules of theorems

`PROJECT.json` has the list of runs, the definitions with the source lines each one models, and for each property a
mutation of the model under which its run fails.
