------------------------------- MODULE Parkour ------------------------------
(***************************************************************************)
(* The system calls of linux.c in a program built to record them and in    *)
(* the same program built to replay them (LBT_PARKOUR).  Recording appends *)
(* to the file 3 what goes out to the kernel and what comes in; a replay   *)
(* reads the file, asserts that the same goes out, and takes what comes in *)
(* from there.  Nothing in the file says where a call begins: a replay is  *)
(* right only as long as it reads what recording wrote, word for word.     *)
(*                                                                         *)
(* The program has one buffer, which its calls point to or pass NULL for,  *)
(* and uses what a call returned as the descriptor of those that follow. A *)
(* cell of the buffer stands for a byte, or for the structure of a call.   *)
(***************************************************************************)
EXTENDS Integers, SequencesExt

CONSTANT BufferSize

(* The clauses of the wrappers: what memory goes out after the arguments   *)
(* and what comes in behind the returned value.  One stands for those of   *)
(* its shape: close for brk, dup, fcntl, socket, listen, accept without an *)
(* address and the calls that create a descriptor; read for pread64; write *)
(* for pwrite64, bind, connect, setsockopt and the calls that have a path  *)
(* and no structure; stat for lstat, which logs the same number;           *)
(* getsockopt for io_setup; settime for rt_sigprocmask; epoll_wait for     *)
(* io_getevents.  accept is the one with an address.                       *)
Wrappers == {
  [nr |-> 3,  name |-> "close",      out |-> "nothing",  in |-> "nothing"],
  [nr |-> 4,  name |-> "read",       out |-> "nothing",  in |-> "returned"],
  [nr |-> 5,  name |-> "write",      out |-> "buffer",   in |-> "nothing"],
  [nr |-> 6,  name |-> "getsockopt", out |-> "nothing",  in |-> "buffer"],
  [nr |-> 7,  name |-> "settime",    out |-> "buffer",   in |-> "buffer"],
  [nr |-> 8,  name |-> "epoll_wait", out |-> "buffer",   in |-> "returned"],
  [nr |-> 9,  name |-> "io_submit",  out |-> "pointers", in |-> "nothing"],
  [nr |-> 10, name |-> "epoll_ctl",  out |-> "buffer",   in |-> "nothing"],
  [nr |-> 11, name |-> "stat",       out |-> "path",     in |-> "word"],
  [nr |-> 12, name |-> "accept",     out |-> "nothing",  in |-> "address"],
  [nr |-> 13, name |-> "exit_group", out |-> "nothing",  in |-> "never"]}

(* The one call whose result is not logged: it is made in a replay, too,   *)
(* and of an epoll that was never created there, it fails.                 *)
MadeAgain(c) == c.wrapper.name = "epoll_ctl"

BadDescriptor == -9

(* Z_O: the number of the call and its arguments, of a pointer only        *)
(* whether it is NULL, as of accept's pointer to a length.                 *)
Arguments(c, fd) ==
  <<c.wrapper.nr, fd, IF c.pointer THEN 1 ELSE 0,
    IF c.wrapper.in = "address" THEN 1 ELSE c.len>>

(* The name of a file.                                                     *)
Path == <<20>>

(* Z_O_M and Z_O_M_A, which record what they are to compare in a replay:   *)
(* nothing of NULL and nothing of no length.                               *)
Memory(c, buffer) == IF c.pointer THEN SubSeq(buffer, 1, c.len) ELSE <<>>

(* io_submit's pointers, which are cells, too, and what they point to.     *)
Pointers(c, buffer) ==
  IF c.pointer THEN [n \in 1..c.len |-> n] \o SubSeq(buffer, 1, c.len) ELSE <<>>

(* lbti_parkour_record_Z_O_M_M_A writes nothing for NULL.                  *)
Outgoing(c, buffer) ==
  CASE c.wrapper.out = "nothing"  -> <<>>
    [] c.wrapper.out = "path"     -> Path
    [] c.wrapper.out = "buffer"   -> Memory(c, buffer)
    [] c.wrapper.out = "pointers" ->
         IF c.pointer /\ c.len > 0 THEN <<c.len>> \o Pointers(c, buffer) ELSE <<>>

(* lbti_parkour_replay_Z_O_M_M_A reads the number of pointers though they  *)
(* be NULL, and then the first of them.                                    *)
NullArray(c) == c.wrapper.out = "pointers" /\ ~c.pointer /\ c.len > 0

Compared(c, buffer) ==
  IF NullArray(c) THEN <<c.len>> ELSE Outgoing(c, buffer)

(* What *sa_len is after an accept with an address: the kernel's length of *)
(* it, which may be more than there was room for.                          *)
LengthAfter(c) == IF c.wrapper.in = "address" /\ c.ret >= 0 THEN c.size ELSE c.len

(* How much lbti_parkour_record_Z_I_M and _Z_I_M_A write: what a call      *)
(* returned is its length, unless it failed; of stat's structure as much   *)
(* as a pointer to it has (489-490); and of an address *sa_len.            *)
IncomingLength(c, ret, sa_len) ==
  IF ~c.pointer THEN 0
  ELSE CASE c.wrapper.in \in {"nothing", "never"} -> 0
         [] c.wrapper.in = "buffer"   -> c.len
         [] c.wrapper.in = "returned" -> IF ret > 0 THEN ret ELSE 0
         [] c.wrapper.in = "word"     -> 1
         [] c.wrapper.in = "address"  -> sa_len

(* The first cells of the buffer are written over.                         *)
Over(buffer, new) == new \o SubSeq(buffer, Len(new) + 1, Len(buffer))

(* The kernel's side of a call: c.ret, and as many of the cells c.data as  *)
(* the call fills, for accept c.size.  A failed call fills none.           *)
Filled(c, buffer) ==
  IF ~c.pointer \/ c.ret < 0 THEN buffer
  ELSE CASE c.wrapper.in \in {"nothing", "never"} -> buffer
         [] c.wrapper.in = "buffer"   -> Over(buffer, SubSeq(c.data, 1, c.len))
         [] c.wrapper.in = "returned" -> Over(buffer, SubSeq(c.data, 1, c.ret))
         [] c.wrapper.in = "word"     -> Over(buffer, c.data)
         [] c.wrapper.in = "address"  -> Over(buffer, SubSeq(c.data, 1, Min({c.len, c.size})))

(* Only writes to the standard error reach it in a replay as well.         *)
Shows(c, fd, buffer) ==
  IF c.wrapper.name = "write" /\ fd = 2 THEN Memory(c, buffer) ELSE <<>>

(* A program's state: what is left of the log to read, or what is written  *)
(* of it; the buffer, the descriptor, what was shown, whether it still     *)
(* runs, and a history of what it got from each call.                      *)
Begin(log) ==
  [log |-> log, buffer |-> [n \in 1..BufferSize |-> 0], fd |-> 0, shown |-> <<>>,
   running |-> TRUE, seen |-> <<>>, ends |-> <<>>]

Got(s, c, log, ret, buffer, sa_len) ==
  [log |-> log, buffer |-> buffer, fd |-> IF MadeAgain(c) THEN s.fd ELSE ret,
   shown |-> s.shown \o Shows(c, s.fd, s.buffer), running |-> TRUE,
   seen |-> Append(s.seen, [ret |-> ret, buffer |-> buffer, sa_len |-> sa_len]),
   ends |-> Append(s.ends, Len(log))]

(* A call while recording.                                                 *)
Recorded(s, c) ==
  LET out   == s.log \o Arguments(c, s.fd) \o Outgoing(c, s.buffer)
      after == Filled(c, s.buffer)
      back  == IF MadeAgain(c) THEN <<>>
               ELSE <<c.ret>> \o SubSeq(after, 1, IncomingLength(c, c.ret, LengthAfter(c)))
  IN  IF c.wrapper.in = "never" THEN [s EXCEPT !.log = out, !.running = FALSE]
      ELSE Got(s, c, out \o back, c.ret, after, LengthAfter(c))

Record(s, c) == IF s.running THEN Recorded(s, c) ELSE s

(* What reading n cells of the log gives, and leaves.                      *)
Taken(log, n) == SubSeq(log, 1, Min({n, Len(log)}))
StillThere(log, n) == SubSeq(log, n + 1, Len(log))

(* lbti_parkour_replay_Z_O_n reads over a copy of the arguments, so that   *)
(* behind the end of the log they agree; lbti_parkour_replay_Z_O_M reads   *)
(* over an uninitialized array, which there does not, as a rule.           *)
ArgumentsAgree(log, out) == \A n \in 1..Min({Len(log), Len(out)}) : log[n] = out[n]
MemoryAgrees(log, out) == Taken(log, Len(out)) = out

(* What lbti_parkour_replay_Z_I gives behind the end of the log, an        *)
(* uninitialized word: no result of a call in the log.                     *)
Unread == -2

(* Mutant: the sign of what was returned is not looked at, and a failed    *)
(* read takes the whole buffer out of the log.                             *)
BugReplayedLength(c, ret) == IF ret < 0 THEN c.len ELSE IncomingLength(c, ret, c.len)

(* How much lbti_parkour_replay_Z_I_M and _Z_I_M_A read, by the returned   *)
(* value that they have from the log, and *sa_len as the program left it.  *)
ReplayedLength(c, ret) == IncomingLength(c, ret, c.len)

(* The same call in a replay; an exit_group comes back.                    *)
Replayed(s, c) ==
  LET args == Arguments(c, s.fd)
      log  == StillThere(s.log, Len(args))
      out  == Compared(c, s.buffer)
      back == StillThere(log, Len(out))
      ret  == IF MadeAgain(c) THEN BadDescriptor ELSE IF back = <<>> THEN Unread ELSE Head(back)
      in   == IF MadeAgain(c) THEN <<>> ELSE Taken(StillThere(back, 1), ReplayedLength(c, ret))
      rest == IF MadeAgain(c) THEN back ELSE StillThere(back, 1 + Len(in))
  IN  IF ArgumentsAgree(s.log, args) /\ MemoryAgrees(log, out) /\ ~NullArray(c)
      THEN Got(s, c, rest, ret, Over(s.buffer, in), c.len)
      ELSE [s EXCEPT !.running = FALSE]

Replay(s, c) == IF s.running THEN Replayed(s, c) ELSE s
=============================================================================
