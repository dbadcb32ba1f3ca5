--------------------------------- MODULE Io ---------------------------------
(***************************************************************************)
(* io.c: a thread that accepts a connection and reads, and a thread at the *)
(* other end that writes, all in blocking calls over a descriptor that     *)
(* does not block, and the conversions to network byte order of sysdeps.c. *)
(*                                                                         *)
(* The kernel's answers to a thread are a script: how much it moves at     *)
(* most, -EAGAIN, or another error.  When the script is over, it moves all *)
(* that is asked for.  A thread's connection is that script, the octets on *)
(* the wire, how often the thread waited in epoll, and whether it lives.   *)
(* An octet has OctetBits bits and a register WordOctets octets, where the *)
(* machine has 8 and 8.  Memory has the lowest octet of a number first.    *)
(***************************************************************************)
EXTENDS Integers, SequencesExt

CONSTANTS OctetBits, WordOctets

EAGAIN == 11
EBADF == 9

(* LBI_IO_TRYAGAIN *)
TryAgain(retv) == retv = -EAGAIN

(* The kernel's answer, of at most len octets.                             *)
KernelAnswer(script, len) ==
  IF script = <<>> THEN len ELSE Min({Head(script), len})

NextAnswers(script) == IF script = <<>> THEN <<>> ELSE Tail(script)

Waits(c) == [c EXCEPT !.waits = @ + 1]

(* lb_switch_destruct_thread(th, th), which does not return.               *)
Dies(c) == [c EXCEPT !.live = FALSE]

(* lb_io_read of len octets, which are to be there unless the wire is at   *)
(* its end: the connection and how many octets there are.                  *)
RECURSIVE IoRead(_, _)
IoRead(c, len) ==
  LET retv == KernelAnswer(c.script, Min({len, Len(c.wire)}))
      next == [c EXCEPT !.script = NextAnswers(@)]
  IN  IF TryAgain(retv) THEN IoRead(Waits(next), len)
      ELSE IF retv <= 0 THEN [conn |-> Dies(next), octets |-> <<>>]
      ELSE [conn |-> [next EXCEPT !.wire = SubSeq(@, retv + 1, Len(@))],
            octets |-> SubSeq(c.wire, 1, retv)]

(* lb_io_write of some octets: the connection, and how many it took.       *)
RECURSIVE IoWrite(_, _)
IoWrite(c, octets) ==
  LET retv == KernelAnswer(c.script, Len(octets))
      next == [c EXCEPT !.script = NextAnswers(@)]
  IN  IF TryAgain(retv) THEN IoWrite(Waits(next), octets)
      ELSE IF retv <= 0 THEN [conn |-> Dies(next), amt |-> 0]
      ELSE [conn |-> [next EXCEPT !.wire = @ \o SubSeq(octets, 1, retv)], amt |-> retv]

(* lb_io_accept: a descriptor, of which 0 is one.                          *)
RECURSIVE IoAccept(_)
IoAccept(c) ==
  LET retv == IF c.script = <<>> THEN 1 ELSE Head(c.script)
      next == [c EXCEPT !.script = NextAnswers(@)]
  IN  IF TryAgain(retv) THEN IoAccept(Waits(next))
      ELSE IF retv < 0 THEN Dies(next) ELSE next

(* Mutant: the rest begins where it began before.                          *)
BugBehind(octets, amt) == SubSeq(octets, 1, Len(octets) - amt)

(* buf += amt, len -= amt                                                  *)
Behind(octets, amt) == SubSeq(octets, amt + 1, Len(octets))

(* lb_io_write_fully *)
RECURSIVE WriteFully(_, _)
WriteFully(c, octets) ==
  IF octets = <<>> \/ ~c.live THEN c
  ELSE LET w == IoWrite(c, octets) IN WriteFully(w.conn, Behind(octets, w.amt))

(* lb_io_read_fully, with what is there already.                           *)
RECURSIVE ReadFully(_, _, _)
ReadFully(c, len, got) ==
  IF len = 0 \/ ~c.live THEN [conn |-> c, octets |-> got]
  ELSE LET r == IoRead(c, len)
       IN  ReadFully(r.conn, len - Len(r.octets), got \o r.octets)

(* A number in memory, and back.                                           *)
InMemory(v, octets) == [i \in 1..octets |-> (v \div 2 ^ (OctetBits * (i - 1))) % 2 ^ OctetBits]
OfMemory(octets) == FoldRight(LAMBDA o, v : o + 2 ^ OctetBits * v, octets, 0)

(* lb_bswap: the octets of a register in reverse.                          *)
BSwap(v) == OfMemory(Reverse(InMemory(v, WordOctets)))

(* lb_bswap_16, _32 and _64: the number is moved to the high end first.    *)
BSwapOf(v, octets) ==
  BSwap(v * 2 ^ (OctetBits * (WordOctets - octets))) % 2 ^ (OctetBits * octets)

(* lb_io_nbo_write_b, _s, _l and _q.                                       *)
NboWrite(c, v, octets) ==
  WriteFully(c, InMemory(IF octets = 1 THEN v ELSE BSwapOf(v, octets), octets))

(* lb_io_nbo_read_b, _s, _l and _q.                                        *)
NboRead(c, octets) ==
  LET r == ReadFully(c, octets, <<>>)
      v == OfMemory(r.octets)
  IN  [conn |-> r.conn, val |-> IF octets = 1 THEN v ELSE BSwapOf(v, octets)]
=============================================================================
