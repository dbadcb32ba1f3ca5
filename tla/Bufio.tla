-------------------------------- MODULE Bufio -------------------------------
(***************************************************************************)
(* bufio.c: reading from a file through a buffer.  A buffer is the bytes   *)
(* between cur and end, and whether the end of the file was met.  A file   *)
(* is the bytes still to come and the largest amounts that the next reads  *)
(* of it give, by which reads are short.                                   *)
(***************************************************************************)
EXTENDS Integers, SequencesExt

(* lb_bufio_create *)
Fresh == [bytes |-> <<>>, eof |-> FALSE]

(* read(2) into a buffer of that size: nothing at the end of the file, and *)
(* some bytes before it.                                                   *)
ReadAmount(file, size) ==
  Min({size, Len(file.bytes)} \cup (IF file.amounts = <<>> THEN {} ELSE {Head(file.amounts)}))

AfterRead(file, size) ==
  [bytes   |-> SubSeq(file.bytes, ReadAmount(file, size) + 1, Len(file.bytes)),
   amounts |-> IF file.amounts = <<>> THEN <<>> ELSE Tail(file.amounts)]

(* Mutant: a short read is taken for the end of the file.                  *)
BugRefill(file, size) ==
  [bytes |-> SubSeq(file.bytes, 1, ReadAmount(file, size)),
   eof   |-> ReadAmount(file, size) < size]

Refill(file, size) ==
  [bytes |-> SubSeq(file.bytes, 1, ReadAmount(file, size)),
   eof   |-> ReadAmount(file, size) = 0]

(* lb_bufio_read of len bytes, of which got are there.                     *)
RECURSIVE BufRead(_, _, _, _, _)
BufRead(bu, file, size, len, got) ==
  LET amt  == Min({Len(bu.bytes), len - Len(got)})
      have == got \o SubSeq(bu.bytes, 1, amt)
  IN  IF bu.eof \/ Len(have) = len
      THEN [bu   |-> [bu EXCEPT !.bytes = SubSeq(@, amt + 1, Len(@))],
            file |-> file, got |-> have]
      ELSE BufRead(Refill(file, size), AfterRead(file, size), size, len, have)
=============================================================================
