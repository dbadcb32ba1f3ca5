------------------------------- MODULE Printer ------------------------------
(***************************************************************************)
(* printer.c: a text is measured, a buffer of that length and one is made  *)
(* on the stack, the text is printed into it, and written to a descriptor. *)
(* A format is the sequence of its items: a space, which only separates, a *)
(* string (NULL or characters), memory in hex, or a number.  The digits    *)
(* are the characters 0..15, NUL is Nul.                                   *)
(***************************************************************************)
EXTENDS Numbers

Nul == -1
NoString == <<Nul>>                       \* str == NULL
NullText == <<20, 21, 22, 23, 23, 24>>    \* "(null)"

(* Mutant: a byte is measured as one character.                            *)
BugHexLength(bytes) == Len(bytes)
HexLength(bytes) == 2 * Len(bytes)

(* lbi_print_s with no buffer: what an item adds to its length.            *)
Measure(item) ==
  CASE item.what = "space"  -> 0
    [] item.what = "string" -> IF item.arg = NoString THEN 6 ELSE Len(item.arg)
    [] item.what = "memory" -> HexLength(item.arg)
    [] item.what = "number" -> PrintedLength(item.arg)

Measured(format) == FoldLeft(LAMBDA len, item : len + Measure(item), 0, format)

(* lbi_print_s with a buffer: what an item puts there.                     *)
PrintItem(item) ==
  CASE item.what = "space"  -> <<>>
    [] item.what = "string" -> IF item.arg = NoString THEN NullText ELSE item.arg
    [] item.what = "memory" -> [n \in 1..(2 * Len(item.arg)) |->
                                  IF n % 2 = 1 THEN item.arg[(n + 1) \div 2] \div 16
                                  ELSE item.arg[n \div 2] % 16]
    [] item.what = "number" -> Printed(item.arg)

PrintS(format) ==
  Append(FoldLeft(LAMBDA text, item : text \o PrintItem(item), <<>>, format), Nul)

(* lbi_print_fd: what the descriptor takes of len characters of a buffer,  *)
(* and whether the program goes on.  The answers are write(2)'s, how much  *)
(* it takes at most or an error; after the last, it takes all.             *)
RECURSIVE PrintFd(_, _, _)
PrintFd(text, len, answers) ==
  IF len = 0 THEN [shown |-> <<>>, alive |-> TRUE]
  ELSE LET amt  == IF answers = <<>> THEN len ELSE Min({Head(answers), len})
           rest == PrintFd(SubSeq(text, amt + 1, Len(text)), len - amt,
                           IF answers = <<>> THEN <<>> ELSE Tail(answers))
       IN  IF amt <= 0 THEN [shown |-> <<>>, alive |-> FALSE]
           ELSE [shown |-> SubSeq(text, 1, amt) \o rest.shown, alive |-> rest.alive]

(* lb_print_fd *)
PrintTo(format, answers) == PrintFd(PrintS(format), Measured(format), answers)
=============================================================================
