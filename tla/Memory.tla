------------------------------- MODULE Memory -------------------------------
(***************************************************************************)
(* The searches of sysdeps.c, string.c and misc.c over memory.  A buffer   *)
(* is a sequence of cells, a position in it counts from 1, and 0 is NULL.  *)
(* A string ends with its one cell NUL.  Comparing is a string instruction *)
(* that stops at the first difference, so that it may be asked for more    *)
(* than there is; what it would read of the memory behind is part of its   *)
(* result (inside).                                                        *)
(***************************************************************************)
EXTENDS Integers, SequencesExt

NUL == 0

(* The cell "=", between the name and the value of a variable.             *)
EqualSign == 3

(* repz cmpsb *)
Cmpsb(a, b, len) ==
  LET there  == Min({len, Len(a), Len(b)})
      differ == {i \in 1..there : a[i] # b[i]}
  IN  IF differ = {} THEN [unread |-> 0, zf |-> TRUE, inside |-> there = len]
      ELSE [unread |-> len - Min(differ), zf |-> FALSE, inside |-> TRUE]

(* lb_memcmp: whether they are equal.                                      *)
MemCmp(a, b, len) ==
  IF len = 0 THEN [equal |-> TRUE, inside |-> TRUE]
  ELSE \* r is bound once: the instruction's result
       CHOOSE x \in {[equal |-> r.unread = 0 /\ r.zf, inside |-> r.inside] :
                       r \in {Cmpsb(a, b, len)}} : TRUE

(* Mutant: what is left unread is not looked at beside the flag.           *)
BugFoundAt(len, unread, zf) == IF unread > 0 THEN len - unread ELSE 0

(* Where repnz scasb stopped, if it found the value there.                 *)
FoundAt(len, unread, zf) == IF unread > 0 \/ zf THEN len - unread ELSE 0

(* lb_memchr in the cells from a position on.                              *)
MemChr(buf, val, from) ==
  LET len    == Len(buf) - from + 1
      equal  == {i \in 1..len : buf[from + i - 1] = val}
      unread == IF equal = {} THEN 0 ELSE len - Min(equal)
      found  == IF len = 0 THEN 0 ELSE FoundAt(len, unread, equal # {})
  IN  IF found = 0 THEN 0 ELSE from + found - 1

(* lb_memmem from a position of buf on.                                    *)
RECURSIVE MemMem(_, _, _)
MemMem(buf, ndl, from) ==
  IF ndl = <<>> THEN [found |-> from, inside |-> TRUE]
  ELSE LET fst  == IF from > Len(buf) THEN 0 ELSE MemChr(buf, ndl[1], from)
           rest == SubSeq(buf, fst, Len(buf))
       IN  IF fst = 0 \/ Len(rest) < Len(ndl) THEN [found |-> 0, inside |-> TRUE]
           ELSE LET here == MemCmp(rest, ndl, Len(ndl))
                IN  IF here.equal \/ ~here.inside
                    THEN [found |-> fst, inside |-> here.inside]
                    ELSE MemMem(buf, ndl, fst + 1)

(* lb_strlen *)
StrLen(str) == Min({i \in 1..Len(str) : str[i] = NUL}) - 1

(* lb_strcmp: whether they are equal.                                      *)
StrCmp(a, b) == StrLen(a) = StrLen(b) /\ MemCmp(a, b, StrLen(a)).equal

(* lb_strnrev: the cells at both ends change places, up to the middle.     *)
StrNRev(str) ==
  FoldLeft(LAMBDA s, i : [s EXCEPT ![i] = s[Len(s) + 1 - i], ![Len(s) + 1 - i] = s[i]],
           str, [i \in 1..(Len(str) \div 2) |-> i])

(* lb_misc_strdupmem and lb_misc_strdup, lb_misc_strdup_append, and how    *)
(* much lb_misc_strdup_free gives back: the block has just these cells.    *)
StrDupMem(mem) == Append(mem, NUL)
StrDupAppend(str, app) == SubSeq(str, 1, StrLen(str)) \o app
FreedSize(str) == StrLen(str) + 1

(* lb_misc_getenv: the value of the first variable of that name.           *)
Getenv(envp, key) ==
  LET len  == StrLen(key)
      same == {n \in 1..Len(envp) : /\ MemCmp(envp[n], key, len).equal
                                    /\ envp[n][len + 1] = EqualSign}
  IN  IF same = {} THEN <<>>
      ELSE SubSeq(envp[Min(same)], len + 2, Len(envp[Min(same)]))
=============================================================================
