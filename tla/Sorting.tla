------------------------------ MODULE Sorting -------------------------------
(***************************************************************************)
(* lb_misc_qsort and lb_misc_bsearch of misc.c as operators on a sequence  *)
(* of elements, given the key of each; cmp compares keys.  A range goes    *)
(* from A up to, and not including, Z.                                     *)
(***************************************************************************)
EXTENDS Naturals, SequencesExt

Exchange(s, i, j) == [s EXCEPT ![i] = s[j], ![j] = s[i]]

(* One pass of the loop: the pivot, first of the range, stays there while  *)
(* the < part grows behind it up to S, and then goes to its end, R.        *)
Partition(arr, A, Z, key) ==
  LET step(p, i) ==
        IF key[p.arr[i]] < key[arr[A]]
        THEN [arr |-> Exchange(p.arr, i, p.S), S |-> p.S + 1]
        ELSE p
      parts == FoldLeft(step, [arr |-> arr, S |-> A + 1],
                        [n \in 1..(Z - A - 1) |-> A + n])
  IN  [arr |-> Exchange(parts.arr, A, parts.S - 1), R |-> parts.S - 1]

LeftFirst(A, R, S, Z) == R - A < Z - S

(* Mutant: leaves out the first element of the >= part.                    *)
BugRest(R) == R + 2
Rest(R) == R + 1

(* lbi_misc_qsort: the array, and how many calls were active at the same   *)
(* time.  One part is sorted by a recursive call and the other by the next *)
(* turn of the loop, in the same call.                                     *)
RECURSIVE QSort(_, _, _, _)
QSort(arr, A, Z, key) ==
  IF Z - A <= 1 THEN [arr |-> arr, depth |-> 1]
  ELSE LET p     == Partition(arr, A, Z, key)
           S     == Rest(p.R)
           left  == LeftFirst(A, p.R, S, Z)
           inner == IF left THEN QSort(p.arr, A, p.R, key) ELSE QSort(p.arr, S, Z, key)
           turn  == IF left THEN QSort(inner.arr, S, Z, key)
                            ELSE QSort(inner.arr, A, p.R, key)
       IN  [arr |-> turn.arr, depth |-> Max({1 + inner.depth, turn.depth})]

(* lbi_misc_bsearch_linear: an element of key K, or 0 for NULL.            *)
LinearSearch(arr, A, Z, K, key) ==
  LET rest == {i \in A..(Z - 1) : key[arr[i]] >= K}
  IN  IF rest = {} \/ key[arr[Min(rest)]] > K THEN 0 ELSE arr[Min(rest)]

(* Mutant: the middle is left out when it is not less than K.              *)
BugUpTo(M) == M
UpTo(M) == M + 1

(* lbi_misc_bsearch *)
RECURSIVE BSearch(_, _, _, _, _)
BSearch(arr, A, Z, K, key) ==
  IF Z - A <= 3 THEN LinearSearch(arr, A, Z, K, key)
  ELSE LET M == A + (Z - A) \div 2
       IN  IF key[arr[M]] < K
           THEN BSearch(arr, M + 1, Z, K, key)
           ELSE BSearch(arr, A, UpTo(M), K, key)
=============================================================================
