------------------------------- MODULE Numbers ------------------------------
(***************************************************************************)
(* lb_atou_64 and lb_utoa_64 of string.c as operators, for words of        *)
(* WordBits bits instead of 64.  A string is the sequence of its digits.   *)
(***************************************************************************)
EXTENDS Memory

CONSTANT WordBits

ASSUME WordAssumption == WordBits \in Nat /\ WordBits >= 4

Word == 2 ^ WordBits

(* Mutant: checks the product by eight only.                               *)
BugNoWrap(x8, x10i) == TRUE
NoWrap(x8, x10i) == x10i >= x8

(* lb_atou_64: the number, and whether each LB_ASSURE held.                *)
Parse(digits) ==
  LET step(s, inc) ==
        LET x8   == (s.val * 8) % Word
            x10i == (x8 + s.val * 2 + inc) % Word
        IN  [val |-> x10i, ok |-> s.ok /\ x8 \div 8 = s.val /\ NoWrap(x8, x10i)]
  IN  FoldLeft(step, [val |-> 0, ok |-> digits # <<>>], digits)

(* lb_utoa_64_sz: how many times val is divided by ten.                    *)
PrintedLength(val) == IF val = 0 THEN 1 ELSE CHOOSE n \in 1..WordBits :
                        10 ^ (n - 1) <= val /\ val < 10 ^ n

(* lb_utoa_64: digits from the lowest up, then reversed.                   *)
Printed(val) ==
  StrNRev([n \in 1..PrintedLength(val) |-> (val \div 10 ^ (n - 1)) % 10])
=============================================================================
