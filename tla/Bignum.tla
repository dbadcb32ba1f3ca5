------------------------------- MODULE Bignum -------------------------------
(***************************************************************************)
(* bignum.c as operators.  A number is its array of digits, the lowest     *)
(* first, of a fixed length; an operation that changes acc gives the new   *)
(* digits and whether each LB_ASSURE on the way held (ok).                 *)
(*                                                                         *)
(* A digit has DigitBits bits, as LB_BIGNUM_DIGIT_T leaves open.  The      *)
(* sizes in lb_bignum_barrett need digits of three bits or more, which is  *)
(* what makes k+3 bits one digit more than k.                              *)
(***************************************************************************)
EXTENDS Integers, SequencesExt

CONSTANTS DigitBits,
          NibbleBits  \* what a hex digit stands for: 4 in the library

ASSUME DigitAssumption == DigitBits \in Nat /\ DigitBits >= 3
ASSUME NibbleAssumption == NibbleBits \in 1..DigitBits /\ DigitBits % NibbleBits = 0

Base == 2 ^ DigitBits

(* lbi_bignum_digits *)
Digits(bits) == (bits + DigitBits - 1) \div DigitBits

(* The natural number that the digits stand for, and back: the reference.  *)
Value(n) == FoldRight(LAMBDA d, v : d + Base * v, n, 0)
Number(v, len) == [i \in 1..len |-> (v \div Base ^ (i - 1)) % Base]

Zero(len) == [i \in 1..len |-> 0]

(* lb_bignum_is_zero *)
IsZero(n) == \A i \in 1..Len(n) : n[i] = 0

(* lb_bignum_logical_get_bit and _set_bit; the lowest bit is 0.            *)
GetBit(n, index) == (n[(index \div DigitBits) + 1] \div 2 ^ (index % DigitBits)) % 2 = 1

SetBit(n, index) ==
  IF GetBit(n, index) THEN n
  ELSE [n EXCEPT ![(index \div DigitBits) + 1] = @ + 2 ^ (index % DigitBits)]

(* lb_bignum_top_bit: the last that is set; -1UL if none is.               *)
TopBit(n) ==
  FoldLeft(LAMBDA best, i : IF GetBit(n, i - 1) THEN i - 1 ELSE best, -1,
           [i \in 1..(DigitBits * Len(n)) |-> i])

Nibbles == DigitBits \div NibbleBits

(* lb_bignum_load: len digits from their hex digits, the highest first.    *)
Load(hex, len) ==
  [i \in 1..len |->
     FoldLeft(LAMBDA x, nibble : x * 2 ^ NibbleBits + nibble, 0,
              SubSeq(hex, (len - i) * Nibbles + 1, (len - i + 1) * Nibbles))]

(* lb_bignum_save: within a digit, the lowest bits go to the last place.   *)
Save(n) ==
  FoldRight(LAMBDA x, hex : hex \o [j \in 1..Nibbles |->
              (x \div 2 ^ (NibbleBits * (Nibbles - j))) % 2 ^ NibbleBits], n, <<>>)

(* lb_bignum_mov_trunc to an acc of that length.                           *)
MovTrunc(len, val) == [i \in 1..len |-> IF i <= Len(val) THEN val[i] ELSE 0]

(* __builtin_add_overflow and __builtin_sub_overflow on digits.            *)
AddDigits == [a, b \in 0..(Base - 1) |-> <<(a + b) % Base, a + b >= Base>>]
SubDigits == [a, b \in 0..(Base - 1) |-> <<(a - b) % Base, a < b>>]

(* Mutant: the carry of the first of the two steps is forgotten.           *)
BugCarryOut(first, second) == second

(* The carry out of a digit: at most one of its two steps overflows.       *)
CarryOut(first, second) == first \/ second

(* LBI_BIGNUM_ITERATION over all of acc; digits of val beyond its end do   *)
(* not count.  Leaving when the carry is gone changes nothing.             *)
Iterate(op, acc, val) ==
  LET step(s, i) ==
        LET carried == IF s.over THEN op[acc[i], 1] ELSE <<acc[i], FALSE>>
            result  == op[carried[1], IF i <= Len(val) THEN val[i] ELSE 0]
        IN  [arr  |-> Append(s.arr, result[1]),
             over |-> CarryOut(carried[2], result[2]),
             ok   |-> s.ok /\ ~(carried[2] /\ result[2])]
      all == FoldLeft(step, [arr |-> <<>>, over |-> FALSE, ok |-> TRUE],
                      [i \in 1..Len(acc) |-> i])
  IN  [arr |-> all.arr, ok |-> all.ok /\ ~all.over]

Add(acc, val) == Iterate(AddDigits, acc, val)
Sub(acc, val) == Iterate(SubDigits, acc, val)

(* lb_bignum_compare_signum: the highest digit that differs decides, and   *)
(* the shorter number has zeros there.                                     *)
Compare(a, b) ==
  LET at(n, i) == IF i <= Len(n) THEN n[i] ELSE 0
      differ == {i \in 1..Max({Len(a), Len(b)}) : at(a, i) # at(b, i)}
  IN  IF differ = {} THEN 0
      ELSE IF at(a, Max(differ)) > at(b, Max(differ)) THEN 1 ELSE -1

(* Mutant: the overflow of the addition is not carried on.                 *)
BugNextCarry(product, carry) == product \div Base
NextCarry(product, carry) ==
  (product \div Base) + (IF (product % Base) + carry >= Base THEN 1 ELSE 0)

(* lbi_bignum_mul_dgt *)
MulDigit(acc, dgt) ==
  LET step(s, a) ==
        [arr   |-> Append(s.arr, (((a * dgt) % Base) + s.carry) % Base),
         carry |-> NextCarry(a * dgt, s.carry)]
      all == FoldLeft(step, [arr |-> <<>>, carry |-> 0], acc)
  IN  [arr |-> all.arr, ok |-> all.carry = 0]

(* lb_bignum_mul with a temporary of len digits.  mul_lvl recurses to the  *)
(* highest digit of byx first; at the digit i, acc and the temporary are   *)
(* without their lowest i - 1 digits.                                      *)
Mul(acc, val, byx, len) ==
  LET level(i, s) ==
        LET addend == MulDigit(MovTrunc(len - i + 1, val), byx[i])
            sum    == Add(SubSeq(s.arr, i, Len(acc)), addend.arr)
        IN  [arr |-> SubSeq(s.arr, 1, i - 1) \o sum.arr,
             ok  |-> s.ok /\ addend.ok /\ sum.ok]
  IN  FoldRight(level, [i \in 1..Len(byx) |-> i],
                [arr |-> acc, ok |-> /\ Len(acc) >= Len(val) + Len(byx)
                                     /\ len >= Len(val) + 1])

(* Whole digits move first: towards the high end, what is moved over the   *)
(* end being lost without notice ...                                       *)
ShlDigits(acc, whole) ==
  [i \in 1..Len(acc) |-> IF i > whole THEN acc[i - whole] ELSE 0]

(* ... then bits, with an assertion that none is lost.                     *)
ShlBits(acc, sham) ==
  LET over(i) == IF i = 0 THEN 0 ELSE acc[i] \div 2 ^ (DigitBits - sham)
  IN  [arr |-> [i \in 1..Len(acc) |-> ((acc[i] * 2 ^ sham) % Base) + over(i - 1)],
       ok  |-> over(Len(acc)) = 0]

(* lb_bignum_shl *)
Shl(acc, sham) ==
  ShlBits(ShlDigits(acc, sham \div DigitBits), sham % DigitBits)

ShrDigits(acc, whole) == MovTrunc(Len(acc), SubSeq(acc, whole + 1, Len(acc)))

(* Mutant: the bits that leave a digit are not put below the next.         *)
BugShrBits(acc, sham) == [i \in 1..Len(acc) |-> acc[i] \div 2 ^ sham]

ShrBits(acc, sham) ==
  LET left(i) == IF i > Len(acc) THEN 0 ELSE acc[i] % 2 ^ sham
  IN  [i \in 1..Len(acc) |->
         (acc[i] \div 2 ^ sham) + left(i + 1) * 2 ^ (DigitBits - sham)]

(* lb_bignum_shr; it reads beyond acc if more digits are shifted than acc  *)
(* has, which nobody does.                                                 *)
Shr(acc, sham) ==
  ShrBits(ShrDigits(acc, sham \div DigitBits), sham % DigitBits)

(* lb_bignum_logical_and with mk, a number of ones: the digits of acc      *)
(* beyond the end of mk are left alone.                                    *)
AndMask(acc, bits, len) ==
  [i \in 1..Len(acc) |->
     IF i > len THEN acc[i]
     ELSE acc[i] % 2 ^ Max({0, Min({DigitBits, bits - DigitBits * (i - 1)})})]

(* while (!(lb_bignum_compare_lt(r1, m))) lb_bignum_sub(r1, m): as long as *)
(* r1 is no shorter than m, no difference in it is negative.               *)
Reduce(r1, m) ==
  [ok |-> r1.ok, arr |-> Number(Value(r1.arr) % Value(m), Len(r1.arr))]

(* Mutant: the quotient is shifted by a digit too little.                  *)
BugQuotient(k, q) == Shr(q, k + k - DigitBits)
Quotient(k, q) == Shr(q, k + k)

(* lb_bignum_barrett_old: x modulo m, both of a multiple of DigitBits, u   *)
(* being 2^(k+k) divided by m.                                             *)
BarrettOld(k, x, m, u) ==
  LET tt == Digits(k + 1 + k + k)
      q1 == Mul(Zero(tt), u, x, tt)
      q2 == Mul(Zero(Digits(k + 1 + k + k + k)), m, Quotient(k, q1.arr), tt)
      r1 == Reduce(Sub(MovTrunc(Digits(k + k), x), q2.arr), m)
  IN  [arr |-> MovTrunc(Digits(k), r1.arr), ok |-> q1.ok /\ q2.ok /\ r1.ok]

(* The first half of lb_bignum_barrett: r2, the estimate of the quotient   *)
(* times m, with mk applied.                                               *)
Estimate(k, x, m, u) ==
  LET tt == Digits(k + k + 2 * DigitBits)
      q3 == Mul(Zero(tt), MovTrunc(Digits(k + 1), Shr(x, k)), u, tt)
      r2 == Mul(Zero(tt), MovTrunc(Digits(k + 1), Shr(q3.arr, k)), m, tt)
  IN  [arr |-> AndMask(r2.arr, k + 2, Digits(k + 3)), ok |-> q3.ok /\ r2.ok]

(* The second half, with the digits that r has when it is called.          *)
Barrett(k, m, r2, r) ==
  LET pw == SetBit(Zero(Digits(k + 3)), k + 2)
      r1 == AndMask(MovTrunc(Digits(k + 2), r), k + 2, Digits(k + 3))
      r3 == IF Compare(r1, r2.arr) > 0 THEN [arr |-> r1, ok |-> TRUE] ELSE Add(r1, pw)
      r4 == Reduce(Sub(r3.arr, r2.arr), m)
  IN  [arr |-> MovTrunc(Digits(k), r4.arr), ok |-> r2.ok /\ r3.ok /\ r4.ok]
=============================================================================
