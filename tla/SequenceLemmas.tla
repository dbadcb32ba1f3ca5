--------------------------- MODULE SequenceLemmas ---------------------------
(***************************************************************************)
(* Facts about sequences used as stacks and queues: what pushing, popping  *)
(* and appending do to the elements and to their being distinct; and about *)
(* division with remainder, for positions in groups and in pages.          *)
(***************************************************************************)
EXTENDS Naturals, Sequences, Functions, Filters, SequenceTheorems, WellFoundedInduction, TLAPS

LEMMA PushFront ==
  ASSUME NEW R, NEW s \in Seq(R), NEW e \in R
  PROVE  /\ <<e>> \o s \in Seq(R)
         /\ <<e>> \o s # <<>>
         /\ DOMAIN (<<e>> \o s) = 1..(Len(s) + 1)
         /\ (<<e>> \o s)[1] = e
         /\ \A k \in 1..Len(s) : (<<e>> \o s)[k + 1] = s[k]
         /\ \A k \in 2..(Len(s) + 1) : (<<e>> \o s)[k] = s[k - 1]
<1>1. <<e>> \in Seq(R) /\ Len(<<e>>) = 1 /\ <<e>>[1] = e
  OBVIOUS
<1>2. Len(s) \in Nat
  BY LenProperties
<1>. QED
  BY <1>1, <1>2, ConcatProperties, LenProperties

LEMMA PopFront ==
  ASSUME NEW R, NEW s \in Seq(R), s # <<>>
  PROVE  /\ Tail(s) \in Seq(R)
         /\ Head(s) \in R
         /\ Head(s) = s[1]
         /\ Len(s) \in Nat \ {0}
         /\ DOMAIN s = 1..Len(s)
         /\ DOMAIN Tail(s) = 1..(Len(s) - 1)
         /\ \A k \in 1..(Len(s) - 1) : Tail(s)[k] = s[k + 1]
BY HeadTailProperties, LenProperties, EmptySeq

LEMMA PushRange ==
  ASSUME NEW R, NEW s \in Seq(R), NEW e \in R
  PROVE  /\ Range(<<e>> \o s) = {e} \cup Range(s)
         /\ IsInjective(s) /\ e \notin Range(s) => IsInjective(<<e>> \o s)
<1>. DEFINE p == <<e>> \o s
<1>0. Len(s) \in Nat /\ DOMAIN s = 1..Len(s)
  BY LenProperties
<1>1. /\ DOMAIN p = 1..(Len(s) + 1)
      /\ p[1] = e
      /\ \A k \in 1..Len(s) : p[k + 1] = s[k]
      /\ \A k \in 2..(Len(s) + 1) : p[k] = s[k - 1]
  BY PushFront
<1>. HIDE DEF p
<1>2. Range(p) = {e} \cup Range(s)
  BY <1>0, <1>1 DEF Range
<1>3. ASSUME IsInjective(s), e \notin Range(s) PROVE IsInjective(p)
  <2>. SUFFICES ASSUME NEW a \in DOMAIN p, NEW b \in DOMAIN p, p[a] = p[b]
                PROVE  a = b
    BY DEF IsInjective
  <2>1. \A k \in 2..(Len(s) + 1) : p[k] \in Range(s) /\ k - 1 \in DOMAIN s
    BY <1>0, <1>1 DEF Range
  <2>2. CASE a = 1 \/ b = 1
    BY <2>1, <2>2, <1>0, <1>1, <1>3
  <2>3. CASE a # 1 /\ b # 1
    <3>1. a \in 2..(Len(s) + 1) /\ b \in 2..(Len(s) + 1)
      BY <2>3, <1>0, <1>1
    <3>2. s[a - 1] = s[b - 1] /\ a - 1 \in DOMAIN s /\ b - 1 \in DOMAIN s
      BY <2>1, <3>1, <1>1
    <3>3. a - 1 = b - 1
      BY <3>2, <1>3 DEF IsInjective
    <3>. QED
      BY <3>1, <3>3, <1>0
  <2>. QED
    BY <2>2, <2>3
<1>. QED
  BY <1>2, <1>3 DEF p

LEMMA PopRange ==
  ASSUME NEW R, NEW s \in Seq(R), s # <<>>
  PROVE  /\ Range(s) = {Head(s)} \cup Range(Tail(s))
         /\ IsInjective(s) => IsInjective(Tail(s)) /\ Head(s) \notin Range(Tail(s))
<1>. DEFINE q == Tail(s)
<1>1. /\ Head(s) = s[1]
      /\ Len(s) \in Nat \ {0}
      /\ DOMAIN s = 1..Len(s)
      /\ DOMAIN q = 1..(Len(s) - 1)
      /\ \A k \in 1..(Len(s) - 1) : q[k] = s[k + 1]
  BY PopFront
<1>. HIDE DEF q
<1>2. \A k \in 2..Len(s) : k - 1 \in DOMAIN q /\ q[k - 1] = s[k]
  BY <1>1
<1>3. Range(s) = {Head(s)} \cup Range(q)
  <2>0. \A k \in 2..Len(s) : s[k] \in Range(q)
    BY <1>2 DEF Range
  <2>1. \A k \in DOMAIN s : s[k] \in {Head(s)} \cup Range(q)
    BY <1>1, <2>0
  <2>2. \A k \in DOMAIN q : q[k] \in Range(s)
    BY <1>1 DEF Range
  <2>3. Head(s) \in Range(s)
    BY <1>1 DEF Range
  <2>. QED
    BY <2>1, <2>2, <2>3 DEF Range
<1>4. ASSUME IsInjective(s) PROVE IsInjective(q) /\ Head(s) \notin Range(q)
  <2>1. IsInjective(q)
    BY <1>1, <1>4 DEF IsInjective
  <2>2. Head(s) \notin Range(q)
    BY <1>1, <1>4 DEF IsInjective, Range
  <2>. QED
    BY <2>1, <2>2
<1>. QED
  BY <1>3, <1>4 DEF q

LEMMA AppendRange ==
  ASSUME NEW R, NEW s \in Seq(R), NEW e \in R
  PROVE  /\ Append(s, e) \in Seq(R)
         /\ Append(s, e) # <<>>
         /\ Len(Append(s, e)) = Len(s) + 1
         /\ Range(Append(s, e)) = Range(s) \cup {e}
         /\ IsInjective(s) /\ e \notin Range(s) => IsInjective(Append(s, e))
<1>. DEFINE p == Append(s, e)
<1>1. /\ Len(s) \in Nat /\ DOMAIN s = 1..Len(s)
      /\ p \in Seq(R) /\ Len(p) = Len(s) + 1 /\ DOMAIN p = 1..(Len(s) + 1)
      /\ \A k \in 1..Len(s) : p[k] = s[k]
      /\ p[Len(s) + 1] = e
  BY LenProperties, AppendProperties
<1>. HIDE DEF p
<1>2. Range(p) = Range(s) \cup {e}
  BY <1>1 DEF Range
<1>4. p # <<>>
  BY <1>1, LenProperties, EmptySeq
<1>3. ASSUME IsInjective(s), e \notin Range(s) PROVE IsInjective(p)
  <2>. SUFFICES ASSUME NEW a \in DOMAIN p, NEW b \in DOMAIN p, p[a] = p[b]
                PROVE  a = b
    BY DEF IsInjective
  <2>1. \A k \in 1..Len(s) : p[k] \in Range(s) /\ k \in DOMAIN s
    BY <1>1 DEF Range
  <2>2. CASE a = Len(s) + 1 \/ b = Len(s) + 1
    BY <1>1, <1>3, <2>1, <2>2
  <2>3. CASE a \in 1..Len(s) /\ b \in 1..Len(s)
    BY <1>1, <1>3, <2>1, <2>3 DEF IsInjective
  <2>. QED
    BY <1>1, <2>2, <2>3
<1>. QED
  BY <1>1, <1>2, <1>3, <1>4 DEF p

LEMMA PopBack ==
  ASSUME NEW R, NEW s \in Seq(R), s # <<>>
  PROVE  LET q == SubSeq(s, 1, Len(s) - 1)
         IN  /\ q \in Seq(R)
             /\ Len(s) \in Nat \ {0} /\ Len(q) = Len(s) - 1
             /\ s[Len(s)] \in R
             /\ \A k \in 1..(Len(s) - 1) : q[k] = s[k]
             /\ Range(s) = Range(q) \cup {s[Len(s)]}
             /\ IsInjective(s) => IsInjective(q) /\ s[Len(s)] \notin Range(q)
<1>. DEFINE n == Len(s)
            q == SubSeq(s, 1, n - 1)
<1>1. n \in Nat \ {0} /\ DOMAIN s = 1..n /\ s[n] \in R
  BY LenProperties, EmptySeq, ElementOfSeq
<1>2. /\ q \in Seq(R) /\ Len(q) = n - 1 /\ DOMAIN q = 1..(n - 1)
      /\ \A k \in 1..(n - 1) : q[k] = s[k]
  BY <1>1, SubSeqProperties, LenProperties
<1>. HIDE DEF q
<1>3. Range(s) = Range(q) \cup {s[n]}
  BY <1>1, <1>2 DEF Range
<1>4. ASSUME IsInjective(s) PROVE IsInjective(q) /\ s[n] \notin Range(q)
  <2>1. IsInjective(q)
    BY <1>1, <1>2, <1>4 DEF IsInjective
  <2>2. s[n] \notin Range(q)
    BY <1>1, <1>2, <1>4 DEF IsInjective, Range
  <2>. QED
    BY <2>1, <2>2
<1>. QED
  BY <1>1, <1>2, <1>3, <1>4 DEF q

(* What a concatenation holds, distinct if its parts are and are disjoint. *)
LEMMA ConcatRange ==
  ASSUME NEW R, NEW s \in Seq(R), NEW z \in Seq(R)
  PROVE  /\ s \o z \in Seq(R)
         /\ Range(s \o z) = Range(s) \cup Range(z)
         /\ IsInjective(s) /\ IsInjective(z) /\ Range(s) \cap Range(z) = {} =>
              IsInjective(s \o z)
<1>. DEFINE p == s \o z
            m == Len(s)
            n == Len(z)
<1>1. /\ m \in Nat /\ n \in Nat /\ DOMAIN s = 1..m /\ DOMAIN z = 1..n
  BY LenProperties
<1>2. p \in Seq(R) /\ Len(p) = m + n /\ DOMAIN p = 1..(m + n)
  BY <1>1, ConcatProperties, LenProperties
<1>3. /\ \A i \in 1..m : p[i] = s[i]
      /\ \A i \in 1..n : p[m + i] = z[i]
  BY <1>1
<1>. HIDE DEF p, m, n
<1>4. \A i \in 1..(m + n) :
        \/ i \in 1..m /\ p[i] = s[i]
        \/ i - m \in 1..n /\ p[i] = z[i - m]
  <2>. TAKE i \in 1..(m + n)
  <2>1. CASE i <= m
    BY <1>1, <1>3, <2>1
  <2>2. CASE ~ (i <= m)
    <3>1. i - m \in 1..n /\ m + (i - m) = i
      BY <1>1, <2>2
    <3>. QED
      BY <1>3, <3>1
  <2>. QED
    BY <2>1, <2>2
<1>5. Range(p) = Range(s) \cup Range(z)
  <2>1. Range(p) \subseteq Range(s) \cup Range(z)
    BY <1>1, <1>2, <1>4 DEF Range
  <2>2. \A i \in 1..m : i \in 1..(m + n)
    BY <1>1
  <2>3. \A i \in 1..n : m + i \in 1..(m + n)
    BY <1>1
  <2>4. Range(s) \subseteq Range(p)
    BY <1>1, <1>2, <1>3, <2>2 DEF Range
  <2>5. Range(z) \subseteq Range(p)
    BY <1>1, <1>2, <1>3, <2>3 DEF Range
  <2>. QED
    BY <2>1, <2>4, <2>5
<1>6. ASSUME IsInjective(s), IsInjective(z), Range(s) \cap Range(z) = {}
      PROVE  IsInjective(p)
  <2>. SUFFICES ASSUME NEW a \in 1..(m + n), NEW b \in 1..(m + n), p[a] = p[b]
                PROVE  a = b
    BY <1>2 DEF IsInjective
  <2>1. CASE a \in 1..m /\ p[a] = s[a] /\ b \in 1..m /\ p[b] = s[b]
    BY <1>1, <1>6, <2>1 DEF IsInjective
  <2>2. CASE a - m \in 1..n /\ p[a] = z[a - m] /\ b - m \in 1..n /\ p[b] = z[b - m]
    <3>1. a - m = b - m
      BY <1>1, <1>6, <2>2 DEF IsInjective
    <3>. QED
      BY <1>1, <3>1
  <2>3. CASE a \in 1..m /\ p[a] = s[a] /\ b - m \in 1..n /\ p[b] = z[b - m]
    BY <1>1, <1>6, <2>3 DEF Range
  <2>4. CASE a - m \in 1..n /\ p[a] = z[a - m] /\ b \in 1..m /\ p[b] = s[b]
    BY <1>1, <1>6, <2>4 DEF Range
  <2>. QED
    BY <1>4, <2>1, <2>2, <2>3, <2>4
<1>. QED
  BY <1>2, <1>5, <1>6 DEF p

(* The same sequence from its end.                                         *)
LEMMA BackwardsRange ==
  ASSUME NEW R, NEW s \in Seq(R)
  PROVE  LET z == [i \in 1..Len(s) |-> s[(Len(s) - i) + 1]]
         IN  /\ z \in Seq(R)
             /\ Range(z) = Range(s)
             /\ IsInjective(s) => IsInjective(z)
<1>. DEFINE n == Len(s)
            z == [i \in 1..n |-> s[(n - i) + 1]]
<1>1. n \in Nat /\ DOMAIN s = 1..n /\ \A i \in 1..n : s[i] \in R
  BY LenProperties, ElementOfSeq
<1>. HIDE DEF n
<1>2. \A i \in 1..n : (n - i) + 1 \in 1..n /\ (n - ((n - i) + 1)) + 1 = i
  BY <1>1
<1>3. z \in Seq(R)
  <2>1. \A i \in 1..n : s[(n - i) + 1] \in R
    BY <1>1, <1>2
  <2>. QED
    BY <1>1, <2>1, IsASeq
<1>4. DOMAIN z = 1..n /\ \A i \in 1..n : z[i] = s[(n - i) + 1]
  OBVIOUS
<1>. HIDE DEF z
<1>5. Range(z) = Range(s)
  <2>1. Range(z) \subseteq Range(s)
    BY <1>1, <1>2, <1>4 DEF Range
  <2>2. \A i \in 1..n : s[i] = z[(n - i) + 1] /\ (n - i) + 1 \in 1..n
    BY <1>2, <1>4
  <2>3. Range(s) \subseteq Range(z)
    BY <1>1, <1>4, <2>2 DEF Range
  <2>. QED
    BY <2>1, <2>3
<1>6. ASSUME IsInjective(s) PROVE IsInjective(z)
  <2>. SUFFICES ASSUME NEW a \in 1..n, NEW b \in 1..n, z[a] = z[b]
                PROVE  a = b
    BY <1>4 DEF IsInjective
  <2>1. (n - a) + 1 = (n - b) + 1
    BY <1>1, <1>2, <1>4, <1>6 DEF IsInjective
  <2>. QED
    BY <1>1, <2>1
<1>. QED
  BY <1>3, <1>5, <1>6 DEF z, n

-----------------------------------------------------------------------------
(* Induction and recursion with sets and functions in place of operators.  *)

LEMMA SetInduction ==
  ASSUME NEW S, 0 \in S, \A n \in Nat : n \in S => n + 1 \in S
  PROVE  Nat \subseteq S
<1>. DEFINE R == OpToRel(<, Nat)
            T == Nat \ S
<1>1. IsWellFoundedOn(R, Nat)
  BY NatLessThanWellFounded
<1>. SUFFICES ASSUME T # {} PROVE FALSE
  OBVIOUS
<1>2. PICK x \in T : \A y \in T : ~ (<<y, x>> \in R)
  <2>. HIDE DEF R, T
  <2>1. T \subseteq Nat
    BY DEF T
  <2>. QED
    BY <1>1, <2>1, WFMin
<1>3. x # 0 /\ x - 1 \in Nat /\ x - 1 < x
  OBVIOUS
<1>4. <<x - 1, x>> \in R
  BY <1>3 DEF OpToRel
<1>5. x - 1 \in S
  BY <1>2, <1>3, <1>4
<1>. QED
  BY <1>3, <1>5

(* A value computed in n steps, each from the one before, exists.          *)
Computable(n, T, base, step) ==
  \E f \in [0..n -> T] :
    f[0] = base /\ \A i \in 1..n : f[i] = step[<<i, f[i - 1]>>]

LEMMA Recursion ==
  ASSUME NEW n \in Nat, NEW T, NEW base \in T, NEW step \in [(1..n) \X T -> T]
  PROVE  Computable(n, T, base, step)
<1>. DEFINE Upto(m, f) == f[0] = base /\ \A i \in 1..m : f[i] = step[<<i, f[i - 1]>>]
            S == {m \in Nat : m <= n => \E f \in [0..m -> T] : Upto(m, f)}
<1>1. 0 \in S
  <2>1. [i \in 0..0 |-> base] \in [0..0 -> T] /\ Upto(0, [i \in 0..0 |-> base])
    OBVIOUS
  <2>. QED
    BY <2>1
<1>2. ASSUME NEW m \in Nat, m \in S PROVE m + 1 \in S
  <2>. SUFFICES ASSUME m + 1 <= n
                PROVE  \E f \in [0..(m + 1) -> T] : Upto(m + 1, f)
    OBVIOUS
  <2>1. PICK g \in [0..m -> T] : Upto(m, g)
    BY <1>2
  <2>. DEFINE v == step[<<m + 1, g[m]>>]
              f == [i \in 0..(m + 1) |-> IF i = m + 1 THEN v ELSE g[i]]
  <2>2. v \in T
    OBVIOUS
  <2>. HIDE DEF v
  <2>3. f \in [0..(m + 1) -> T]
    BY <2>2
  <2>4. f[0] = base
    BY <2>1
  <2>5. ASSUME NEW i \in 1..(m + 1) PROVE f[i] = step[<<i, f[i - 1]>>]
    <3>1. i - 1 \in 0..m /\ f[i - 1] = g[i - 1]
      OBVIOUS
    <3>2. CASE i = m + 1
      <4>1. f[i] = v /\ i - 1 = m
        BY <3>2
      <4>. QED
        BY <3>1, <3>2, <4>1 DEF v
    <3>3. CASE i # m + 1
      <4>1. i \in 1..m /\ f[i] = g[i]
        BY <3>3
      <4>2. g[i] = step[<<i, g[i - 1]>>]
        BY <2>1, <4>1
      <4>. QED
        BY <3>1, <4>1, <4>2
    <3>. QED
      BY <3>2, <3>3
  <2>. QED
    BY <2>3, <2>4, <2>5
<1>. HIDE DEF S
<1>3. Nat \subseteq S
  BY <1>1, <1>2, SetInduction
<1>. QED
  BY <1>3 DEF S, Computable

-----------------------------------------------------------------------------
(* Kept of module Filters.                                                 *)
KeptInSteps(s, S, R) ==
  \E f \in [0..Len(s) -> Seq(R)] :
    /\ f[0] = <<>>
    /\ \A i \in 1..Len(s) :
         f[i] = IF s[i] \in S THEN Append(f[i - 1], s[i]) ELSE f[i - 1]
    /\ Kept(s, S) = f[Len(s)]

LEMMA KeptUnfolds ==
  ASSUME NEW R, NEW s \in Seq(R), NEW S
  PROVE  KeptInSteps(s, S, R)
<1>. DEFINE n == Len(s)
            step == [p \in (1..n) \X Seq(R) |->
                       IF s[p[1]] \in S THEN Append(p[2], s[p[1]]) ELSE p[2]]
            Body(f) == [i \in 0..n |->
                          IF i = 0 THEN <<>>
                          ELSE IF s[i] \in S THEN Append(f[i - 1], s[i]) ELSE f[i - 1]]
            kept == CHOOSE f : f = Body(f)
<1>1. n \in Nat /\ \A i \in 1..n : s[i] \in R
  BY LenProperties, ElementOfSeq
<1>2. step \in [(1..n) \X Seq(R) -> Seq(R)]
  <2>1. \A q \in Seq(R), e \in R : Append(q, e) \in Seq(R)
    BY AppendProperties
  <2>. QED
    BY <1>1, <2>1
<1>3. PICK g \in [0..n -> Seq(R)] :
        g[0] = <<>> /\ \A i \in 1..n : g[i] = step[<<i, g[i - 1]>>]
  <2>. DEFINE T == Seq(R)
              base == <<>>
  <2>1. n \in Nat /\ base \in T /\ step \in [(1..n) \X T -> T]
    BY <1>1, <1>2, EmptySeq
  <2>. HIDE DEF step, n, T, base, Body, kept
  <2>2. Computable(n, T, base, step)
    BY <2>1, Recursion
  <2>. QED
    BY <2>2 DEF Computable, T, base
<1>9. ASSUME NEW i \in 1..n
      PROVE  g[i] = IF s[i] \in S THEN Append(g[i - 1], s[i]) ELSE g[i - 1]
  <2>1. i - 1 \in 0..n /\ g[i - 1] \in Seq(R)
    <3>. HIDE DEF n, step, Body, kept
    <3>1. i - 1 \in 0..n
      BY <1>1
    <3>. QED
      BY <3>1, <1>3
  <2>2. <<i, g[i - 1]>> \in (1..n) \X Seq(R)
    BY <2>1
  <2>3. g[i] = step[<<i, g[i - 1]>>]
    BY <1>3
  <2>. QED
    BY <2>2, <2>3
<1>4. g = Body(g)
  <2>. HIDE DEF n, step, kept
  <2>1. ASSUME NEW i \in 0..n PROVE g[i] = Body(g)[i]
    <3>1. CASE i = 0
      BY <3>1, <1>3
    <3>2. CASE i # 0
      <4>1. i \in 1..n
        BY <3>2, <1>1
      <4>. QED
        BY <3>2, <4>1, <1>9
    <3>. QED
      BY <3>1, <3>2
  <2>2. Body(g) = [i \in 0..n |-> Body(g)[i]]
    OBVIOUS
  <2>3. g = [i \in 0..n |-> g[i]]
    OBVIOUS
  <2>. HIDE DEF Body
  <2>. QED
    BY <2>1, <2>2, <2>3
<1>5. kept = Body(kept)
  <2>. HIDE DEF Body
  <2>. QED
    BY <1>4
<1>6. DOMAIN kept = 0..n
  BY <1>5
<1>7. \A i \in 0..n : kept[i] = g[i]
  <2>. DEFINE Same == {i \in Nat : i <= n => kept[i] = g[i]}
  <2>. HIDE DEF kept, step
  <2>1. 0 \in Same
    BY <1>1, <1>4, <1>5
  <2>2. ASSUME NEW i \in Nat, i \in Same PROVE i + 1 \in Same
    <3>. SUFFICES ASSUME i + 1 <= n PROVE kept[i + 1] = g[i + 1]
      OBVIOUS
    <3>1. i + 1 \in 0..n /\ i + 1 # 0 /\ (i + 1) - 1 = i /\ kept[i] = g[i]
      BY <1>1, <2>2
    <3>2. /\ kept[i + 1] = IF s[i + 1] \in S THEN Append(kept[i], s[i + 1]) ELSE kept[i]
          /\ g[i + 1] = IF s[i + 1] \in S THEN Append(g[i], s[i + 1]) ELSE g[i]
      BY <1>4, <1>5, <3>1, ZenonT(60)
    <3>. QED
      BY <3>1, <3>2
  <2>. HIDE DEF Same
  <2>3. Nat \subseteq Same
    BY <2>1, <2>2, SetInduction
  <2>. QED
    BY <1>1, <2>3 DEF Same
<1>8. Kept(s, S) = g[n]
  <2>1. Kept(s, S) = kept[n]
    BY DEF Kept
  <2>2. n \in 0..n
    BY <1>1
  <2>. HIDE DEF kept, n
  <2>. QED
    BY <1>7, <2>1, <2>2
<1>. QED
  BY <1>3, <1>8, <1>9 DEF KeptInSteps

(* What is kept are the elements in S, distinct if they were.              *)
LEMMA KeptRange ==
  ASSUME NEW R, NEW s \in Seq(R), NEW S
  PROVE  /\ Kept(s, S) \in Seq(R)
         /\ Range(Kept(s, S)) = Range(s) \cap S
         /\ Len(Kept(s, S)) <= Len(s)
         /\ IsInjective(s) => IsInjective(Kept(s, S))
<1>. DEFINE n == Len(s)
            Before(i) == {s[j] : j \in 1..i}
<1>1. /\ n \in Nat /\ DOMAIN s = 1..n /\ \A i \in 1..n : s[i] \in R
  BY LenProperties, ElementOfSeq
<1>2. PICK f \in [0..n -> Seq(R)] :
        /\ f[0] = <<>>
        /\ \A i \in 1..n : f[i] = IF s[i] \in S THEN Append(f[i - 1], s[i]) ELSE f[i - 1]
        /\ Kept(s, S) = f[n]
  <2>1. KeptInSteps(s, S, R)
    BY KeptUnfolds
  <2>. QED
    BY <2>1 DEF KeptInSteps
<1>. DEFINE Good(i) == /\ Range(f[i]) = Before(i) \cap S
                       /\ Len(f[i]) \in Nat /\ Len(f[i]) <= i
                       /\ IsInjective(s) => IsInjective(f[i])
            G == {i \in Nat : i <= n => Good(i)}
<1>3. 0 \in G
  BY <1>2 DEF Range, IsInjective
<1>4. ASSUME NEW i \in Nat, i \in G PROVE i + 1 \in G
  <2>. SUFFICES ASSUME i + 1 <= n PROVE Good(i + 1)
    OBVIOUS
  <2>1. /\ i + 1 \in 1..n /\ i \in 0..n /\ (i + 1) - 1 = i
        /\ Range(f[i]) = Before(i) \cap S
        /\ Len(f[i]) \in Nat /\ Len(f[i]) <= i
        /\ IsInjective(s) => IsInjective(f[i])
    BY <1>1, <1>4
  <2>2. f[i] \in Seq(R) /\ s[i + 1] \in R
    BY <1>1, <2>1
  <2>3. f[i + 1] = IF s[i + 1] \in S THEN Append(f[i], s[i + 1]) ELSE f[i]
    BY <1>2, <2>1
  <2>4. Before(i + 1) = Before(i) \cup {s[i + 1]}
    <3>1. 1..(i + 1) = (1..i) \cup {i + 1}
      OBVIOUS
    <3>. QED
      BY <3>1
  <2>5. IsInjective(s) => s[i + 1] \notin Before(i)
    BY <1>1, <2>1 DEF IsInjective
  <2>. HIDE DEF Before
  <2>6. CASE s[i + 1] \in S
    BY <2>1, <2>2, <2>3, <2>4, <2>5, <2>6, AppendRange
  <2>7. CASE s[i + 1] \notin S
    BY <2>1, <2>2, <2>3, <2>4, <2>7
  <2>. QED
    BY <2>6, <2>7
<1>. HIDE DEF G
<1>5. Good(n)
  <2>1. Nat \subseteq G
    BY <1>3, <1>4, SetInduction
  <2>. QED
    BY <1>1, <2>1 DEF G
<1>6. Before(n) = Range(s)
  BY <1>1 DEF Range
<1>. QED
  BY <1>1, <1>2, <1>5, <1>6

(* Induction over sequences by what is appended.                           *)
LEMMA SeqInduction ==
  ASSUME NEW R, NEW P, <<>> \in P,
         \A s \in Seq(R), e \in R : s \in P => Append(s, e) \in P
  PROVE  Seq(R) \subseteq P
<1>. DEFINE N == {n \in Nat : \A s \in Seq(R) : Len(s) = n => s \in P}
<1>1. 0 \in N
  <2>1. \A s \in Seq(R) : Len(s) = 0 => s = <<>>
    BY EmptySeq
  <2>. QED
    BY <2>1
<1>2. ASSUME NEW n \in Nat, n \in N PROVE n + 1 \in N
  <2>. SUFFICES ASSUME NEW s \in Seq(R), Len(s) = n + 1 PROVE s \in P
    OBVIOUS
  <2>1. s # <<>>
    BY EmptySeq
  <2>2. PICK q \in Seq(R), e \in R : s = Append(q, e)
    BY <2>1, SequenceEmptyOrAppend
  <2>3. Len(s) = Len(q) + 1 /\ Len(q) \in Nat
    BY <2>2, AppendProperties, LenProperties
  <2>4. q \in P
    BY <1>2, <2>3
  <2>. QED
    BY <2>2, <2>4
<1>3. Nat \subseteq N
  <2>. HIDE DEF N
  <2>. QED
    BY <1>1, <1>2, SetInduction
<1>. QED
  BY <1>3, LenProperties

-----------------------------------------------------------------------------
LEMMA KeptEmpty == ASSUME NEW S PROVE Kept(<<>>, S) = <<>>
<1>1. KeptInSteps(<<>>, S, {})
  BY EmptySeq, KeptUnfolds
<1>2. Len(<<>>) = 0
  BY EmptySeq
<1>. QED
  BY <1>1, <1>2 DEF KeptInSteps

LEMMA KeptAppend ==
  ASSUME NEW R, NEW s \in Seq(R), NEW e \in R, NEW S
  PROVE  Kept(Append(s, e), S) =
           IF e \in S THEN Append(Kept(s, S), e) ELSE Kept(s, S)
<1>. DEFINE n == Len(s)
            a == Append(s, e)
<1>1. /\ a \in Seq(R) /\ Len(a) = n + 1 /\ n \in Nat
      /\ \A i \in 1..n : a[i] = s[i]
      /\ a[n + 1] = e
  BY AppendProperties, LenProperties
<1>. HIDE DEF a, n
<1>2. PICK f \in [0..n -> Seq(R)] :
        /\ f[0] = <<>>
        /\ \A i \in 1..n : f[i] = IF s[i] \in S THEN Append(f[i - 1], s[i]) ELSE f[i - 1]
        /\ Kept(s, S) = f[n]
  <2>1. KeptInSteps(s, S, R)
    BY KeptUnfolds
  <2>. QED
    BY <2>1 DEF KeptInSteps, n
<1>3. PICK g \in [0..(n + 1) -> Seq(R)] :
        /\ g[0] = <<>>
        /\ \A i \in 1..(n + 1) :
             g[i] = IF a[i] \in S THEN Append(g[i - 1], a[i]) ELSE g[i - 1]
        /\ Kept(a, S) = g[n + 1]
  <2>1. KeptInSteps(a, S, R)
    BY <1>1, KeptUnfolds
  <2>. QED
    BY <1>1, <2>1 DEF KeptInSteps
<1>. DEFINE Same == {i \in Nat : i <= n => f[i] = g[i]}
<1>4. 0 \in Same
  BY <1>2, <1>3
<1>5. ASSUME NEW i \in Nat, i \in Same PROVE i + 1 \in Same
  <2>. SUFFICES ASSUME i + 1 <= n PROVE f[i + 1] = g[i + 1]
    OBVIOUS
  <2>1. i + 1 \in 1..n /\ i + 1 \in 1..(n + 1) /\ (i + 1) - 1 = i /\ f[i] = g[i]
    BY <1>1, <1>5
  <2>. QED
    BY <1>1, <1>2, <1>3, <2>1, ZenonT(60)
<1>6. f[n] = g[n]
  <2>. HIDE DEF Same
  <2>1. Nat \subseteq Same
    BY <1>4, <1>5, SetInduction
  <2>. QED
    BY <1>1, <2>1 DEF Same
<1>7. g[n + 1] = IF e \in S THEN Append(g[n], e) ELSE g[n]
  <2>1. n + 1 \in 1..(n + 1) /\ (n + 1) - 1 = n
    BY <1>1
  <2>. QED
    BY <1>1, <1>3, <2>1
<1>. QED
  BY <1>2, <1>3, <1>6, <1>7 DEF a

(* Only the elements that occur matter to what is kept.                    *)
LEMMA KeptSame ==
  ASSUME NEW R, NEW s \in Seq(R), NEW S, NEW T,
         \A i \in 1..Len(s) : s[i] \in S <=> s[i] \in T
  PROVE  Kept(s, S) = Kept(s, T)
<1>. DEFINE P == {z \in Seq(R) : (\A i \in 1..Len(z) : z[i] \in S <=> z[i] \in T) =>
                                   Kept(z, S) = Kept(z, T)}
<1>1. <<>> \in P
  BY EmptySeq, KeptEmpty
<1>2. ASSUME NEW z \in Seq(R), NEW e \in R, z \in P PROVE Append(z, e) \in P
  <2>. DEFINE a == Append(z, e)
  <2>1. /\ a \in Seq(R) /\ Len(a) = Len(z) + 1 /\ Len(z) \in Nat
        /\ \A i \in 1..Len(z) : a[i] = z[i]
        /\ a[Len(z) + 1] = e
    BY AppendProperties, LenProperties
  <2>2. /\ Kept(a, S) = IF e \in S THEN Append(Kept(z, S), e) ELSE Kept(z, S)
        /\ Kept(a, T) = IF e \in T THEN Append(Kept(z, T), e) ELSE Kept(z, T)
    BY KeptAppend
  <2>. HIDE DEF a
  <2>. SUFFICES ASSUME \A i \in 1..Len(a) : a[i] \in S <=> a[i] \in T
                PROVE  Kept(a, S) = Kept(a, T)
    BY <2>1 DEF a
  <2>3. e \in S <=> e \in T
    <3>1. Len(z) + 1 \in 1..Len(a)
      BY <2>1
    <3>. QED
      BY <2>1, <3>1
  <2>4. \A i \in 1..Len(z) : z[i] \in S <=> z[i] \in T
    <3>1. \A i \in 1..Len(z) : i \in 1..Len(a)
      BY <2>1
    <3>. QED
      BY <2>1, <3>1
  <2>5. Kept(z, S) = Kept(z, T)
    BY <1>2, <2>4
  <2>. QED
    BY <2>2, <2>3, <2>5
<1>3. Seq(R) \subseteq P
  <2>. HIDE DEF P
  <2>. QED
    BY <1>1, <1>2, SeqInduction
<1>. QED
  BY <1>3

LEMMA KeptAll ==
  ASSUME NEW R, NEW s \in Seq(R), NEW S, \A i \in 1..Len(s) : s[i] \in S
  PROVE  Kept(s, S) = s
<1>. DEFINE P == {z \in Seq(R) : Kept(z, R) = z}
<1>1. <<>> \in P
  BY EmptySeq, KeptEmpty
<1>2. ASSUME NEW z \in Seq(R), NEW e \in R, z \in P PROVE Append(z, e) \in P
  BY <1>2, KeptAppend, AppendProperties
<1>3. Seq(R) \subseteq P
  <2>. HIDE DEF P
  <2>. QED
    BY <1>1, <1>2, SeqInduction
<1>4. Kept(s, R) = s
  BY <1>3
<1>5. \A i \in 1..Len(s) : s[i] \in S <=> s[i] \in R
  BY ElementOfSeq
<1>6. Kept(s, S) = Kept(s, R)
  BY <1>5, KeptSame
<1>. QED
  BY <1>4, <1>6

LEMMA AppendConcat ==
  ASSUME NEW R, NEW s \in Seq(R), NEW z \in Seq(R), NEW e \in R
  PROVE  s \o Append(z, e) = Append(s \o z, e)
<1>. DEFINE t == <<e>>
<1>1. t \in Seq(R) /\ s \o z \in Seq(R)
  BY ConcatProperties
<1>2. Append(z, e) = z \o t /\ Append(s \o z, e) = (s \o z) \o t
  BY <1>1, AppendIsConcat
<1>. HIDE DEF t
<1>3. (s \o z) \o t = s \o (z \o t)
  BY <1>1, ConcatAssociative
<1>. QED
  BY <1>2, <1>3

LEMMA KeptConcat ==
  ASSUME NEW R, NEW s \in Seq(R), NEW z \in Seq(R), NEW S
  PROVE  Kept(s \o z, S) = Kept(s, S) \o Kept(z, S)
<1>. DEFINE P == {y \in Seq(R) : Kept(s \o y, S) = Kept(s, S) \o Kept(y, S)}
<1>1. <<>> \in P
  <2>1. Kept(s, S) \in Seq(R)
    BY KeptRange
  <2>. QED
    BY <2>1, EmptySeq, KeptEmpty, ConcatEmptySeq
<1>2. ASSUME NEW y \in Seq(R), NEW e \in R, y \in P PROVE Append(y, e) \in P
  <2>1. /\ s \o y \in Seq(R) /\ Kept(s, S) \in Seq(R) /\ Kept(y, S) \in Seq(R)
        /\ Append(y, e) \in Seq(R)
    BY ConcatProperties, KeptRange, AppendProperties
  <2>2. s \o Append(y, e) = Append(s \o y, e)
    BY AppendConcat
  <2>3. /\ Kept(Append(s \o y, e), S) =
             IF e \in S THEN Append(Kept(s \o y, S), e) ELSE Kept(s \o y, S)
        /\ Kept(Append(y, e), S) = IF e \in S THEN Append(Kept(y, S), e) ELSE Kept(y, S)
    BY <2>1, KeptAppend
  <2>4. Kept(s \o y, S) = Kept(s, S) \o Kept(y, S)
    BY <1>2
  <2>5. Kept(s, S) \o Append(Kept(y, S), e) = Append(Kept(s, S) \o Kept(y, S), e)
    BY <2>1, AppendConcat
  <2>6. Kept(s \o Append(y, e), S) = Kept(s, S) \o Kept(Append(y, e), S)
    BY <2>2, <2>3, <2>4, <2>5
  <2>. QED
    BY <2>1, <2>6
<1>3. Seq(R) \subseteq P
  <2>. HIDE DEF P
  <2>. QED
    BY <1>1, <1>2, SeqInduction
<1>. QED
  BY <1>3

LEMMA ConcatThree ==
  ASSUME NEW T
  PROVE  \A q1 \in Seq(T), q2 \in Seq(T), q3 \in Seq(T) :
           (q1 \o q2) \o q3 = q1 \o (q2 \o q3)
<1>. SUFFICES ASSUME NEW q1 \in Seq(T), NEW q2 \in Seq(T), NEW q3 \in Seq(T)
              PROVE  (q1 \o q2) \o q3 = q1 \o (q2 \o q3)
  OBVIOUS
<1>. QED
  BY ConcatAssociative, SMTT(60)

-----------------------------------------------------------------------------
(* Division with remainder.                                                *)
LEMMA DivMod ==
  ASSUME NEW G \in Nat \ {0}, NEW x \in Nat
  PROVE  x \div G \in Nat /\ x % G \in 0..(G - 1) /\ x = ((x \div G) * G) + (x % G)
BY SMT

LEMMA DivModUnique ==
  ASSUME NEW G \in Nat \ {0}, NEW q \in Nat, NEW p \in Nat,
         NEW r \in 0..(G - 1), NEW s \in 0..(G - 1), q * G + r = p * G + s
  PROVE  q = p /\ r = s
<1>1. CASE q = p
  BY <1>1
<1>2. CASE q < p
  <2>1. PICK k \in Nat : p = q + 1 + k
    <3>1. p - q - 1 \in Nat /\ p = q + 1 + (p - q - 1)
      BY <1>2
    <3>. QED
      BY <3>1
  <2>2. p * G = q * G + G + k * G
    BY <2>1, SMT
  <2>3. k * G \in Nat /\ q * G \in Nat
    BY SMT
  <2>. QED
    BY <2>2, <2>3
<1>3. CASE p < q
  <2>1. PICK k \in Nat : q = p + 1 + k
    <3>1. q - p - 1 \in Nat /\ q = p + 1 + (q - p - 1)
      BY <1>3
    <3>. QED
      BY <3>1
  <2>2. q * G = p * G + G + k * G
    BY <2>1, SMT
  <2>3. k * G \in Nat /\ p * G \in Nat
    BY SMT
  <2>. QED
    BY <2>2, <2>3
<1>. QED
  BY <1>1, <1>2, <1>3
=============================================================================
