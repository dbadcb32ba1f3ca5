---------------------------- MODULE QueueProofs -----------------------------
(***************************************************************************)
(* Queue implements Fifo for every group length and every set of elements. *)
(***************************************************************************)
EXTENDS Queue, SequenceLemmas

(* Reverse of SequencesExt.                                                *)
LEMMA Backwards ==
  ASSUME NEW R, NEW s \in Seq(R)
  PROVE  /\ Reverse(s) \in Seq(R)
         /\ Len(Reverse(s)) = Len(s)
         /\ \A i \in 1..Len(s) : Reverse(s)[i] = s[(Len(s) - i) + 1]
         /\ Reverse(Reverse(s)) = s
<1>. DEFINE n == Len(s)
<1>1. n \in Nat /\ \A i \in 1..n : s[i] \in R
  BY LenProperties, ElementOfSeq
<1>2. \A i \in 1..n : (n - i) + 1 \in 1..n
  BY <1>1
<1>3. Reverse(s) \in [1..n -> R]
  BY <1>1, <1>2 DEF Reverse
<1>4. Reverse(s) \in Seq(R)
  BY <1>1, <1>3, SeqDef
<1>5. Len(Reverse(s)) = n
  BY <1>1, <1>3, <1>4, LenProperties
<1>6. \A i \in 1..n : Reverse(s)[i] = s[(n - i) + 1]
  BY DEF Reverse
<1>7. Reverse(Reverse(s)) \in Seq(R) /\ Len(Reverse(Reverse(s))) = n
  <2>1. Reverse(Reverse(s)) \in [1..n -> R]
    BY <1>1, <1>2, <1>3, <1>5 DEF Reverse
  <2>. QED
    BY <1>1, <2>1, SeqDef, LenProperties
<1>8. ASSUME NEW i \in 1..n PROVE Reverse(Reverse(s))[i] = s[i]
  <2>1. Reverse(Reverse(s))[i] = Reverse(s)[(n - i) + 1]
    BY <1>5 DEF Reverse
  <2>2. Reverse(s)[(n - i) + 1] = s[(n - ((n - i) + 1)) + 1]
    BY <1>2, <1>6
  <2>3. (n - ((n - i) + 1)) + 1 = i
    BY <1>1
  <2>. QED
    BY <2>1, <2>2, <2>3
<1>9. Reverse(Reverse(s)) = s
  <2>. HIDE DEF n
  <2>. DEFINE z == Reverse(Reverse(s))
  <2>1. z \in Seq(R) /\ Len(z) = Len(s) /\ \A i \in 1..Len(z) : z[i] = s[i]
    BY <1>7, <1>8 DEF n
  <2>. HIDE DEF z
  <2>2. z = s
    BY <2>1, SeqEqual
  <2>. QED
    BY <2>2 DEF z
<1>. QED
  BY <1>4, <1>5, <1>6, <1>9

LEMMA BackwardsEmpty == Reverse(<<>>) = <<>>
<1>. DEFINE z == Reverse(<<>>)
<1>1. z \in Seq({}) /\ Len(z) = 0
  BY EmptySeq, Backwards
<1>. HIDE DEF z
<1>2. z = <<>>
  BY <1>1, EmptySeq
<1>. QED
  BY <1>2 DEF z

LEMMA BackwardsAppend ==
  ASSUME NEW R, NEW s \in Seq(R), NEW e \in R
  PROVE  Reverse(Append(s, e)) = <<e>> \o Reverse(s)
<1>. DEFINE n == Len(s)
            a == Append(s, e)
            z == Reverse(s)
            l == Reverse(a)
            r == <<e>> \o z
<1>1. /\ a \in Seq(R) /\ Len(a) = n + 1 /\ n \in Nat
      /\ \A i \in 1..n : a[i] = s[i]
      /\ a[n + 1] = e
  BY AppendProperties, LenProperties
<1>2. /\ z \in Seq(R) /\ Len(z) = n
      /\ \A i \in 1..n : z[i] = s[(n - i) + 1]
  BY Backwards
<1>. HIDE DEF a, z, n
<1>3. /\ l \in Seq(R) /\ Len(l) = n + 1
      /\ \A i \in 1..(n + 1) : l[i] = a[((n + 1) - i) + 1]
  BY <1>1, Backwards
<1>5. /\ r \in Seq(R) /\ Len(r) = n + 1
      /\ \A i \in 1..(n + 1) : r[i] = IF i = 1 THEN e ELSE z[i - 1]
  <2>1. /\ <<e>> \o z \in Seq(R)
        /\ DOMAIN (<<e>> \o z) = 1..(Len(z) + 1)
        /\ (<<e>> \o z)[1] = e
        /\ \A k \in 2..(Len(z) + 1) : (<<e>> \o z)[k] = z[k - 1]
    BY <1>2, PushFront
  <2>. HIDE DEF r
  <2>2. /\ r \in Seq(R) /\ DOMAIN r = 1..(n + 1)
        /\ r[1] = e
        /\ \A k \in 2..(n + 1) : r[k] = z[k - 1]
    BY <1>2, <2>1 DEF r
  <2>3. Len(r) = n + 1
    BY <1>1, <2>2, LenProperties
  <2>4. n \in Nat
    BY <1>1
  <2>5. \A i \in 1..(n + 1) : i = 1 \/ i \in 2..(n + 1)
    BY <2>4
  <2>. QED
    BY <2>2, <2>3, <2>5
<1>. HIDE DEF l, r
<1>6. ASSUME NEW i \in 1..(n + 1) PROVE l[i] = r[i]
  <2>1. CASE i = 1
    <3>1. l[1] = a[n + 1] /\ r[1] = e
      BY <1>1, <1>3, <1>5, <2>1
    <3>. QED
      BY <1>1, <2>1, <3>1
  <2>2. CASE i # 1
    <3>1. i - 1 \in 1..n /\ ((n + 1) - i) + 1 \in 1..n
          /\ (n - (i - 1)) + 1 = ((n + 1) - i) + 1
      BY <1>1, <2>2
    <3>2. r[i] = s[(n - (i - 1)) + 1] /\ l[i] = s[((n + 1) - i) + 1]
      BY <1>1, <1>2, <1>3, <1>5, <3>1
    <3>. QED
      BY <3>1, <3>2
  <2>. QED
    BY <2>1, <2>2
<1>7. l = r
  BY <1>3, <1>5, <1>6, SeqEqual
<1>. QED
  BY <1>7 DEF a, z, l, r

LEMMA KeptBackwards ==
  ASSUME NEW R, NEW s \in Seq(R), NEW S
  PROVE  Kept(Reverse(s), S) = Reverse(Kept(s, S))
<1>. DEFINE P == {y \in Seq(R) : Kept(Reverse(y), S) = Reverse(Kept(y, S))}
<1>1. <<>> \in P
  BY EmptySeq, KeptEmpty, BackwardsEmpty
<1>2. ASSUME NEW y \in Seq(R), NEW e \in R, y \in P PROVE Append(y, e) \in P
  <2>. DEFINE t == <<e>>
  <2>1. /\ Reverse(y) \in Seq(R) /\ Kept(y, S) \in Seq(R)
        /\ Append(y, e) \in Seq(R) /\ t \in Seq(R)
    BY Backwards, KeptRange, AppendProperties
  <2>2. Reverse(Append(y, e)) = t \o Reverse(y)
    BY BackwardsAppend
  <2>3. Kept(t, S) = IF e \in S THEN t ELSE <<>>
    <3>1. t = Append(<<>>, e) /\ <<>> \in Seq(R)
      BY EmptySeq
    <3>2. Kept(Append(<<>>, e), S) =
            IF e \in S THEN Append(Kept(<<>>, S), e) ELSE Kept(<<>>, S)
      BY <3>1, KeptAppend
    <3>. QED
      BY <3>1, <3>2, KeptEmpty
  <2>4. Reverse(Append(Kept(y, S), e)) = t \o Reverse(Kept(y, S))
    BY <2>1, BackwardsAppend
  <2>5. Reverse(Kept(y, S)) \in Seq(R)
    BY <2>1, Backwards
  <2>. HIDE DEF t
  <2>6. Kept(t \o Reverse(y), S) = Kept(t, S) \o Kept(Reverse(y), S)
    <3>1. \A q \in Seq(R), z \in Seq(R) : Kept(q \o z, S) = Kept(q, S) \o Kept(z, S)
      BY KeptConcat, SMTT(60)
    <3>. QED
      BY <2>1, <3>1
  <2>7. Kept(Append(y, e), S) = IF e \in S THEN Append(Kept(y, S), e) ELSE Kept(y, S)
    BY KeptAppend
  <2>8. Kept(Reverse(Append(y, e)), S) = Reverse(Kept(Append(y, e), S))
    <3>1. Kept(Reverse(y), S) = Reverse(Kept(y, S))
      BY <1>2
    <3>2. CASE e \in S
      BY <2>2, <2>3, <2>4, <2>6, <2>7, <3>1, <3>2
    <3>3. CASE e \notin S
      <4>1. <<>> \o Reverse(Kept(y, S)) = Reverse(Kept(y, S))
        BY <2>5, ConcatEmptySeq
      <4>. QED
        BY <2>2, <2>3, <2>6, <2>7, <3>1, <3>3, <4>1
    <3>. QED
      BY <3>2, <3>3
  <2>. QED
    BY <2>1, <2>8
<1>3. Seq(R) \subseteq P
  <2>. HIDE DEF P
  <2>. QED
    BY <1>1, <1>2, SeqInduction
<1>. QED
  BY <1>3

LEMMA BackwardsConcat ==
  ASSUME NEW R, NEW s \in Seq(R), NEW z \in Seq(R)
  PROVE  Reverse(s \o z) = Reverse(z) \o Reverse(s)
<1>. DEFINE P == {y \in Seq(R) : Reverse(s \o y) = Reverse(y) \o Reverse(s)}
<1>0. Reverse(s) \in Seq(R)
  BY Backwards
<1>1. <<>> \in P
  BY <1>0, EmptySeq, BackwardsEmpty, ConcatEmptySeq
<1>2. ASSUME NEW y \in Seq(R), NEW e \in R, y \in P PROVE Append(y, e) \in P
  <2>. DEFINE t == <<e>>
  <2>1. s \o Append(y, e) = Append(s \o y, e) /\ s \o y \in Seq(R)
    BY AppendConcat, ConcatProperties
  <2>2. /\ Reverse(Append(s \o y, e)) = t \o Reverse(s \o y)
        /\ Reverse(Append(y, e)) = t \o Reverse(y)
    BY <2>1, BackwardsAppend
  <2>3. t \in Seq(R) /\ Reverse(y) \in Seq(R) /\ Append(y, e) \in Seq(R)
    BY Backwards, AppendProperties
  <2>4. Reverse(s \o y) = Reverse(y) \o Reverse(s)
    BY <1>2
  <2>. HIDE DEF t, P
  <2>5. (t \o Reverse(y)) \o Reverse(s) = t \o (Reverse(y) \o Reverse(s))
    <3>1. \A q1 \in Seq(R), q2 \in Seq(R), q3 \in Seq(R) :
            (q1 \o q2) \o q3 = q1 \o (q2 \o q3)
      BY ConcatThree, SMTT(60)
    <3>. QED
      BY <1>0, <2>3, <3>1, SMTT(60)
  <2>6. Reverse(s \o Append(y, e)) = Reverse(Append(y, e)) \o Reverse(s)
    BY <2>1, <2>2, <2>4, <2>5
  <2>. QED
    BY <2>3, <2>6 DEF P
<1>3. Seq(R) \subseteq P
  <2>. HIDE DEF P
  <2>. QED
    BY <1>1, <1>2, SeqInduction
<1>. QED
  BY <1>3

-----------------------------------------------------------------------------
(* Division of positions by the group length.                              *)
LEMMA DivModNext ==
  ASSUME NEW G \in Nat \ {0}, NEW x \in Nat
  PROVE  (x + G) \div G = (x \div G) + 1 /\ (x + G) % G = x % G
<1>. DEFINE q == x \div G
            r == x % G
            p == (x + G) \div G
            s == (x + G) % G
<1>1. q \in Nat /\ r \in 0..(G - 1) /\ x = q * G + r
  BY DivMod
<1>2. p \in Nat /\ s \in 0..(G - 1) /\ x + G = p * G + s
  <2>1. x + G \in Nat
    OBVIOUS
  <2>. QED
    BY <2>1, DivMod
<1>. HIDE DEF q, r, p, s
<1>3. (q + 1) * G = q * G + G
  BY <1>1, SMT
<1>4. q * G \in Nat /\ p * G \in Nat
  BY <1>1, <1>2, SMT
<1>5. (q + 1) * G + r = p * G + s
  BY <1>1, <1>2, <1>3, <1>4
<1>6. q + 1 = p /\ r = s
  BY <1>1, <1>2, <1>5, DivModUnique
<1>. QED
  BY <1>6 DEF q, r, p, s

LEMMA DivModSmall ==
  ASSUME NEW G \in Nat \ {0}, NEW x \in Nat, x < G
  PROVE  x \div G = 0 /\ x % G = x
BY SMT

LEMMA DivBound ==
  ASSUME NEW G \in Nat \ {0}, NEW x \in Nat, NEW n \in Nat, x < n * G
  PROVE  x \div G \in 0..(n - 1)
BY SMTT(30)

-----------------------------------------------------------------------------
(* Stacks whose elements are in Elem.                                      *)
Group == [1..GroupLength -> Elem \cup {Junk}]

Stacks ==
  {sk \in [groups : Seq(Group), used : 0..GroupLength, len : Nat] :
     /\ sk.groups = <<>> => sk.used = GroupLength
     /\ sk.len = IF sk.groups = <<>> THEN 0
                 ELSE (Len(sk.groups) - 1) * GroupLength + sk.used
     /\ Contents(sk) \in Seq(Elem)}

LEMMA ContentsSeq ==
  ASSUME NEW sk, sk.len \in Nat, \A i \in 1..sk.len : Contents(sk)[i] \in Elem
  PROVE  Contents(sk) \in Seq(Elem) /\ Len(Contents(sk)) = sk.len
<1>. DEFINE n == sk.len
            z == Contents(sk)
<1>1. z = [i \in 1..n |-> z[i]]
  BY DEF Contents
<1>. HIDE DEF z, n
<1>2. z \in [1..n -> Elem]
  BY <1>1 DEF z, n
<1>3. n \in Nat
  BY DEF n
<1>4. z \in Seq(Elem)
  BY <1>2, <1>3, SeqDef
<1>5. Len(z) = n
  BY <1>2, <1>3, <1>4, LenProperties
<1>. QED
  BY <1>4, <1>5 DEF z, n

LEMMA ContentsTyped ==
  ASSUME NEW sk \in Stacks
  PROVE  /\ Contents(sk) \in Seq(Elem)
         /\ Len(Contents(sk)) = sk.len
         /\ sk.len \in Nat
<1>1. sk.len \in Nat /\ Contents(sk) \in Seq(Elem)
  BY DEF Stacks
<1>2. DOMAIN Contents(sk) = 1..sk.len
  BY DEF Contents
<1>3. Len(Contents(sk)) = sk.len
  BY <1>1, <1>2, LenProperties
<1>. QED
  BY <1>1, <1>3

(* Below the head group all groups are full, and there are as many as len  *)
(* says.                                                                   *)
LEMMA BelowIn ==
  ASSUME NEW sk \in Stacks, NEW i \in 1..sk.len, ~ (i <= sk.used)
  PROVE  LET b == i - sk.used - 1
         IN  /\ b \in Nat
             /\ 2 + (b \div GroupLength) \in 2..Len(sk.groups)
             /\ GroupLength - (b % GroupLength) \in 1..GroupLength
<1>. DEFINE b == i - sk.used - 1
            n == Len(sk.groups) - 1
<1>1. /\ sk.used \in 0..GroupLength /\ sk.len \in Nat /\ GroupLength \in Nat \ {0}
      /\ sk.groups \in Seq(Group)
  BY GroupLengthAssumption DEF Stacks
<1>2. sk.groups # <<>> /\ sk.len = n * GroupLength + sk.used
  BY <1>1 DEF Stacks
<1>3. n \in Nat
  BY <1>1, <1>2, EmptySeq
<1>. HIDE DEF n
<1>4. n * GroupLength \in Nat
  BY <1>1, <1>3, SMT
<1>5. b \in Nat /\ b < n * GroupLength
  BY <1>1, <1>2, <1>4
<1>. HIDE DEF b
<1>6. b \div GroupLength \in 0..(n - 1) /\ b % GroupLength \in 0..(GroupLength - 1)
  BY <1>1, <1>3, <1>5, DivBound, DivMod
<1>7. 2 + (b \div GroupLength) \in 2..(n + 1)
      /\ GroupLength - (b % GroupLength) \in 1..GroupLength
  BY <1>1, <1>3, <1>6, SMTT(60)
<1>8. n + 1 = Len(sk.groups)
  BY <1>1, LenProperties DEF n
<1>. QED
  BY <1>5, <1>7, <1>8 DEF b

LEMMA CreateFacts == Create \in Stacks /\ Contents(Create) = <<>>
<1>1. Create.len = 0 /\ Create.groups = <<>> /\ Create.used = GroupLength
  BY DEF Create
<1>2. Contents(Create) \in Seq(Elem) /\ Len(Contents(Create)) = 0
  BY <1>1, ContentsSeq
<1>3. Contents(Create) = <<>>
  BY <1>2, EmptySeq
<1>4. Create \in [groups : Seq(Group), used : 0..GroupLength, len : Nat]
  BY GroupLengthAssumption, EmptySeq DEF Create
<1>. QED
  BY <1>1, <1>2, <1>3, <1>4 DEF Stacks

-----------------------------------------------------------------------------
(* Single pushes and pulls, at group boundaries and off them.              *)

(* What Contents has to be for a push.                                     *)
LEMMA Pushed ==
  ASSUME NEW sk \in Stacks, NEW e \in Elem, NEW q,
         q \in [groups : Seq(Group), used : 0..GroupLength, len : Nat],
         q.groups # <<>>,
         q.len = sk.len + 1,
         q.len = (Len(q.groups) - 1) * GroupLength + q.used,
         Contents(q)[1] = e,
         \A i \in 1..sk.len : Contents(q)[i + 1] = Contents(sk)[i]
  PROVE  /\ q \in Stacks
         /\ q.len = sk.len + 1
         /\ Contents(q) = <<e>> \o Contents(sk)
<1>. DEFINE c == Contents(sk)
            z == Contents(q)
            r == <<e>> \o c
            n == sk.len
<1>1. c \in Seq(Elem) /\ Len(c) = n /\ n \in Nat
  BY ContentsTyped
<1>2. \A i \in 1..n : c[i] \in Elem /\ z[i + 1] = c[i]
  BY <1>1, ElementOfSeq
<1>. HIDE DEF c, r
<1>3. \A i \in 1..(n + 1) : i = 1 \/ (i - 1 \in 1..n /\ i = (i - 1) + 1)
  BY <1>1
<1>4. \A i \in 1..q.len : Contents(q)[i] \in Elem
  BY <1>2, <1>3
<1>5. z \in Seq(Elem) /\ Len(z) = n + 1
  BY <1>4, ContentsSeq
<1>6. /\ <<e>> \o c \in Seq(Elem)
      /\ DOMAIN (<<e>> \o c) = 1..(Len(c) + 1)
      /\ (<<e>> \o c)[1] = e
      /\ \A k \in 1..Len(c) : (<<e>> \o c)[k + 1] = c[k]
  BY <1>1, PushFront
<1>7. /\ r \in Seq(Elem) /\ DOMAIN r = 1..(n + 1)
      /\ r[1] = e /\ \A k \in 1..n : r[k + 1] = c[k]
  BY <1>1, <1>6 DEF r
<1>8. Len(r) = n + 1
  BY <1>1, <1>7, LenProperties
<1>9. \A i \in 1..(n + 1) : z[i] = r[i]
  BY <1>2, <1>3, <1>7
<1>. HIDE DEF z, n
<1>10. z = r
  BY <1>5, <1>7, <1>8, <1>9, SeqEqual
<1>. QED
  BY <1>5, <1>10 DEF Stacks, z, r, c

LEMMA PushFacts ==
  ASSUME NEW sk \in Stacks, NEW e \in Elem
  PROVE  /\ Push(sk, e) \in Stacks
         /\ Push(sk, e).len = sk.len + 1
         /\ Contents(Push(sk, e)) = <<e>> \o Contents(sk)
<1>. DEFINE G == GroupLength
            gs == sk.groups
            q == Push(sk, e)
<1>1. /\ gs \in Seq(Group) /\ sk.used \in 0..G /\ sk.len \in Nat /\ G \in Nat \ {0}
      /\ gs = <<>> => sk.used = G
      /\ sk.len = IF gs = <<>> THEN 0 ELSE (Len(gs) - 1) * G + sk.used
      /\ Len(gs) \in Nat /\ DOMAIN gs = 1..Len(gs)
      /\ gs # <<>> => Len(gs) \in Nat \ {0}
      /\ sk = [groups |-> gs, used |-> sk.used, len |-> sk.len]
  BY GroupLengthAssumption, LenProperties, EmptySeq DEF Stacks
<1>2. CASE sk.used < G
  <2>. DEFINE g == [gs[1] EXCEPT ![sk.used + 1] = e]
              ng == [gs EXCEPT ![1] = g]
  <2>1. gs # <<>> /\ 1 \in 1..Len(gs) /\ gs[1] \in Group
    BY <1>1, <1>2, ElementOfSeq
  <2>2. g \in Group /\ \A i \in 1..G : g[i] = IF i = sk.used + 1 THEN e ELSE gs[1][i]
    BY <1>1, <2>1 DEF Group
  <2>3. q = [groups |-> ng, used |-> sk.used + 1, len |-> sk.len + 1]
    <3>1. Grow(sk) = sk
      BY <1>2 DEF Grow
    <3>. QED
      BY <1>1, <3>1 DEF Push
  <2>. HIDE DEF g
  <2>4. /\ ng \in Seq(Group) /\ Len(ng) = Len(gs)
        /\ ng[1] = g
        /\ \A j \in 2..Len(gs) : ng[j] = gs[j]
    BY <1>1, <2>1, <2>2, ExceptSeq
  <2>. HIDE DEF ng, q
  <2>5. q \in [groups : Seq(Group), used : 0..G, len : Nat]
    BY <1>1, <1>2, <2>3, <2>4
  <2>6. q.groups = ng /\ q.used = sk.used + 1 /\ q.len = sk.len + 1
    BY <2>3
  <2>7. q.groups # <<>>
    BY <2>1, <2>4, <2>6, <1>1, EmptySeq
  <2>8. q.len = (Len(q.groups) - 1) * G + q.used
    <3>. DEFINE b == (Len(gs) - 1) * G
    <3>1. b \in Int /\ sk.len = b + sk.used
      BY <1>1, <2>1
    <3>. HIDE DEF b
    <3>2. sk.len + 1 = b + (sk.used + 1)
      BY <1>1, <3>1
    <3>. QED
      BY <2>4, <2>6, <3>2 DEF b
  <2>9. Contents(q)[1] = e
    <3>1. 1 \in 1..q.len /\ 1 <= q.used /\ (q.used - 1) + 1 = sk.used + 1
          /\ sk.used + 1 \in 1..G
      BY <1>1, <1>2, <2>6
    <3>2. Contents(q)[1] = ng[1][(q.used - 1) + 1]
      BY <2>6, <3>1 DEF Contents
    <3>. QED
      BY <2>2, <2>4, <3>1, <3>2
  <2>10. ASSUME NEW i \in 1..sk.len PROVE Contents(q)[i + 1] = Contents(sk)[i]
    <3>1. i + 1 \in 1..q.len
      BY <1>1, <2>6
    <3>2. CASE i <= sk.used
      <4>1. /\ i + 1 <= q.used
            /\ (q.used - (i + 1)) + 1 = (sk.used - i) + 1
            /\ (sk.used - i) + 1 \in 1..G /\ (sk.used - i) + 1 # sk.used + 1
        BY <1>1, <2>6, <3>2
      <4>2. Contents(q)[i + 1] = ng[1][(q.used - (i + 1)) + 1]
        BY <2>6, <3>1, <4>1 DEF Contents
      <4>3. Contents(sk)[i] = gs[1][(sk.used - i) + 1]
        BY <3>2 DEF Contents
      <4>. QED
        BY <2>2, <2>4, <4>1, <4>2, <4>3
    <3>3. CASE ~ (i <= sk.used)
      <4>. DEFINE b == i - sk.used - 1
      <4>1. ~ (i + 1 <= q.used) /\ (i + 1) - q.used - 1 = b
        BY <1>1, <2>6, <3>3, SMTT(60)
      <4>2. 2 + (b \div G) \in 2..Len(gs)
        BY <3>3, BelowIn
      <4>3. Contents(sk)[i] = gs[2 + (b \div G)][G - (b % G)]
        BY <3>3 DEF Contents
      <4>4. Contents(q)[i + 1] = ng[2 + (b \div G)][G - (b % G)]
        BY <2>6, <3>1, <4>1 DEF Contents
      <4>. HIDE DEF b
      <4>. QED
        BY <2>4, <4>2, <4>3, <4>4
    <3>. QED
      BY <3>2, <3>3
  <2>11. /\ q \in Stacks /\ q.len = sk.len + 1
         /\ Contents(q) = <<e>> \o Contents(sk)
    BY <2>5, <2>6, <2>7, <2>8, <2>9, <2>10, Pushed
  <2>. QED
    BY <2>11 DEF q
<1>3. CASE ~ (sk.used < G)
  <2>. DEFINE fresh == [i \in 1..G |-> Junk]
              g == [fresh EXCEPT ![1] = e]
              og == <<fresh>> \o gs
              ng == [og EXCEPT ![1] = g]
  <2>0. sk.used = G
    BY <1>1, <1>3
  <2>1. fresh \in Group /\ g \in Group /\ g[1] = e
    BY <1>1 DEF Group
  <2>2. q = [groups |-> ng, used |-> 1, len |-> sk.len + 1]
    <3>1. Grow(sk) = [groups |-> og, used |-> 0, len |-> sk.len]
      BY <1>1, <1>3 DEF Grow
    <3>. HIDE DEF fresh
    <3>2. q = [groups |-> [Grow(sk).groups EXCEPT ![1][Grow(sk).used + 1] = e],
               used |-> Grow(sk).used + 1, len |-> Grow(sk).len + 1]
      BY DEF Push
    <3>3. /\ [og EXCEPT ![1][0 + 1] = e] = [og EXCEPT ![1] = [og[1] EXCEPT ![1] = e]]
          /\ og[1] = fresh
      <4>1. 0 + 1 = 1
        OBVIOUS
      <4>2. og[1] = fresh
        BY <1>1, <2>1, PushFront
      <4>. HIDE DEF og
      <4>. QED
        BY <4>1, <4>2
    <3>. HIDE DEF og
    <3>4. ng = [og EXCEPT ![1][0 + 1] = e]
      BY <3>3
    <3>. HIDE DEF ng
    <3>. QED
      BY <1>1, <3>1, <3>2, <3>4
  <2>. HIDE DEF fresh, g
  <2>3. /\ og \in Seq(Group) /\ Len(og) = Len(gs) + 1
        /\ \A j \in 1..Len(gs) : og[j + 1] = gs[j]
    <3>1. /\ og \in Seq(Group) /\ DOMAIN og = 1..(Len(gs) + 1)
          /\ \A j \in 1..Len(gs) : og[j + 1] = gs[j]
      BY <1>1, <2>1, PushFront
    <3>. HIDE DEF og
    <3>. QED
      BY <1>1, <3>1, LenProperties
  <2>. HIDE DEF og
  <2>4. /\ ng \in Seq(Group) /\ Len(ng) = Len(gs) + 1
        /\ ng[1] = g
        /\ \A j \in 1..Len(gs) : ng[j + 1] = gs[j]
    <3>1. 1 \in 1..Len(og)
      BY <1>1, <2>3
    <3>2. /\ ng \in Seq(Group) /\ Len(ng) = Len(og)
          /\ \A j \in 1..Len(og) : ng[j] = IF j = 1 THEN g ELSE og[j]
      BY <2>1, <2>3, <3>1, ExceptSeq
    <3>3. \A j \in 1..Len(gs) : j + 1 \in 1..Len(og) /\ j + 1 # 1
      BY <1>1, <2>3
    <3>. HIDE DEF ng
    <3>. QED
      BY <2>3, <3>1, <3>2, <3>3
  <2>. HIDE DEF ng, q
  <2>5. q.groups = ng /\ q.used = 1 /\ q.len = sk.len + 1
    BY <2>2
  <2>6. q \in [groups : Seq(Group), used : 0..G, len : Nat]
    BY <1>1, <2>2, <2>4
  <2>7. q.groups # <<>>
    BY <1>1, <2>4, <2>5, EmptySeq
  <2>8. q.len = (Len(q.groups) - 1) * G + q.used
    <3>. DEFINE m == Len(gs)
    <3>1. m \in Nat /\ (m = 0 => gs = <<>>) /\ (gs = <<>> => m = 0)
          /\ Len(q.groups) - 1 = m
      BY <1>1, <2>4, <2>5, EmptySeq
    <3>. HIDE DEF m
    <3>2. sk.len = m * G
      <4>1. CASE gs = <<>>
        BY <1>1, <3>1, <4>1, SMT
      <4>2. CASE gs # <<>>
        <5>1. sk.len = (m - 1) * G + G /\ m \in Nat \ {0}
          BY <1>1, <2>0, <3>1, <4>2 DEF m
        <5>2. (m - 1) * G + G = m * G
          BY <1>1, <5>1, SMT
        <5>. QED
          BY <5>1, <5>2
      <4>. QED
        BY <4>1, <4>2
    <3>. QED
      BY <2>5, <3>1, <3>2
  <2>9. Contents(q)[1] = e
    <3>1. 1 \in 1..q.len /\ 1 <= q.used /\ (q.used - 1) + 1 = 1
      BY <1>1, <2>5
    <3>2. Contents(q)[1] = ng[1][(q.used - 1) + 1]
      BY <2>5, <3>1 DEF Contents
    <3>. QED
      BY <2>1, <2>4, <3>1, <3>2
  <2>10. ASSUME NEW i \in 1..sk.len PROVE Contents(q)[i + 1] = Contents(sk)[i]
    <3>. DEFINE x == i - 1
    <3>1. /\ i + 1 \in 1..q.len /\ ~ (i + 1 <= q.used)
          /\ (i + 1) - q.used - 1 = x /\ x \in Nat
          /\ i = x + 1
      BY <1>1, <2>5
    <3>2. Contents(q)[i + 1] = ng[2 + (x \div G)][G - (x % G)]
      BY <2>5, <3>1 DEF Contents
    <3>3. CASE i <= sk.used
      <4>1. x < G /\ (sk.used - i) + 1 = G - x
        BY <1>1, <2>0, <3>1, <3>3
      <4>2. x \div G = 0 /\ x % G = x
        BY <1>1, <3>1, <4>1, DivModSmall
      <4>3. Contents(sk)[i] = gs[1][(sk.used - i) + 1]
        BY <3>3 DEF Contents
      <4>4. 1 \in 1..Len(gs)
        <5>1. gs # <<>>
          BY <1>1
        <5>. QED
          BY <1>1, <5>1
      <4>5. ng[2] = gs[1]
        <5>1. ng[1 + 1] = gs[1]
          BY <2>4, <4>4
        <5>. QED
          BY <5>1
      <4>. HIDE DEF x
      <4>6. Contents(q)[i + 1] = ng[2 + 0][G - x]
        BY <3>2, <4>2
      <4>. QED
        BY <4>1, <4>3, <4>5, <4>6
    <3>4. CASE ~ (i <= sk.used)
      <4>. DEFINE b == i - sk.used - 1
                  d == b \div G
      <4>1. x = b + G /\ b \in Nat
        BY <1>1, <2>0, <3>4
      <4>2. 2 + d \in 2..Len(gs)
        BY <3>4, BelowIn
      <4>3. Contents(sk)[i] = gs[2 + d][G - (b % G)]
        BY <3>4 DEF Contents
      <4>. HIDE DEF b, x
      <4>4. x \div G = d + 1 /\ x % G = b % G
        BY <1>1, <4>1, DivModNext
      <4>7. d \in Nat
        BY <1>1, <4>1, DivMod
      <4>. HIDE DEF d
      <4>5. /\ 2 + (d + 1) = (2 + d) + 1 /\ 2 + d \in 1..Len(gs)
        BY <1>1, <4>2, <4>7
      <4>6. ng[(2 + d) + 1] = gs[2 + d]
        BY <2>4, <4>5
      <4>. QED
        BY <3>2, <4>3, <4>4, <4>5, <4>6
    <3>. QED
      BY <3>3, <3>4
  <2>11. /\ q \in Stacks /\ q.len = sk.len + 1
         /\ Contents(q) = <<e>> \o Contents(sk)
    BY <2>5, <2>6, <2>7, <2>8, <2>9, <2>10, Pushed
  <2>. QED
    BY <2>11 DEF q
<1>. QED
  BY <1>2, <1>3

(* An empty head group makes no difference to what is in the stack.        *)
LEMMA ShrinkFacts ==
  ASSUME NEW sk \in Stacks, sk.len # 0
  PROVE  LET w == Shrink(sk)
         IN  /\ w \in [groups : Seq(Group), used : 1..GroupLength, len : Nat]
             /\ w.groups # <<>>
             /\ w.len = sk.len
             /\ w.len = (Len(w.groups) - 1) * GroupLength + w.used
             /\ \A i \in 1..sk.len : Contents(w)[i] = Contents(sk)[i]
<1>. DEFINE G == GroupLength
            gs == sk.groups
            w == Shrink(sk)
<1>1. /\ gs \in Seq(Group) /\ sk.used \in 0..G /\ sk.len \in Nat /\ G \in Nat \ {0}
      /\ gs # <<>>
      /\ sk.len = (Len(gs) - 1) * G + sk.used
      /\ Len(gs) \in Nat \ {0} /\ DOMAIN gs = 1..Len(gs)
      /\ sk = [groups |-> gs, used |-> sk.used, len |-> sk.len]
  BY GroupLengthAssumption, LenProperties, EmptySeq DEF Stacks
<1>2. CASE sk.used > 0
  <2>1. w = sk /\ sk.used \in 1..G
    BY <1>1, <1>2 DEF Shrink
  <2>. QED
    BY <1>1, <2>1
<1>3. CASE ~ (sk.used > 0)
  <2>0. sk.used = 0
    BY <1>1, <1>3
  <2>. DEFINE m == Len(gs) - 1
              ng == Tail(gs)
  <2>1. w = [groups |-> ng, used |-> G, len |-> sk.len]
    BY <1>1, <1>3 DEF Shrink
  <2>2. m \in Nat \ {0} /\ sk.len = m * G
    <3>1. m \in Nat /\ sk.len = m * G + 0
      BY <1>1, <2>0
    <3>. HIDE DEF m
    <3>2. m * G \in Nat /\ (m = 0 => m * G = 0)
      BY <1>1, <3>1, SMT
    <3>. QED
      BY <3>1, <3>2
  <2>3. /\ ng \in Seq(Group) /\ Len(ng) = m
        /\ \A j \in 1..m : ng[j] = gs[j + 1]
    BY <1>1, HeadTailProperties
  <2>4. Len(gs) = m + 1
    BY <1>1
  <2>. HIDE DEF ng, m, w
  <2>5. ng # <<>>
    BY <2>2, <2>3, EmptySeq
  <2>6. w.groups = ng /\ w.used = G /\ w.len = sk.len
    BY <2>1
  <2>7. (m - 1) * G + G = m * G
    BY <1>1, <2>2, SMT
  <2>8. w \in [groups : Seq(Group), used : 1..G, len : Nat]
    BY <1>1, <2>1, <2>3
  <2>9. w.len = (Len(w.groups) - 1) * G + w.used
    BY <2>2, <2>3, <2>6, <2>7
  <2>10. ASSUME NEW i \in 1..sk.len PROVE Contents(w)[i] = Contents(sk)[i]
    <3>. DEFINE x == i - 1
    <3>1. ~ (i <= sk.used) /\ i - sk.used - 1 = x /\ x \in Nat /\ i = x + 1
          /\ i \in 1..w.len
      BY <1>1, <2>0, <2>6
    <3>2. Contents(sk)[i] = gs[2 + (x \div G)][G - (x % G)]
      BY <3>1 DEF Contents
    <3>3. 2 + (x \div G) \in 2..Len(gs)
      <4>1. 2 + ((i - sk.used - 1) \div G) \in 2..Len(gs)
        BY <3>1, BelowIn
      <4>. QED
        BY <3>1, <4>1
    <3>. HIDE DEF x
    <3>4. CASE i <= G
      <4>1. x < G
        BY <1>1, <3>1, <3>4
      <4>2. x \div G = 0 /\ x % G = x
        BY <1>1, <3>1, <4>1, DivModSmall
      <4>3. (w.used - i) + 1 = G - x
        BY <1>1, <2>6, <3>1
      <4>4. Contents(w)[i] = ng[1][(w.used - i) + 1]
        BY <2>6, <3>1, <3>4 DEF Contents
      <4>5. ng[1] = gs[2]
        <5>1. 1 \in 1..m /\ 1 + 1 = 2
          BY <2>2
        <5>. QED
          BY <2>3, <5>1
      <4>6. Contents(sk)[i] = gs[2 + 0][G - x]
        BY <3>2, <4>2
      <4>. QED
        BY <4>3, <4>4, <4>5, <4>6
    <3>5. CASE ~ (i <= G)
      <4>. DEFINE b == i - G - 1
                  d == b \div G
      <4>1. b \in Nat /\ x = b + G /\ i - w.used - 1 = b /\ ~ (i <= w.used)
        BY <1>1, <2>6, <3>1, <3>5, SMTT(60)
      <4>2. Contents(w)[i] = ng[2 + d][G - (b % G)]
        BY <2>6, <3>1, <4>1 DEF Contents
      <4>. HIDE DEF b
      <4>3. d \in Nat
        BY <1>1, <4>1, DivMod
      <4>4. x \div G = d + 1 /\ x % G = b % G
        BY <1>1, <4>1, DivModNext
      <4>. HIDE DEF d
      <4>7. 2 + (d + 1) \in 2..(m + 1)
        BY <2>4, <3>3, <4>4
      <4>5. 2 + d \in 1..m /\ 2 + (d + 1) = (2 + d) + 1
        BY <2>2, <4>3, <4>7
      <4>6. ng[2 + d] = gs[(2 + d) + 1]
        BY <2>3, <4>5
      <4>. QED
        BY <3>2, <4>2, <4>4, <4>5, <4>6
    <3>. QED
      BY <3>4, <3>5
  <2>. QED
    BY <2>5, <2>6, <2>8, <2>9, <2>10 DEF w
<1>. QED
  BY <1>2, <1>3

LEMMA PullFacts ==
  ASSUME NEW sk \in Stacks, sk.len # 0
  PROVE  /\ Pull(sk) \in Stacks
         /\ Pull(sk).len = sk.len - 1
         /\ Top(sk) = Contents(sk)[1]
         /\ \A i \in 1..(sk.len - 1) : Contents(Pull(sk))[i] = Contents(sk)[i + 1]
<1>. DEFINE G == GroupLength
            w == Shrink(sk)
            gs == w.groups
            q == Pull(sk)
            n == sk.len
<1>1. /\ w \in [groups : Seq(Group), used : 1..G, len : Nat]
      /\ gs # <<>> /\ w.len = n
      /\ w.len = (Len(gs) - 1) * G + w.used
      /\ \A i \in 1..n : Contents(w)[i] = Contents(sk)[i]
  BY ShrinkFacts
<1>2. Contents(sk) \in Seq(Elem) /\ Len(Contents(sk)) = n /\ n \in Nat \ {0}
      /\ G \in Nat \ {0}
  BY ContentsTyped, GroupLengthAssumption
<1>3. Top(sk) = gs[1][w.used]
  <2>1. Top(sk) = Head(gs)[w.used]
    BY DEF Top
  <2>2. Head(gs) = gs[1]
    BY <1>1, PopFront
  <2>. QED
    BY <2>1, <2>2
<1>4. q = [groups |-> gs, used |-> w.used - 1, len |-> w.len - 1]
  BY DEF Pull
<1>. HIDE DEF w, q
<1>5. q.groups = gs /\ q.used = w.used - 1 /\ q.len = n - 1
  BY <1>1, <1>4
<1>12. w.used \in 1..G /\ w.used \in Int /\ w.len = n /\ gs \in Seq(Group)
  BY <1>1, <1>2
<1>6. Top(sk) = Contents(sk)[1]
  <2>1. 1 \in 1..n /\ 1 <= w.used /\ (w.used - 1) + 1 = w.used
    BY <1>1, <1>2
  <2>2. Contents(w)[1] = gs[1][(w.used - 1) + 1]
    BY <1>1, <2>1 DEF Contents
  <2>. QED
    BY <1>1, <1>3, <2>1, <2>2
<1>7. ASSUME NEW i \in 1..(n - 1) PROVE Contents(q)[i] = Contents(sk)[i + 1]
  <2>1. i \in 1..q.len /\ i + 1 \in 1..n /\ i + 1 \in 1..w.len
    BY <1>2, <1>5, <1>12
  <2>2. Contents(q)[i] = Contents(w)[i + 1]
    <3>1. CASE i <= q.used
      <4>1. i + 1 <= w.used /\ (q.used - i) + 1 = (w.used - (i + 1)) + 1
        BY <1>1, <1>5, <3>1
      <4>2. Contents(q)[i] = gs[1][(q.used - i) + 1]
        BY <1>5, <2>1, <3>1 DEF Contents
      <4>3. Contents(w)[i + 1] = gs[1][(w.used - (i + 1)) + 1]
        BY <2>1, <4>1 DEF Contents
      <4>. QED
        BY <4>1, <4>2, <4>3
    <3>2. CASE ~ (i <= q.used)
      <4>. DEFINE b == i - q.used - 1
      <4>1. ~ (i + 1 <= w.used) /\ (i + 1) - w.used - 1 = b
        BY <1>1, <1>5, <3>2
      <4>2. Contents(q)[i] = gs[2 + (b \div G)][G - (b % G)]
        BY <1>5, <2>1, <3>2 DEF Contents
      <4>3. Contents(w)[i + 1] = gs[2 + (b \div G)][G - (b % G)]
        BY <2>1, <4>1 DEF Contents
      <4>. QED
        BY <4>2, <4>3
    <3>. QED
      BY <3>1, <3>2
  <2>. QED
    BY <1>1, <2>1, <2>2
<1>8. Contents(q) \in Seq(Elem)
  <2>1. \A i \in 1..(n - 1) : i + 1 \in 1..n
    BY <1>2
  <2>2. \A i \in 1..q.len : Contents(q)[i] \in Elem
    BY <1>2, <1>5, <1>7, <2>1, ElementOfSeq
  <2>3. q.len \in Nat
    BY <1>2, <1>5
  <2>. QED
    BY <2>2, <2>3, ContentsSeq
<1>9. q \in [groups : Seq(Group), used : 0..G, len : Nat]
  BY <1>1, <1>2, <1>4
<1>10. q.len = (Len(q.groups) - 1) * G + q.used
  <2>. DEFINE b == (Len(gs) - 1) * G
  <2>1. Len(gs) \in Nat
    BY <1>1, LenProperties
  <2>2. b \in Int /\ n = b + w.used
    BY <1>1, <1>2, <2>1
  <2>. HIDE DEF b
  <2>3. n - 1 = b + (w.used - 1)
    BY <1>12, <2>2
  <2>. QED
    BY <1>5, <2>3 DEF b
<1>11. q \in Stacks
  BY <1>1, <1>5, <1>8, <1>9, <1>10 DEF Stacks
<1>. QED
  BY <1>5, <1>6, <1>7, <1>11 DEF q

-----------------------------------------------------------------------------
(* Pushes of many.                                                         *)

PushedInSteps(sk, s, S) ==
  \E f \in [0..Len(s) -> Stacks] :
    /\ f[0] = sk
    /\ \A i \in 1..Len(s) :
         f[i] = IF s[i] \in S THEN Push(f[i - 1], s[i]) ELSE f[i - 1]
    /\ PushThose(sk, s, S) = f[Len(s)]

LEMMA PushThoseUnfolds ==
  ASSUME NEW sk \in Stacks, NEW s \in Seq(Elem), NEW S
  PROVE  PushedInSteps(sk, s, S)
<1>. DEFINE n == Len(s)
            Do(q, i) == IF s[i] \in S THEN Push(q, s[i]) ELSE q
            step == [p \in (1..n) \X Stacks |-> Do(p[2], p[1])]
            Body(f) == [i \in 0..n |->
                          IF i = 0 THEN sk
                          ELSE IF s[i] \in S THEN Push(f[i - 1], s[i]) ELSE f[i - 1]]
            pushed == CHOOSE f : f = Body(f)
<1>1. n \in Nat
  BY LenProperties
<1>2. ASSUME NEW i \in 1..n, NEW q \in Stacks PROVE Do(q, i) \in Stacks
  BY ElementOfSeq, PushFacts
<1>3. PushThose(sk, s, S) = pushed[n]
  BY DEF PushThose
<1>4. \A f : Body(f) = [i \in 0..n |-> IF i = 0 THEN sk ELSE Do(f[i - 1], i)]
  OBVIOUS
<1>. HIDE DEF Do, n, Body
<1>5. step \in [(1..n) \X Stacks -> Stacks]
  BY <1>2
<1>6. PICK g \in [0..n -> Stacks] :
        g[0] = sk /\ \A i \in 1..n : g[i] = step[<<i, g[i - 1]>>]
  <2>. HIDE DEF step, pushed
  <2>1. Computable(n, Stacks, sk, step)
    BY <1>1, <1>5, Recursion
  <2>. QED
    BY <2>1 DEF Computable
<1>7. ASSUME NEW i \in 1..n PROVE g[i] = Do(g[i - 1], i)
  <2>1. i - 1 \in 0..n /\ g[i - 1] \in Stacks
    <3>. HIDE DEF step, pushed
    <3>1. i - 1 \in 0..n
      BY <1>1
    <3>. QED
      BY <3>1, <1>6
  <2>2. <<i, g[i - 1]>> \in (1..n) \X Stacks
    BY <2>1
  <2>3. g[i] = step[<<i, g[i - 1]>>]
    BY <1>6
  <2>. QED
    BY <2>2, <2>3
<1>. HIDE DEF step
<1>8. g = Body(g)
  <2>. DEFINE b == [i \in 0..n |-> IF i = 0 THEN sk ELSE Do(g[i - 1], i)]
  <2>1. ASSUME NEW i \in 0..n PROVE g[i] = b[i]
    <3>1. CASE i = 0
      BY <3>1, <1>6
    <3>2. CASE i # 0
      <4>1. i \in 1..n
        BY <3>2, <1>1
      <4>. QED
        BY <3>2, <4>1, <1>7
    <3>. QED
      BY <3>1, <3>2
  <2>2. b = [i \in 0..n |-> b[i]] /\ Body(g) = b
    BY <1>4
  <2>3. g = [i \in 0..n |-> g[i]]
    OBVIOUS
  <2>. HIDE DEF b
  <2>. QED
    BY <2>1, <2>2, <2>3
<1>9. pushed = Body(pushed)
  BY <1>8
<1>. HIDE DEF pushed
<1>10. pushed = [i \in 0..n |-> IF i = 0 THEN sk ELSE Do(pushed[i - 1], i)]
  BY <1>4, <1>9
<1>11. /\ DOMAIN pushed = 0..n
       /\ pushed[0] = sk
       /\ \A i \in 1..n : pushed[i] = Do(pushed[i - 1], i)
  <2>1. 0 \in 0..n /\ \A i \in 1..n : i \in 0..n /\ i # 0
    BY <1>1
  <2>. QED
    BY <1>10, <2>1
<1>. DEFINE P == {i \in Nat : i <= n => pushed[i] \in Stacks}
<1>12. Nat \subseteq P
  <2>1. 0 \in P
    BY <1>11
  <2>2. ASSUME NEW i \in Nat, i \in P PROVE i + 1 \in P
    <3>. SUFFICES ASSUME i + 1 <= n PROVE pushed[i + 1] \in Stacks
      OBVIOUS
    <3>1. i + 1 \in 1..n /\ (i + 1) - 1 = i /\ pushed[i] \in Stacks
      BY <1>1, <2>2
    <3>2. pushed[i + 1] = Do(pushed[i], i + 1)
      BY <1>11, <3>1
    <3>. QED
      BY <1>2, <3>1, <3>2
  <2>. HIDE DEF P
  <2>. QED
    BY <2>1, <2>2, SetInduction
<1>13. pushed \in [0..n -> Stacks]
  <2>1. \A i \in 0..n : pushed[i] \in Stacks
    BY <1>1, <1>12
  <2>. QED
    BY <1>10, <1>11, <2>1
<1>. QED
  BY <1>3, <1>11, <1>13 DEF PushedInSteps, Do, n

LEMMA PushThoseFacts ==
  ASSUME NEW sk \in Stacks, NEW s \in Seq(Elem), NEW S
  PROVE  /\ PushThose(sk, s, S) \in Stacks
         /\ Contents(PushThose(sk, s, S)) = Reverse(Kept(s, S)) \o Contents(sk)
<1>. DEFINE n == Len(s)
            c == Contents(sk)
<1>1. n \in Nat /\ c \in Seq(Elem) /\ \A i \in 1..n : s[i] \in Elem
  BY ContentsTyped, LenProperties, ElementOfSeq
<1>2. PICK f \in [0..n -> Stacks] :
        /\ f[0] = sk
        /\ \A i \in 1..n : f[i] = IF s[i] \in S THEN Push(f[i - 1], s[i]) ELSE f[i - 1]
        /\ PushThose(sk, s, S) = f[n]
  <2>1. PushedInSteps(sk, s, S)
    BY PushThoseUnfolds
  <2>. QED
    BY <2>1 DEF PushedInSteps
<1>3. PICK k \in [0..n -> Seq(Elem)] :
        /\ k[0] = <<>>
        /\ \A i \in 1..n : k[i] = IF s[i] \in S THEN Append(k[i - 1], s[i]) ELSE k[i - 1]
        /\ Kept(s, S) = k[n]
  <2>1. KeptInSteps(s, S, Elem)
    BY KeptUnfolds
  <2>. QED
    BY <2>1 DEF KeptInSteps
<1>. HIDE DEF n
<1>. DEFINE P == {i \in Nat : i <= n => Contents(f[i]) = Reverse(k[i]) \o c}
<1>4. 0 \in P
  BY <1>1, <1>2, <1>3, BackwardsEmpty, ConcatEmptySeq
<1>5. ASSUME NEW i \in Nat, i \in P PROVE i + 1 \in P
  <2>. SUFFICES ASSUME i + 1 <= n PROVE Contents(f[i + 1]) = Reverse(k[i + 1]) \o c
    OBVIOUS
  <2>. DEFINE e == s[i + 1]
              t == <<e>>
              r == Reverse(k[i])
  <2>1. /\ i + 1 \in 1..n /\ i \in 0..n /\ (i + 1) - 1 = i
        /\ Contents(f[i]) = r \o c
    BY <1>1, <1>5
  <2>2. f[i] \in Stacks /\ k[i] \in Seq(Elem) /\ e \in Elem
    BY <1>1, <1>2, <1>3, <2>1
  <2>3. /\ f[i + 1] = IF e \in S THEN Push(f[i], e) ELSE f[i]
        /\ k[i + 1] = IF e \in S THEN Append(k[i], e) ELSE k[i]
    BY <1>2, <1>3, <2>1
  <2>4. CASE e \in S
    <3>1. Contents(f[i + 1]) = t \o (r \o c)
      BY <2>1, <2>2, <2>3, <2>4, PushFacts
    <3>2. Reverse(k[i + 1]) = t \o r
      BY <2>2, <2>3, <2>4, BackwardsAppend
    <3>3. r \in Seq(Elem) /\ t \in Seq(Elem)
      BY <2>2, Backwards
    <3>. HIDE DEF r, t, c
    <3>4. (t \o r) \o c = t \o (r \o c)
      <4>1. \A x \in Seq(Elem), y \in Seq(Elem), z \in Seq(Elem) :
              (x \o y) \o z = x \o (y \o z)
        BY ConcatThree, SMTT(60)
      <4>. QED
        BY <1>1, <3>3, <4>1
    <3>. QED
      BY <3>1, <3>2, <3>4
  <2>5. CASE e \notin S
    BY <2>1, <2>3, <2>5
  <2>. QED
    BY <2>4, <2>5
<1>6. Contents(f[n]) = Reverse(k[n]) \o c
  <2>. HIDE DEF P
  <2>1. Nat \subseteq P
    BY <1>4, <1>5, SetInduction
  <2>. QED
    BY <1>1, <2>1 DEF P
<1>7. f[n] \in Stacks
  BY <1>1
<1>. QED
  BY <1>2, <1>3, <1>6, <1>7

LEMMA InRange ==
  ASSUME NEW R, NEW s \in Seq(R), NEW i \in 1..Len(s)
  PROVE  s[i] \in Range(s) /\ s[i] \in R
BY LenProperties, ElementOfSeq DEF Range

LEMMA PushManyFacts ==
  ASSUME NEW sk \in Stacks, NEW s \in Seq(Elem)
  PROVE  /\ PushMany(sk, s) \in Stacks
         /\ Contents(PushMany(sk, s)) = Reverse(s) \o Contents(sk)
<1>1. Kept(s, Range(s)) = s
  BY InRange, KeptAll
<1>. QED
  BY <1>1, PushThoseFacts DEF PushMany

LEMMA PushManyReverseFacts ==
  ASSUME NEW sk \in Stacks, NEW s \in Seq(Elem)
  PROVE  /\ PushManyReverse(sk, s) \in Stacks
         /\ Contents(PushManyReverse(sk, s)) = s \o Contents(sk)
<1>1. Reverse(s) \in Seq(Elem) /\ Reverse(Reverse(s)) = s
  BY Backwards
<1>. QED
  BY <1>1, PushManyFacts DEF PushManyReverse

LEMMA PushManyNonNullFacts ==
  ASSUME NEW sk \in Stacks, NEW s \in Seq(Elem)
  PROVE  /\ PushManyNonNull(sk, s, Null) \in Stacks
         /\ Contents(PushManyNonNull(sk, s, Null)) =
              Reverse(Kept(s, Elem \ {Null})) \o Contents(sk)
<1>. DEFINE A == Range(s) \ {Null}
            B == Elem \ {Null}
<1>1. \A i \in 1..Len(s) : s[i] \in A <=> s[i] \in B
  BY InRange
<1>. HIDE DEF A, B
<1>2. Kept(s, A) = Kept(s, B)
  BY <1>1, KeptSame
<1>3. /\ PushThose(sk, s, A) \in Stacks
      /\ Contents(PushThose(sk, s, A)) = Reverse(Kept(s, A)) \o Contents(sk)
  BY PushThoseFacts
<1>. QED
  BY <1>2, <1>3 DEF PushManyNonNull, A, B

-----------------------------------------------------------------------------
(* Pulls of all that there is.                                             *)

(* One pull after the other, as long as there is something to pull.        *)
LEMMA Pulls ==
  ASSUME NEW sk \in Stacks, NEW h, h[0] = sk,
         \A i \in 1..sk.len :
           h[i - 1] \in Stacks /\ h[i - 1].len # 0 => h[i] = Pull(h[i - 1])
  PROVE  \A i \in 0..sk.len :
           /\ h[i] \in Stacks
           /\ h[i].len = sk.len - i
           /\ \A j \in 1..(sk.len - i) : Contents(h[i])[j] = Contents(sk)[i + j]
<1>. DEFINE n == sk.len
            c == Contents(sk)
            Good(i) == /\ h[i] \in Stacks
                       /\ h[i].len = n - i
                       /\ \A j \in 1..(n - i) : Contents(h[i])[j] = c[i + j]
            P == {i \in Nat : i <= n => Good(i)}
<1>1. n \in Nat
  BY ContentsTyped
<1>. HIDE DEF c
<1>2. 0 \in P
  <2>1. n - 0 = n /\ \A j \in 1..n : 0 + j = j
    BY <1>1
  <2>. QED
    BY <2>1 DEF c
<1>3. ASSUME NEW i \in Nat, i \in P PROVE i + 1 \in P
  <2>. SUFFICES ASSUME i + 1 <= n PROVE Good(i + 1)
    OBVIOUS
  <2>1. i + 1 \in 1..n /\ (i + 1) - 1 = i /\ Good(i) /\ n - i # 0
        /\ (n - i) - 1 = n - (i + 1)
    BY <1>1, <1>3
  <2>2. h[i + 1] = Pull(h[i])
    BY <2>1
  <2>3. /\ Pull(h[i]) \in Stacks
        /\ Pull(h[i]).len = h[i].len - 1
        /\ \A j \in 1..(h[i].len - 1) : Contents(Pull(h[i]))[j] = Contents(h[i])[j + 1]
    BY <2>1, PullFacts
  <2>4. ASSUME NEW j \in 1..(n - (i + 1)) PROVE Contents(h[i + 1])[j] = c[(i + 1) + j]
    <3>1. j \in 1..(h[i].len - 1) /\ j + 1 \in 1..(n - i) /\ i + (j + 1) = (i + 1) + j
      BY <1>1, <2>1
    <3>2. Contents(h[i])[j + 1] = c[i + (j + 1)]
      BY <2>1, <3>1
    <3>. QED
      BY <2>2, <2>3, <3>1, <3>2
  <2>. QED
    BY <2>1, <2>2, <2>3, <2>4
<1>4. \A i \in 0..n : Good(i)
  <2>. HIDE DEF P
  <2>1. Nat \subseteq P
    BY <1>2, <1>3, SetInduction
  <2>2. \A i \in 0..n : i \in Nat /\ i <= n
    BY <1>1
  <2>. QED
    BY <2>1, <2>2 DEF P
<1>. QED
  BY <1>4 DEF c

LEMMA PullAllFacts ==
  ASSUME NEW sk \in Stacks
  PROVE  /\ PullAll(sk).elms = Contents(sk)
         /\ PullAll(sk).rest \in Stacks
         /\ PullAll(sk).rest.len = 0
         /\ Contents(PullAll(sk).rest) = <<>>
<1>. DEFINE n == sk.len
            Do(q) == IF q.len # 0 THEN Pull(q) ELSE q
            step == [p \in (1..n) \X Stacks |-> Do(p[2])]
            Body(f) == [i \in 0..n |-> IF i = 0 THEN sk ELSE Pull(f[i - 1])]
            after == CHOOSE f : f = Body(f)
<1>1. n \in Nat /\ Contents(sk) \in Seq(Elem) /\ Len(Contents(sk)) = n
  BY ContentsTyped
<1>2. ASSUME NEW q \in Stacks PROVE Do(q) \in Stacks
  BY PullFacts
<1>3. PullAll(sk) = [elms |-> [i \in 1..n |-> Top(after[i - 1])], rest |-> after[n]]
  BY DEF PullAll
<1>. HIDE DEF Body
<1>4. step \in [(1..n) \X Stacks -> Stacks]
  <2>. HIDE DEF Do
  <2>. QED
    BY <1>2
<1>5. PICK g \in [0..n -> Stacks] :
        g[0] = sk /\ \A i \in 1..n : g[i] = step[<<i, g[i - 1]>>]
  <2>. HIDE DEF step, n, after
  <2>1. Computable(n, Stacks, sk, step)
    BY <1>1, <1>4, Recursion
  <2>. QED
    BY <2>1 DEF Computable
<1>. HIDE DEF after, n
<1>6. ASSUME NEW i \in 1..n PROVE g[i] = Do(g[i - 1])
  <2>1. i - 1 \in 0..n /\ g[i - 1] \in Stacks
    <3>. HIDE DEF step
    <3>1. i - 1 \in 0..n
      BY <1>1
    <3>. QED
      BY <3>1, <1>5
  <2>2. <<i, g[i - 1]>> \in (1..n) \X Stacks
    BY <2>1
  <2>3. g[i] = step[<<i, g[i - 1]>>]
    BY <1>5
  <2>. QED
    BY <2>2, <2>3
<1>. HIDE DEF step
<1>7. ASSUME NEW i \in 1..n PROVE g[i] = Pull(g[i - 1])
  <2>1. \A j \in 0..sk.len : g[j].len = sk.len - j
    BY <1>5, <1>6, Pulls, ZenonT(60) DEF n
  <2>2. i - 1 \in 0..n /\ n - (i - 1) # 0
    BY <1>1
  <2>3. g[i - 1].len # 0
    BY <2>1, <2>2 DEF n
  <2>. QED
    BY <1>6, <2>3
<1>. HIDE DEF Do
<1>8. g = Body(g)
  <2>. DEFINE b == [i \in 0..n |-> IF i = 0 THEN sk ELSE Pull(g[i - 1])]
  <2>1. ASSUME NEW i \in 0..n PROVE g[i] = b[i]
    <3>1. CASE i = 0
      BY <3>1, <1>5
    <3>2. CASE i # 0
      <4>1. i \in 1..n
        BY <3>2, <1>1
      <4>. QED
        BY <3>2, <4>1, <1>7
    <3>. QED
      BY <3>1, <3>2
  <2>2. b = [i \in 0..n |-> b[i]] /\ Body(g) = b
    BY DEF Body
  <2>3. g = [i \in 0..n |-> g[i]]
    OBVIOUS
  <2>. HIDE DEF b
  <2>. QED
    BY <2>1, <2>2, <2>3
<1>9. after = Body(after)
  BY <1>8 DEF after
<1>10. after[0] = sk /\ \A i \in 1..n : after[i] = Pull(after[i - 1])
  <2>1. 0 \in 0..n /\ \A i \in 1..n : i \in 0..n /\ i # 0
    BY <1>1
  <2>. QED
    BY <1>9, <2>1 DEF Body
<1>11. \A i \in 0..n :
         /\ after[i] \in Stacks
         /\ after[i].len = n - i
         /\ \A j \in 1..(n - i) : Contents(after[i])[j] = Contents(sk)[i + j]
  BY <1>10, Pulls DEF n
<1>12. ASSUME NEW i \in 1..n PROVE Top(after[i - 1]) = Contents(sk)[i]
  <2>1. /\ i - 1 \in 0..n /\ n - (i - 1) # 0 /\ 1 \in 1..(n - (i - 1))
        /\ (i - 1) + 1 = i
    BY <1>1
  <2>2. after[i - 1] \in Stacks /\ after[i - 1].len # 0
    BY <1>11, <2>1
  <2>3. Top(after[i - 1]) = Contents(after[i - 1])[1]
    BY <2>2, PullFacts
  <2>4. Contents(after[i - 1])[1] = Contents(sk)[(i - 1) + 1]
    BY <1>11, <2>1
  <2>. QED
    BY <2>1, <2>3, <2>4
<1>13. PullAll(sk).elms = Contents(sk)
  <2>1. PullAll(sk).elms = [i \in 1..n |-> Top(after[i - 1])]
    BY <1>3
  <2>2. Contents(sk) = [i \in 1..n |-> Contents(sk)[i]]
    BY DEF Contents, n
  <2>. QED
    BY <1>12, <2>1, <2>2
<1>14. after[n] \in Stacks /\ after[n].len = 0
  BY <1>1, <1>11
<1>15. Contents(after[n]) = <<>>
  BY <1>14, ContentsTyped, EmptySeq
<1>. QED
  BY <1>3, <1>13, <1>14, <1>15

LEMMA DeleteAllFacts ==
  ASSUME NEW sk \in Stacks, NEW e
  PROVE  /\ DeleteAll(sk, e) \in Stacks
         /\ Contents(DeleteAll(sk, e)) = Kept(Contents(sk), Elem \ {e})
<1>. DEFINE c == Contents(sk)
            A == Range(c) \ {e}
            B == Elem \ {e}
            r == PullAll(sk).rest
            k == Kept(c, B)
<1>1. c \in Seq(Elem)
  BY ContentsTyped
<1>2. Kept(c, A) = Kept(c, B)
  <2>. HIDE DEF c
  <2>1. \A i \in 1..Len(c) : c[i] \in A <=> c[i] \in B
    BY <1>1, InRange
  <2>. HIDE DEF A, B
  <2>. QED
    BY <1>1, <2>1, KeptSame
<1>3. k \in Seq(Elem)
  BY <1>1, KeptRange
<1>4. DeleteAll(sk, e) = PushManyReverse(r, k)
  BY <1>2, PullAllFacts DEF DeleteAll
<1>5. r \in Stacks /\ Contents(r) = <<>>
  BY PullAllFacts
<1>. HIDE DEF k, r
<1>6. /\ PushManyReverse(r, k) \in Stacks
      /\ Contents(PushManyReverse(r, k)) = k \o Contents(r)
  BY <1>3, <1>5, PushManyReverseFacts
<1>7. k \o <<>> = k
  BY <1>3, ConcatEmptySeq
<1>. QED
  BY <1>4, <1>5, <1>6, <1>7 DEF k

-----------------------------------------------------------------------------
(* Pulls from the queue.                                                   *)

Queues == [inp : Stacks, out : Stacks, got : Seq(Elem)]
Items(qu) == Contents(qu.out) \o Reverse(Contents(qu.inp))

LEMMA ItemsTyped ==
  ASSUME NEW a \in Stacks, NEW b \in Stacks
  PROVE  /\ Contents(a) \o Reverse(Contents(b)) \in Seq(Elem)
         /\ Len(Contents(a) \o Reverse(Contents(b))) = a.len + b.len
         /\ a.len \in Nat /\ b.len \in Nat
<1>. DEFINE c == Contents(a)
            d == Reverse(Contents(b))
<1>1. c \in Seq(Elem) /\ Len(c) = a.len /\ a.len \in Nat /\ b.len \in Nat
  BY ContentsTyped
<1>2. d \in Seq(Elem) /\ Len(d) = b.len
  BY ContentsTyped, Backwards
<1>. HIDE DEF c, d
<1>3. \A x \in Seq(Elem), y \in Seq(Elem) :
        x \o y \in Seq(Elem) /\ Len(x \o y) = Len(x) + Len(y)
  BY ConcatProperties
<1>4. c \o d \in Seq(Elem) /\ Len(c \o d) = a.len + b.len
  BY <1>1, <1>2, <1>3
<1>. QED
  BY <1>1, <1>4 DEF c, d

LEMMA RefillFacts ==
  ASSUME NEW qu \in Queues, Items(qu) # <<>>
  PROVE  LET full == Refill(qu)
         IN  /\ full.inp \in Stacks /\ full.out \in Stacks /\ full.out.len # 0
             /\ Items(full) = Items(qu)
<1>. DEFINE full == Refill(qu)
            all == PullAll(qu.inp)
            c == Contents(qu.inp)
<1>1. qu.inp \in Stacks /\ qu.out \in Stacks /\ qu.out.len \in Nat
  BY ContentsTyped DEF Queues
<1>2. CASE qu.out.len > 0
  BY <1>1, <1>2 DEF Refill, Sense
<1>3. CASE ~ (qu.out.len > 0)
  <2>1. qu.out.len = 0
    BY <1>1, <1>3
  <2>2. Contents(qu.out) = <<>>
    BY <1>1, <2>1, ContentsTyped, EmptySeq
  <2>3. all.elms = c /\ all.rest \in Stacks /\ Contents(all.rest) = <<>>
    BY <1>1, PullAllFacts
  <2>4. c \in Seq(Elem)
    BY <1>1, ContentsTyped
  <2>5. full = [inp |-> all.rest, out |-> PushMany(qu.out, all.elms), got |-> qu.got]
    BY <1>3 DEF Refill, Sense, Queues
  <2>. HIDE DEF c, all, full
  <2>6. /\ PushMany(qu.out, c) \in Stacks
        /\ Contents(PushMany(qu.out, c)) = Reverse(c) \o Contents(qu.out)
    BY <1>1, <2>4, PushManyFacts
  <2>7. Reverse(c) \in Seq(Elem) /\ <<>> \o Reverse(c) = Reverse(c)
        /\ Reverse(c) \o <<>> = Reverse(c)
    BY <2>4, Backwards, ConcatEmptySeq
  <2>8. full.inp = all.rest /\ full.out = PushMany(qu.out, c)
    BY <2>3, <2>5
  <2>9. Items(qu) = Reverse(c)
    BY <2>2, <2>7 DEF Items, c
  <2>10. Contents(full.out) = Reverse(c)
    BY <2>2, <2>6, <2>7, <2>8
  <2>11. Items(full) = Reverse(c)
    BY <2>3, <2>7, <2>8, <2>10, BackwardsEmpty DEF Items
  <2>12. full.out.len # 0
    <3>1. full.out \in Stacks
      BY <2>6, <2>8
    <3>2. full.out.len = 0 => Contents(full.out) = <<>>
      BY <3>1, ContentsTyped, EmptySeq
    <3>. QED
      BY <2>9, <2>10, <3>2
  <2>. QED
    BY <2>3, <2>6, <2>8, <2>9, <2>11, <2>12 DEF full
<1>. QED
  BY <1>2, <1>3

LEMMA ConcatAt ==
  ASSUME NEW R, NEW x \in Seq(R), NEW y \in Seq(R), NEW m, NEW n,
         Len(x) = m, Len(y) = n
  PROVE  /\ Len(x \o y) = m + n
         /\ \A i \in 1..(m + n) : (x \o y)[i] = IF i <= m THEN x[i] ELSE y[i - m]
BY ConcatProperties

LEMMA PullOneFacts ==
  ASSUME NEW qu \in Queues, Items(qu) # <<>>
  PROVE  LET q == PullOne(qu)
         IN  /\ q \in Queues
             /\ q.got = Append(qu.got, Items(qu)[1])
             /\ Len(Items(q)) = Len(Items(qu)) - 1
             /\ \A j \in 1..(Len(Items(qu)) - 1) : Items(q)[j] = Items(qu)[j + 1]
<1>. DEFINE full == Refill(qu)
            q == PullOne(qu)
            a == Contents(full.out)
            b == Contents(q.out)
            d == Reverse(Contents(full.inp))
<1>1. /\ full.inp \in Stacks /\ full.out \in Stacks /\ full.out.len # 0
      /\ Items(full) = Items(qu)
  BY RefillFacts
<1>2. /\ q.inp = full.inp /\ q.out = Pull(full.out)
      /\ q.got = Append(qu.got, Top(full.out))
      /\ q = [inp |-> q.inp, out |-> q.out, got |-> q.got]
  BY DEF PullOne
<1>. HIDE DEF q, full
<1>3. /\ q.out \in Stacks
      /\ q.out.len = full.out.len - 1
      /\ Top(full.out) = a[1]
      /\ \A i \in 1..(full.out.len - 1) : b[i] = a[i + 1]
  BY <1>1, <1>2, PullFacts
<1>4. /\ a \in Seq(Elem) /\ Len(a) = full.out.len /\ full.out.len \in Nat \ {0}
      /\ b \in Seq(Elem) /\ Len(b) = full.out.len - 1
  BY <1>1, <1>3, ContentsTyped
<1>5. d \in Seq(Elem) /\ Len(d) \in Nat
  BY <1>1, ContentsTyped, Backwards, LenProperties
<1>6. Items(qu) = a \o d /\ Items(q) = b \o d
  BY <1>1, <1>2 DEF Items
<1>. DEFINE m == full.out.len
            n == Len(d)
<1>. HIDE DEF a, b, d
<1>10. m \in Nat \ {0} /\ n \in Nat /\ Len(a) = m /\ Len(b) = m - 1 /\ Len(d) = n
  BY <1>4, <1>5
<1>. HIDE DEF m, n
<1>8. /\ Len(a \o d) = m + n
      /\ \A i \in 1..(m + n) : (a \o d)[i] = IF i <= m THEN a[i] ELSE d[i - m]
  BY <1>4, <1>5, <1>10, ConcatAt
<1>9. /\ Len(b \o d) = (m - 1) + n
      /\ \A i \in 1..((m - 1) + n) :
           (b \o d)[i] = IF i <= m - 1 THEN b[i] ELSE d[i - (m - 1)]
  <2>. DEFINE k == m - 1
  <2>1. Len(b) = k
    BY <1>10
  <2>. HIDE DEF k
  <2>2. /\ Len(b \o d) = k + n
        /\ \A i \in 1..(k + n) : (b \o d)[i] = IF i <= k THEN b[i] ELSE d[i - k]
    BY <1>4, <1>5, <1>10, <2>1, ConcatAt
  <2>. QED
    BY <2>2 DEF k
<1>11. Top(full.out) = (a \o d)[1]
  <2>1. 1 \in 1..(m + n) /\ 1 <= m
    BY <1>10
  <2>. QED
    BY <1>3, <1>8, <2>1
<1>12. ASSUME NEW j \in 1..((m + n) - 1) PROVE (b \o d)[j] = (a \o d)[j + 1]
  <2>1. j \in 1..((m - 1) + n) /\ j + 1 \in 1..(m + n)
    BY <1>10
  <2>2. CASE j <= m - 1
    <3>1. j + 1 <= m /\ j \in 1..(m - 1)
      BY <1>10, <2>2
    <3>2. b[j] = a[j + 1]
      BY <1>3, <3>1 DEF m
    <3>. QED
      BY <1>8, <1>9, <2>1, <2>2, <3>1, <3>2
  <2>3. CASE ~ (j <= m - 1)
    <3>1. ~ (j + 1 <= m) /\ (j + 1) - m = j - (m - 1)
      BY <1>10, <2>3
    <3>. QED
      BY <1>8, <1>9, <2>1, <2>3, <3>1
  <2>. QED
    BY <2>2, <2>3
<1>13. Top(full.out) \in Elem /\ qu.got \in Seq(Elem)
  <2>1. 1 \in 1..Len(a)
    BY <1>4
  <2>. QED
    BY <1>3, <1>4, <2>1, ElementOfSeq DEF Queues
<1>14. q \in Queues
  <2>1. Append(qu.got, Top(full.out)) \in Seq(Elem)
    BY <1>13, AppendProperties
  <2>. QED
    BY <1>1, <1>2, <1>3, <2>1 DEF Queues
<1>15. (m - 1) + n = (m + n) - 1
  BY <1>10
<1>. QED
  BY <1>2, <1>6, <1>8, <1>9, <1>11, <1>12, <1>14, <1>15 DEF q

(* A number of pulls that the queue can serve.                             *)
PullsOn(h, many) ==
  \A i \in 1..many :
    h[i - 1] \in Queues /\ Items(h[i - 1]) # <<>> => h[i] = PullOne(h[i - 1])

(* What those pulls leave and what they give.                              *)
PullsRight(h, first, many) ==
  \A i \in 0..many :
    /\ h[i] \in Queues
    /\ Len(Items(h[i])) = Len(Items(first)) - i
    /\ \A j \in 1..(Len(Items(first)) - i) : Items(h[i])[j] = Items(first)[i + j]
    /\ Len(h[i].got) = i
    /\ \A j \in 1..i : h[i].got[j] = Items(first)[j]

(* A queue that holds enough serves its elements in their order.           *)
LEMMA QueuePulls ==
  ASSUME NEW first \in Queues, first.got = <<>>, NEW many \in Nat, many <= Len(Items(first)),
         NEW h, h[0] = first, PullsOn(h, many)
  PROVE  PullsRight(h, first, many)
<1>. DEFINE held == Items(first)
            l == Len(held)
            Left(i) == /\ Len(Items(h[i])) = l - i
                       /\ \A j \in 1..(l - i) : Items(h[i])[j] = held[i + j]
            Got(i) == Len(h[i].got) = i /\ \A j \in 1..i : h[i].got[j] = held[j]
            Good(i) == h[i] \in Queues /\ Left(i) /\ Got(i)
            P == {i \in Nat : i <= many => Good(i)}
<1>1. held \in Seq(Elem) /\ l \in Nat
  BY ItemsTyped, LenProperties DEF Items, Queues
<1>5. many <= l /\ l = Len(held)
  OBVIOUS
<1>. HIDE DEF held, l
<1>2. 0 \in P
  <2>1. l - 0 = l /\ \A j \in 1..l : 0 + j = j
    BY <1>1
  <2>2. Left(0)
    BY <2>1 DEF held, l
  <2>3. Got(0)
    BY EmptySeq
  <2>. QED
    BY <2>2, <2>3
<1>3. ASSUME NEW i \in Nat, i \in P PROVE i + 1 \in P
  <2>. SUFFICES ASSUME i + 1 <= many PROVE Good(i + 1)
    OBVIOUS
  <2>. DEFINE u == h[i]
              v == h[i + 1]
  <2>1. i + 1 \in 1..many /\ (i + 1) - 1 = i /\ i <= many
    OBVIOUS
  <2>2. u \in Queues /\ Left(i) /\ Got(i)
    BY <1>3, <2>1
  <2>3. l - i \in Nat \ {0} /\ (l - i) - 1 = l - (i + 1)
    BY <1>1, <1>5, <2>1
  <2>4. Items(u) # <<>>
    BY <2>2, <2>3, EmptySeq
  <2>5. v = PullOne(u)
    BY <2>1, <2>2, <2>4 DEF PullsOn
  <2>9. LET q == PullOne(u)
        IN  /\ q \in Queues
            /\ q.got = Append(u.got, Items(u)[1])
            /\ Len(Items(q)) = Len(Items(u)) - 1
            /\ \A j \in 1..(Len(Items(u)) - 1) : Items(q)[j] = Items(u)[j + 1]
    BY <2>2, <2>4, PullOneFacts
  <2>6. /\ v \in Queues
        /\ v.got = Append(u.got, Items(u)[1])
        /\ Len(Items(v)) = Len(Items(u)) - 1
        /\ \A j \in 1..(Len(Items(u)) - 1) : Items(v)[j] = Items(u)[j + 1]
    BY <2>5, <2>9
  <2>7. Left(i + 1)
    <3>1. Len(Items(v)) = l - (i + 1)
      BY <2>2, <2>3, <2>6
    <3>2. ASSUME NEW j \in 1..(l - (i + 1)) PROVE Items(v)[j] = held[(i + 1) + j]
      <4>1. j \in 1..((l - i) - 1) /\ j + 1 \in 1..(l - i) /\ i + (j + 1) = (i + 1) + j
        BY <1>1, <2>3
      <4>2. Items(v)[j] = Items(u)[j + 1]
        BY <2>2, <2>6, <4>1
      <4>3. Items(u)[j + 1] = held[i + (j + 1)]
        BY <2>2, <4>1
      <4>. QED
        BY <4>1, <4>2, <4>3
    <3>. QED
      BY <3>1, <3>2
  <2>8. Got(i + 1)
    <3>1. Items(u)[1] = held[i + 1]
      <4>1. 1 \in 1..(l - i)
        BY <2>3
      <4>. QED
        BY <2>2, <4>1
    <3>2. u.got \in Seq(Elem) /\ held[i + 1] \in Elem
      <4>1. i + 1 \in 1..l
        BY <1>1, <1>5, <2>1
      <4>2. held[i + 1] \in Elem
        BY <1>1, <1>5, <4>1, ElementOfSeq
      <4>. QED
        BY <2>2, <4>2 DEF Queues
    <3>3. /\ Len(v.got) = i + 1
          /\ \A j \in 1..i : v.got[j] = u.got[j]
          /\ v.got[i + 1] = held[i + 1]
      BY <2>2, <2>6, <3>1, <3>2, AppendProperties
    <3>4. \A j \in 1..(i + 1) : j \in 1..i \/ j = i + 1
      OBVIOUS
    <3>. QED
      BY <2>2, <3>3, <3>4
  <2>. QED
    BY <2>6, <2>7, <2>8
<1>4. \A i \in 0..many : Good(i)
  <2>. HIDE DEF P
  <2>1. Nat \subseteq P
    BY <1>2, <1>3, SetInduction
  <2>2. \A i \in 0..many : i \in Nat /\ i <= many
    OBVIOUS
  <2>. QED
    BY <2>1, <2>2 DEF P
<1>. QED
  BY <1>4 DEF held, l, PullsRight

LEMMA PullElemsFacts ==
  ASSUME sk_inp \in Stacks, sk_out \in Stacks, NEW n \in Nat, PullElems(n)
  PROVE  /\ sk_inp' \in Stacks /\ sk_out' \in Stacks
         /\ n <= Len(items)
         /\ pulled' = SubSeq(items, 1, n)
         /\ items' = SubSeq(items, n + 1, Len(items))
<1>. DEFINE q0 == [inp |-> sk_inp, out |-> sk_out, got |-> <<>>]
            Do(q) == IF Items(q) # <<>> THEN PullOne(q) ELSE q
            step == [p \in (1..n) \X Queues |-> Do(p[2])]
            Body(f) == [i \in 0..n |-> IF i = 0 THEN q0 ELSE PullOne(f[i - 1])]
            after == CHOOSE f : f = Body(f)
            l == Len(items)
<1>1. q0 \in Queues /\ Items(q0) = items /\ q0.got = <<>>
  BY EmptySeq DEF Queues, Items, items
<1>2. items \in Seq(Elem) /\ l = Size /\ l \in Nat
  BY ItemsTyped DEF items, Size
<1>3. n <= l
  BY <1>2 DEF PullElems
<1>4. ASSUME NEW q \in Queues PROVE Do(q) \in Queues
  BY PullOneFacts
<1>5. sk_inp' = after[n].inp /\ sk_out' = after[n].out /\ pulled' = after[n].got
  BY DEF PullElems
<1>. HIDE DEF Body, q0
<1>6. step \in [(1..n) \X Queues -> Queues]
  <2>. HIDE DEF Do
  <2>. QED
    BY <1>4
<1>7. PICK g \in [0..n -> Queues] :
        g[0] = q0 /\ \A i \in 1..n : g[i] = step[<<i, g[i - 1]>>]
  <2>. HIDE DEF step, after
  <2>1. Computable(n, Queues, q0, step)
    BY <1>1, <1>6, Recursion
  <2>. QED
    BY <2>1 DEF Computable
<1>. HIDE DEF after, l
<1>8. ASSUME NEW i \in 1..n PROVE g[i] = Do(g[i - 1])
  <2>1. i - 1 \in 0..n /\ g[i - 1] \in Queues
    <3>. HIDE DEF step
    <3>1. i - 1 \in 0..n
      OBVIOUS
    <3>. QED
      BY <3>1, <1>7
  <2>2. <<i, g[i - 1]>> \in (1..n) \X Queues
    BY <2>1
  <2>3. g[i] = step[<<i, g[i - 1]>>]
    BY <1>7
  <2>. QED
    BY <2>2, <2>3
<1>. HIDE DEF step
<1>17. \A i \in 1..n :
         g[i - 1] \in Queues /\ Items(g[i - 1]) # <<>> => g[i] = PullOne(g[i - 1])
  BY <1>8
<1>. HIDE DEF Do
<1>18. \A i \in 0..n :
          /\ g[i] \in Queues
          /\ Len(Items(g[i])) = Len(Items(q0)) - i
          /\ \A j \in 1..(Len(Items(q0)) - i) : Items(g[i])[j] = Items(q0)[i + j]
          /\ Len(g[i].got) = i
          /\ \A j \in 1..i : g[i].got[j] = Items(q0)[j]
  <2>1. n <= Len(Items(q0))
    BY <1>1, <1>3 DEF l
  <2>2. g[0] = q0 /\ q0 \in Queues /\ q0.got = <<>>
    BY <1>1, <1>7
  <2>3. PullsOn(g, n)
    BY <1>17 DEF PullsOn
  <2>4. PullsRight(g, q0, n)
    BY <2>1, <2>2, <2>3, QueuePulls
  <2>. QED
    BY <2>4 DEF PullsRight
<1>9. ASSUME NEW i \in 1..n PROVE g[i] = PullOne(g[i - 1])
  <2>1. i - 1 \in 0..n /\ l - (i - 1) # 0 /\ Len(Items(q0)) = l
    BY <1>1, <1>2, <1>3 DEF l
  <2>2. g[i - 1] \in Queues /\ Len(Items(g[i - 1])) # 0
    BY <1>18, <2>1
  <2>3. Items(g[i - 1]) # <<>>
    BY <2>2, EmptySeq
  <2>. QED
    BY <1>17, <2>2, <2>3
<1>10. g = Body(g)
  <2>. DEFINE b == [i \in 0..n |-> IF i = 0 THEN q0 ELSE PullOne(g[i - 1])]
  <2>1. ASSUME NEW i \in 0..n PROVE g[i] = b[i]
    <3>1. CASE i = 0
      BY <3>1, <1>7
    <3>2. CASE i # 0
      <4>1. i \in 1..n
        BY <3>2
      <4>. QED
        BY <3>2, <4>1, <1>9
    <3>. QED
      BY <3>1, <3>2
  <2>2. b = [i \in 0..n |-> b[i]] /\ Body(g) = b
    BY DEF Body
  <2>3. g = [i \in 0..n |-> g[i]]
    OBVIOUS
  <2>. HIDE DEF b
  <2>. QED
    BY <2>1, <2>2, <2>3
<1>11. after = Body(after)
  BY <1>10 DEF after
<1>12. after[0] = q0 /\ \A i \in 1..n : after[i] = PullOne(after[i - 1])
  <2>1. 0 \in 0..n /\ \A i \in 1..n : i \in 0..n /\ i # 0
    OBVIOUS
  <2>. QED
    BY <1>11, <2>1 DEF Body
<1>. DEFINE u == after[n]
<1>13. /\ u \in Queues
       /\ Len(Items(u)) = l - n
       /\ \A j \in 1..(l - n) : Items(u)[j] = items[n + j]
       /\ Len(u.got) = n
       /\ \A j \in 1..n : u.got[j] = items[j]
  <2>1. n <= Len(Items(q0)) /\ n \in 0..n
    BY <1>1, <1>3 DEF l
  <2>2. \A i \in 0..n :
           /\ after[i] \in Queues
           /\ Len(Items(after[i])) = Len(Items(q0)) - i
           /\ \A j \in 1..(Len(Items(q0)) - i) : Items(after[i])[j] = Items(q0)[i + j]
           /\ Len(after[i].got) = i
           /\ \A j \in 1..i : after[i].got[j] = Items(q0)[j]
    <3>1. PullsOn(after, n)
      BY <1>12 DEF PullsOn
    <3>2. PullsRight(after, q0, n)
      BY <1>1, <1>12, <2>1, <3>1, QueuePulls
    <3>. QED
      BY <3>2 DEF PullsRight
  <2>. QED
    BY <1>1, <2>1, <2>2 DEF l
<1>. HIDE DEF u
<1>14. /\ sk_inp' = u.inp /\ sk_out' = u.out /\ pulled' = u.got
       /\ u.inp \in Stacks /\ u.out \in Stacks /\ u.got \in Seq(Elem)
  BY <1>5, <1>13 DEF u, Queues
<1>15. pulled' = SubSeq(items, 1, n)
  <2>. DEFINE z == SubSeq(items, 1, n)
  <2>1. \A i \in 1..n : items[i] \in Elem
    <3>1. \A i \in 1..n : i \in 1..Len(items)
      BY <1>2, <1>3 DEF l
    <3>. QED
      BY <1>2, <3>1, ElementOfSeq
  <2>2. z \in Seq(Elem) /\ Len(z) = n /\ \A i \in 1..n : z[i] = items[i]
    <3>1. /\ z \in Seq(Elem)
          /\ Len(z) = IF 1 <= n THEN n - 1 + 1 ELSE 0
          /\ \A i \in 1..(n - 1 + 1) : z[i] = items[1 + i - 1]
      BY <2>1, SubSeqProperties
    <3>2. n - 1 + 1 = n /\ \A i \in 1..n : 1 + i - 1 = i
      OBVIOUS
    <3>. HIDE DEF z
    <3>. QED
      BY <3>1, <3>2
  <2>. HIDE DEF z
  <2>3. u.got = z
    BY <1>13, <1>14, <2>2, SeqEqual, SMTT(60)
  <2>. QED
    BY <1>14, <2>3 DEF z
<1>16. items' = SubSeq(items, n + 1, l)
  <2>. DEFINE z == SubSeq(items, n + 1, l)
              w == Items(u)
  <2>1. \A i \in (n + 1)..l : items[i] \in Elem
    <3>1. \A i \in (n + 1)..l : i \in 1..Len(items)
      BY <1>2 DEF l
    <3>. QED
      BY <1>2, <3>1, ElementOfSeq
  <2>2. z \in Seq(Elem) /\ Len(z) = l - n /\ \A i \in 1..(l - n) : z[i] = items[n + i]
    <3>1. n + 1 \in Int /\ l \in Int
      BY <1>2
    <3>2. /\ z \in Seq(Elem)
          /\ Len(z) = IF n + 1 <= l THEN l - (n + 1) + 1 ELSE 0
          /\ \A i \in 1..(l - (n + 1) + 1) : z[i] = items[(n + 1) + i - 1]
      BY <2>1, <3>1, SubSeqProperties
    <3>3. /\ l - (n + 1) + 1 = l - n
          /\ \A i \in 1..(l - n) : (n + 1) + i - 1 = n + i
          /\ ~ (n + 1 <= l) => l - n = 0
      BY <1>2, <1>3
    <3>. HIDE DEF z
    <3>. QED
      BY <3>2, <3>3
  <2>3. w \in Seq(Elem)
    BY <1>14, ItemsTyped DEF Items
  <2>4. Len(w) = l - n /\ \A i \in 1..(l - n) : w[i] = items[n + i]
    BY <1>13
  <2>5. items' = w
    BY <1>14 DEF items, Items
  <2>. HIDE DEF w, z
  <2>6. w = z
    BY <2>2, <2>3, <2>4, SeqEqual
  <2>. QED
    BY <2>5, <2>6 DEF z
<1>. QED
  BY <1>3, <1>14, <1>15, <1>16 DEF l

-----------------------------------------------------------------------------
(* The two stacks are well formed, and what they hold is a sequence.       *)
StacksSound == sk_inp \in Stacks /\ sk_out \in Stacks

LEMMA ItemsSeq ==
  ASSUME StacksSound
  PROVE  items \in Seq(Elem) /\ Len(items) = Size
<1>. QED
  <2>1. Len(items) = sk_out.len + sk_inp.len /\ sk_out.len \in Nat /\ sk_inp.len \in Nat
        /\ items \in Seq(Elem)
    BY ItemsTyped DEF items, StacksSound
  <2>. QED
    BY <2>1 DEF Size

LEMMA InitMaps == Init => StacksSound /\ FifoSpec!Init
<1>. SUFFICES ASSUME Init PROVE StacksSound /\ FifoSpec!Init
  OBVIOUS
<1>1. sk_inp = Create /\ sk_out = Create /\ pulled = <<>>
  BY DEF Init
<1>2. StacksSound
  BY <1>1, CreateFacts DEF StacksSound
<1>3. items = <<>>
  <2>1. items = <<>> \o <<>>
    BY <1>1, CreateFacts, BackwardsEmpty DEF items
  <2>. QED
    BY <2>1, EmptySeq, ConcatEmptySeq
<1>. QED
  BY <1>1, <1>2, <1>3 DEF FifoSpec!Init

(* Fifo has its own instance of Filters.                                   *)
LEMMA FifoKept ==
  ASSUME NEW s, NEW S
  PROVE  FifoSpec!Kept(s, S) = Kept(s, S)
BY DEF FifoSpec!Kept, Kept

(* A push on the stack of inputs is one at the queue's end.                *)
LEMMA EndPush ==
  ASSUME StacksSound, NEW z \in Seq(Elem),
         Contents(sk_inp') = Reverse(z) \o Contents(sk_inp), sk_out' = sk_out
  PROVE  items' = items \o z
<1>. DEFINE a == Contents(sk_out)
            c == Contents(sk_inp)
<1>1. a \in Seq(Elem) /\ c \in Seq(Elem)
  BY ContentsTyped DEF StacksSound
<1>2. items = a \o Reverse(c) /\ items' = a \o Reverse(Reverse(z) \o c)
  BY DEF items
<1>. HIDE DEF a, c
<1>3. Reverse(Reverse(z) \o c) = Reverse(c) \o z
  <2>1. \A x \in Seq(Elem), y \in Seq(Elem) :
          Reverse(x \o y) = Reverse(y) \o Reverse(x)
    BY BackwardsConcat
  <2>2. Reverse(z) \in Seq(Elem) /\ Reverse(Reverse(z)) = z
    BY Backwards
  <2>. QED
    BY <1>1, <2>1, <2>2
<1>4. Reverse(c) \in Seq(Elem)
  BY <1>1, Backwards
<1>5. (a \o Reverse(c)) \o z = a \o (Reverse(c) \o z)
  <2>1. \A x \in Seq(Elem), y \in Seq(Elem), w \in Seq(Elem) :
          (x \o y) \o w = x \o (y \o w)
    BY ConcatThree, SMTT(60)
  <2>. QED
    BY <1>1, <1>4, <2>1
<1>. QED
  BY <1>2, <1>3, <1>5

LEMMA PushMaps ==
  ASSUME StacksSound, NEW n \in Nat, NEW s \in [1..n -> Elem], PushElems(s)
  PROVE  StacksSound' /\ FifoSpec!PushMany(s)
<1>1. s \in Seq(Elem)
  BY SeqDef
<1>2. sk_inp' = PushMany(sk_inp, s) /\ sk_out' = sk_out /\ pulled' = <<>>
  BY DEF PushElems
<1>3. sk_inp' \in Stacks /\ Contents(sk_inp') = Reverse(s) \o Contents(sk_inp)
  BY <1>1, <1>2, PushManyFacts DEF StacksSound
<1>4. items' = items \o s
  BY <1>1, <1>2, <1>3, EndPush
<1>. QED
  BY <1>2, <1>3, <1>4 DEF StacksSound, FifoSpec!PushMany

LEMMA PushNonNullMaps ==
  ASSUME StacksSound, NEW n \in Nat, NEW s \in [1..n -> Elem], PushElemsNonNull(s)
  PROVE  StacksSound' /\ FifoSpec!PushMany(FifoSpec!NonNull(s))
<1>. DEFINE k == Kept(s, Elem \ {Null})
<1>1. s \in Seq(Elem) /\ k \in Seq(Elem)
  BY SeqDef, KeptRange
<1>2. sk_inp' = PushManyNonNull(sk_inp, s, Null) /\ sk_out' = sk_out /\ pulled' = <<>>
  BY DEF PushElemsNonNull
<1>3. sk_inp' \in Stacks /\ Contents(sk_inp') = Reverse(k) \o Contents(sk_inp)
  BY <1>1, <1>2, PushManyNonNullFacts DEF StacksSound
<1>4. items' = items \o k
  <2>. HIDE DEF k
  <2>. QED
    BY <1>1, <1>2, <1>3, EndPush
<1>. QED
  BY <1>2, <1>3, <1>4, FifoKept DEF StacksSound, FifoSpec!PushMany, FifoSpec!NonNull

LEMMA PutBackMaps ==
  ASSUME StacksSound, NEW e \in Elem, PutBack(e)
  PROVE  StacksSound' /\ FifoSpec!PutBack(e)
<1>. DEFINE t == <<e>>
            a == Contents(sk_out)
            d == Reverse(Contents(sk_inp))
<1>1. sk_out' = Push(sk_out, e) /\ sk_inp' = sk_inp /\ pulled' = <<>>
  BY DEF PutBack
<1>2. sk_out' \in Stacks /\ Contents(sk_out') = t \o a
  BY <1>1, PushFacts DEF StacksSound
<1>3. t \in Seq(Elem) /\ a \in Seq(Elem) /\ d \in Seq(Elem)
  BY ContentsTyped, Backwards DEF StacksSound
<1>4. items = a \o d /\ items' = (t \o a) \o d
  BY <1>1, <1>2 DEF items
<1>. HIDE DEF t, a, d
<1>5. (t \o a) \o d = t \o (a \o d)
  BY <1>3, ConcatThree, SMTT(60)
<1>6. items' = <<e>> \o items
  BY <1>4, <1>5 DEF t
<1>. QED
  BY <1>1, <1>2, <1>6 DEF StacksSound, FifoSpec!PutBack

LEMMA DeleteMaps ==
  ASSUME StacksSound, NEW e \in Elem, DeleteElem(e)
  PROVE  StacksSound' /\ FifoSpec!DeleteElem(e)
<1>. DEFINE S == Elem \ {e}
            a == Contents(sk_out)
            c == Contents(sk_inp)
<1>1. sk_inp' = DeleteAll(sk_inp, e) /\ sk_out' = DeleteAll(sk_out, e) /\ pulled' = <<>>
  BY DEF DeleteElem
<1>2. /\ sk_inp' \in Stacks /\ Contents(sk_inp') = Kept(c, S)
      /\ sk_out' \in Stacks /\ Contents(sk_out') = Kept(a, S)
  BY <1>1, DeleteAllFacts DEF StacksSound
<1>3. a \in Seq(Elem) /\ c \in Seq(Elem) /\ Reverse(c) \in Seq(Elem)
  BY ContentsTyped, Backwards DEF StacksSound
<1>4. items = a \o Reverse(c) /\ items' = Kept(a, S) \o Reverse(Kept(c, S))
  BY <1>2 DEF items
<1>. HIDE DEF a, c
<1>5. Kept(a \o Reverse(c), S) = Kept(a, S) \o Kept(Reverse(c), S)
  <2>. HIDE DEF S
  <2>. QED
    BY <1>3, KeptConcat
<1>6. Kept(Reverse(c), S) = Reverse(Kept(c, S))
  <2>. HIDE DEF S
  <2>. QED
    BY <1>3, KeptBackwards
<1>7. items' = Kept(items, S)
  BY <1>4, <1>5, <1>6
<1>. QED
  BY <1>1, <1>2, <1>7, FifoKept DEF StacksSound, FifoSpec!DeleteElem

LEMMA RenewMaps ==
  ASSUME Renew
  PROVE  StacksSound' /\ FifoSpec!Renew
<1>1. sk_inp' = Create /\ sk_out' = Create /\ pulled' = <<>>
  BY DEF Renew
<1>2. items' = <<>>
  <2>1. items' = <<>> \o <<>>
    BY <1>1, CreateFacts, BackwardsEmpty DEF items
  <2>. QED
    BY <2>1, EmptySeq, ConcatEmptySeq
<1>. QED
  BY <1>1, <1>2, CreateFacts DEF StacksSound, FifoSpec!Renew

LEMMA NextMaps ==
  ASSUME StacksSound, [Next]_vars
  PROVE  StacksSound' /\ [FifoSpec!Next]_(FifoSpec!vars)
<1>1. ASSUME NEW e \in Elem, PutBack(e) \/ DeleteElem(e)
      PROVE  StacksSound' /\ FifoSpec!Next
  BY <1>1, PutBackMaps, DeleteMaps DEF FifoSpec!Next
<1>2. ASSUME NEW n \in 1..MaxMany, NEW s \in [1..n -> Elem],
             PushElems(s) \/ PushElemsNonNull(s)
      PROVE  StacksSound' /\ FifoSpec!Next
  <2>1. n \in Nat
    OBVIOUS
  <2>. QED
    BY <1>2, <2>1, PushMaps, PushNonNullMaps DEF FifoSpec!Next
<1>3. ASSUME NEW n \in 0..MaxItems, PullElems(n)
      PROVE  StacksSound' /\ FifoSpec!Next
  <2>1. n \in Nat
    OBVIOUS
  <2>2. /\ StacksSound' /\ n <= Len(items)
        /\ pulled' = SubSeq(items, 1, n)
        /\ items' = SubSeq(items, n + 1, Len(items))
    BY <1>3, <2>1, PullElemsFacts DEF StacksSound
  <2>3. n \in 0..Len(items)
    BY <2>1, <2>2, ItemsSeq, LenProperties
  <2>4. FifoSpec!PullMany(n)
    BY <2>2 DEF FifoSpec!PullMany
  <2>. QED
    BY <2>2, <2>3, <2>4 DEF FifoSpec!Next
<1>4. ASSUME Renew PROVE StacksSound' /\ FifoSpec!Next
  BY <1>4, RenewMaps DEF FifoSpec!Next
<1>5. ASSUME UNCHANGED vars PROVE StacksSound' /\ UNCHANGED FifoSpec!vars
  BY <1>5 DEF vars, StacksSound, FifoSpec!vars, items
<1>. QED
  BY <1>1, <1>2, <1>3, <1>4, <1>5 DEF Next

(* Through group boundaries, refills, put-backs and deletions both stacks  *)
(* of a queue stay well formed: len and head_used say what is there.       *)
THEOREM StacksStaySound == Spec => []StacksSound
<1>1. Init => StacksSound
  BY InitMaps
<1>2. StacksSound /\ [Next]_vars => StacksSound'
  BY NextMaps
<1>. QED
  BY <1>1, <1>2, PTL DEF Spec

(* A queue of queue.c, on two stacks of stack.c, is a sequence: what comes *)
(* out is what went in, in that order, less what was deleted.              *)
THEOREM QueueImplements == Spec => ImplementsFifo
<1>1. Init => FifoSpec!Init
  BY InitMaps
<1>2. StacksSound /\ [Next]_vars => [FifoSpec!Next]_(FifoSpec!vars)
  BY NextMaps
<1>. QED
  BY <1>1, <1>2, StacksStaySound, PTL DEF Spec, ImplementsFifo, FifoSpec!Spec
=============================================================================
