-------------------------- MODULE ThreadPagesProofs -------------------------
(***************************************************************************)
(* Proofs about ThreadPages and the allocator below it, for any number of  *)
(* bins and any sizes of pages, thread structures, blocks and stacks.      *)
(*                                                                         *)
(* The order: the powers of two and the bin of a size; the heap as a set   *)
(* of cuts that tile it, and what lb_alloc and lb_free do to the set; the  *)
(* switch's list of pages; the copies of a stack out into pages and back,  *)
(* step by step; the inductive invariant; the theorems.                    *)
(***************************************************************************)
EXTENDS ThreadPages, SequenceLemmas

(* The powers of two, from the recursion that defines them.                *)
LEMMA PowerUnfolds ==
  /\ Power \in [0..Bins -> Nat \ {0}]
  /\ Power[0] = 1
  /\ \A n \in 1..Bins : Power[n] = 2 * Power[n - 1]
<1>. DEFINE T == Nat \ {0}
            Body(f) == [n \in 0..Bins |-> IF n = 0 THEN 1 ELSE 2 * f[n - 1]]
            step == [p \in (1..Bins) \X T |-> 2 * p[2]]
<1>1. Bins \in Nat
  BY AllocAssumption
<1>2. step \in [(1..Bins) \X T -> T]
  <2>1. \A k \in T : 2 * k \in T
    OBVIOUS
  <2>. HIDE DEF T
  <2>. QED
    BY <2>1
<1>3. PICK g \in [0..Bins -> T] :
        g[0] = 1 /\ \A i \in 1..Bins : g[i] = step[<<i, g[i - 1]>>]
  <2>1. 1 \in T
    OBVIOUS
  <2>. HIDE DEF step, T
  <2>2. Computable(Bins, T, 1, step)
    BY <1>1, <1>2, <2>1, Recursion
  <2>. QED
    BY <2>2 DEF Computable
<1>4. \A i \in 1..Bins : g[i] = 2 * g[i - 1]
  <2>. SUFFICES ASSUME NEW i \in 1..Bins PROVE g[i] = 2 * g[i - 1]
    OBVIOUS
  <2>1. i - 1 \in 0..Bins
    BY <1>1
  <2>2. <<i, g[i - 1]>> \in (1..Bins) \X T
    BY <2>1
  <2>. QED
    BY <1>3, <2>2
<1>5. g = Body(g)
  <2>1. ASSUME NEW n \in 0..Bins PROVE g[n] = Body(g)[n]
    <3>1. CASE n = 0
      BY <3>1, <1>3
    <3>2. CASE n # 0
      <4>1. n \in 1..Bins
        BY <3>2
      <4>. QED
        BY <3>2, <4>1, <1>4
    <3>. QED
      BY <3>1, <3>2
  <2>2. g = [n \in 0..Bins |-> g[n]]
    OBVIOUS
  <2>3. Body(g) = [n \in 0..Bins |-> Body(g)[n]]
    OBVIOUS
  <2>. HIDE DEF Body
  <2>. QED
    BY <2>1, <2>2, <2>3
<1>6. Power = Body(Power)
  <2>1. Power = CHOOSE f : f = Body(f)
    BY DEF Power
  <2>. HIDE DEF Body
  <2>. QED
    BY <1>5, <2>1
<1>7. Power[0] = 1 /\ \A n \in 1..Bins : Power[n] = 2 * Power[n - 1]
  <2>1. 0 \in 0..Bins /\ \A n \in 1..Bins : n \in 0..Bins /\ n # 0
    BY <1>1
  <2>. QED
    BY <1>6, <2>1
<1>8. \A n \in 0..Bins : Power[n] = g[n]
  <2>. DEFINE Same == {n \in Nat : n <= Bins => Power[n] = g[n]}
  <2>1. 0 \in Same
    BY <1>3, <1>7
  <2>2. ASSUME NEW n \in Nat, n \in Same PROVE n + 1 \in Same
    <3>1. n + 1 <= Bins => n + 1 \in 1..Bins /\ (n + 1) - 1 = n /\ Power[n] = g[n]
      BY <1>1, <2>2
    <3>. QED
      BY <1>4, <1>7, <3>1
  <2>. HIDE DEF Same
  <2>3. Nat \subseteq Same
    BY <2>1, <2>2, SetInduction
  <2>. QED
    BY <2>3 DEF Same
<1>9. Power = [n \in 0..Bins |-> g[n]]
  <2>1. Power = [n \in 0..Bins |-> Power[n]]
    BY <1>6
  <2>. QED
    BY <1>8, <2>1
<1>. QED
  BY <1>7, <1>9

(* A power of two is a multiple of every lower one.                        *)
LEMMA PowerGrows ==
  ASSUME NEW n \in 0..Bins
  PROVE  \A k \in n..Bins : \E q \in Nat \ {0} : Power[k] = q * Power[n]
<1>. DEFINE Good == {j \in Nat : n + j <= Bins => \E q \in Nat \ {0} : Power[n + j] = q * Power[n]}
<1>0. Power[n] \in Nat \ {0}
  BY PowerUnfolds
<1>1. Bins \in Nat /\ n \in Nat /\ Power[n] \in Nat \ {0}
  BY <1>0, AllocAssumption
<1>2. 0 \in Good
  <2>1. n + 0 = n /\ Power[n] = 1 * Power[n]
    BY <1>1
  <2>. QED
    BY <2>1
<1>3. ASSUME NEW j \in Nat, j \in Good PROVE j + 1 \in Good
  <2>. SUFFICES ASSUME n + (j + 1) <= Bins
                PROVE  \E q \in Nat \ {0} : Power[n + (j + 1)] = q * Power[n]
    OBVIOUS
  <2>1. n + j <= Bins /\ n + (j + 1) \in 1..Bins /\ (n + (j + 1)) - 1 = n + j
    BY <1>1
  <2>2. PICK q \in Nat \ {0} : Power[n + j] = q * Power[n]
    BY <1>3, <2>1
  <2>3. Power[n + (j + 1)] = 2 * (q * Power[n])
    BY <2>1, <2>2, PowerUnfolds
  <2>4. 2 * (q * Power[n]) = (2 * q) * Power[n] /\ 2 * q \in Nat \ {0}
    BY <1>1
  <2>. QED
    BY <2>3, <2>4
<1>. HIDE DEF Good
<1>4. Nat \subseteq Good
  BY <1>2, <1>3, SetInduction
<1>5. ASSUME NEW k \in n..Bins PROVE \E q \in Nat \ {0} : Power[k] = q * Power[n]
  <2>1. k - n \in Nat /\ n + (k - n) = k /\ k <= Bins
    BY <1>1
  <2>. QED
    BY <1>4, <2>1 DEF Good
<1>. QED
  BY <1>5

(* So powers grow with their exponents.                                    *)
LEMMA PowerMonotone ==
  ASSUME NEW n \in 0..Bins, NEW k \in n..Bins
  PROVE  Power[n] <= Power[k]
<1>1. Power[n] \in Nat \ {0}
  BY PowerUnfolds
<1>2. PICK q \in Nat \ {0} : Power[k] = q * Power[n]
  BY PowerGrows
<1>3. q * Power[n] >= Power[n]
  BY <1>1, SMT
<1>. QED
  BY <1>1, <1>2, <1>3

(* lb_bsr finds the highest bit of what fits a word.                       *)
LEMMA BsrFacts ==
  ASSUME NEW x \in Nat \ {0}, x < Power[Bins]
  PROVE  Bsr(x) \in 0..(Bins - 1) /\ Power[Bsr(x)] <= x /\ x < Power[Bsr(x) + 1]
<1>. DEFINE Good == {k \in Nat : k <= Bins /\ x < Power[k] =>
                       \E n \in 0..(Bins - 1) : Power[n] <= x /\ x < Power[n + 1]}
<1>1. Bins \in Nat \ {0}
  BY AllocAssumption
<1>2. 0 \in Good
  BY PowerUnfolds
<1>3. ASSUME NEW k \in Nat, k \in Good PROVE k + 1 \in Good
  <2>. SUFFICES ASSUME k + 1 <= Bins, x < Power[k + 1]
                PROVE  \E n \in 0..(Bins - 1) : Power[n] <= x /\ x < Power[n + 1]
    OBVIOUS
  <2>1. CASE x < Power[k]
    BY <1>1, <1>3, <2>1
  <2>2. CASE ~ (x < Power[k])
    <3>1. k \in 0..(Bins - 1) /\ k \in 0..Bins
      BY <1>1
    <3>2. Power[k] \in Nat
      BY <3>1, PowerUnfolds
    <3>. QED
      BY <2>2, <3>1, <3>2
  <2>. QED
    BY <2>1, <2>2
<1>. HIDE DEF Good
<1>4. Bins \in Good
  BY <1>1, <1>2, <1>3, SetInduction
<1>5. \E n \in 0..(Bins - 1) : Power[n] <= x /\ x < Power[n + 1]
  BY <1>1, <1>4 DEF Good
<1>. QED
  BY <1>5 DEF Bsr

(* The bin of a size: it exists, its blocks are large enough for the size, *)
(* and a multiple of the alignment.                                        *)
LEMMA BinFacts ==
  ASSUME NEW size, Allocable(size)
  PROVE  /\ Bin(size) \in 0..(Bins - 1)
         /\ Rounded(size) = BinSize(Bin(size))
         /\ Rounded(size) \in Nat \ {0}
         /\ size <= Rounded(size)
         /\ \E q \in Nat \ {0} : Rounded(size) = q * Alignment
<1>. DEFINE z == IF size < Pointer THEN Pointer ELSE size
<1>1. Bins \in Nat \ {0}
  BY AllocAssumption
<1>2. PICK p \in 1..Bins, a \in 0..Bins : Pointer = Power[p] /\ Alignment = Power[a] /\ a <= p
  BY AllocAssumption
<1>3. Pointer \in Nat /\ 2 <= Pointer /\ Pointer <= Power[Bins]
  <2>1. 0 \in 0..Bins /\ 1 \in 0..Bins /\ 1 \in 1..Bins /\ p \in 0..Bins /\ p \in 1..Bins
        /\ Bins \in p..Bins /\ 1 - 1 = 0
    BY <1>1
  <2>2. Power[1] = 2 /\ Power[p] \in Nat /\ Power[Bins] \in Nat
    BY <1>1, <2>1, PowerUnfolds
  <2>3. Power[1] <= Power[p] /\ Power[p] <= Power[Bins]
    BY <2>1, PowerMonotone
  <2>. QED
    BY <1>2, <2>2, <2>3
<1>4. z \in Nat /\ Pointer <= z /\ size <= z /\ z <= Power[Bins] /\ Power[Bins] \in Nat
  BY <1>1, <1>3, PowerUnfolds DEF Allocable
<1>5. z - 1 \in Nat \ {0} /\ z - 1 < Power[Bins]
  BY <1>3, <1>4
<1>. DEFINE n == Bin(size)
<1>6. n \in 0..(Bins - 1) /\ Power[n] <= z - 1 /\ z - 1 < Power[n + 1]
  BY <1>5, BsrFacts DEF Bin
<1>7. Rounded(size) = Power[n + 1] /\ BinSize(n) = Power[n + 1]
  BY DEF Rounded, BinSize
<1>. HIDE DEF n
<1>8. n + 1 \in 0..Bins /\ p \in 0..Bins
  BY <1>1, <1>6
<1>9. Power[n + 1] \in Nat \ {0}
  BY <1>8, PowerUnfolds
<1>10. size <= Power[n + 1] /\ Pointer <= Power[n + 1]
  BY <1>3, <1>4, <1>6, <1>9 DEF Allocable
<1>11. p <= n + 1
  <2>. SUFFICES ASSUME n + 1 < p PROVE FALSE
    BY <1>8
  <2>1. p \in 1..Bins /\ p - 1 \in (n + 1)..Bins /\ p - 1 \in 0..Bins
    BY <1>1, <1>6, <1>8
  <2>2. Power[n + 1] <= Power[p - 1] /\ Power[p] = 2 * Power[p - 1] /\ Power[p - 1] \in Nat \ {0}
    BY <1>8, <2>1, PowerMonotone, PowerUnfolds
  <2>. QED
    BY <1>2, <1>9, <1>10, <2>2
<1>12. \E q \in Nat \ {0} : Power[n + 1] = q * Alignment
  <2>1. a \in 0..Bins /\ n + 1 \in a..Bins
    BY <1>2, <1>8, <1>11
  <2>. QED
    BY <1>2, <2>1, PowerGrows
<1>. QED
  BY <1>6, <1>7, <1>9, <1>10, <1>12 DEF n

-----------------------------------------------------------------------------
(* The heap, cut into blocks: pairs of an address and a bin.               *)
AllBins == 0..(Bins - 1)
Cuts == Nat \X AllBins
FreeCuts(m) == {c \in Cuts : c[1] \in Range(m.head[c[2]])}

Apart(c, d) == c[1] + BinSize(c[2]) <= d[1] \/ d[1] + BinSize(d[2]) <= c[1]

Tiled(S, top) ==
  /\ S \subseteq Cuts
  /\ \A c \in S : c[1] + BinSize(c[2]) <= top
  /\ \A c, d \in S : c # d => Apart(c, d)
  /\ \A x \in 0..(top - 1) : \E c \in S : Within(x, c[1], BinSize(c[2]))

(* The blocks in use are U, and with the free ones they make up the heap.  *)
Heap(m, U) ==
  /\ m \in Memory /\ m.cbrk + m.left = m.rbrk
  /\ \A b \in AllBins : IsInjective(m.head[b])
  /\ U \cap FreeCuts(m) = {}
  /\ Tiled(U \cup FreeCuts(m), m.cbrk)

(* No bin is of blocks of nothing.                                         *)
LEMMA SizesPositive == ASSUME NEW b \in AllBins PROVE BinSize(b) \in Nat \ {0}
<1>1. b + 1 \in 0..Bins
  BY AllocAssumption DEF AllBins
<1>. QED
  BY <1>1, PowerUnfolds DEF BinSize

(* In a tiled heap an address is that of one cut.                          *)
LEMMA CutOnce ==
  ASSUME NEW S, NEW top, Tiled(S, top), NEW c \in S, NEW d \in S, c[1] = d[1]
  PROVE  c = d
<1>1. c[1] \in Nat /\ d[1] \in Nat /\ c[2] \in AllBins /\ d[2] \in AllBins
  BY DEF Tiled, Cuts
<1>2. BinSize(c[2]) \in Nat \ {0} /\ BinSize(d[2]) \in Nat \ {0}
  BY <1>1, SizesPositive
<1>3. ~ Apart(c, d)
  BY <1>1, <1>2 DEF Apart
<1>. QED
  BY <1>3 DEF Tiled

(* A cut put at the end of a tiled heap tiles the longer one.              *)
LEMMA CutMore ==
  ASSUME NEW S, NEW top \in Nat, Tiled(S, top), NEW b \in AllBins
  PROVE  /\ \A c \in S : c[1] # top
         /\ Tiled(S \cup {<<top, b>>}, top + BinSize(b))
<1>. DEFINE n == <<top, b>>
            s == BinSize(b)
            Z == S \cup {n}
<1>1. s \in Nat \ {0}
  BY SizesPositive
<1>2. ASSUME NEW c \in S
      PROVE  /\ c[1] \in Nat /\ BinSize(c[2]) \in Nat \ {0} /\ c[1] + BinSize(c[2]) <= top
  <2>1. c[1] \in Nat /\ c[2] \in AllBins
    BY DEF Tiled, Cuts
  <2>. QED
    BY <2>1, SizesPositive DEF Tiled
<1>3. n \in Cuts /\ n[1] = top /\ n[2] = b
  BY DEF Cuts
<1>. HIDE DEF n, s
<1>4. \A c \in S : c[1] # top
  BY <1>2
<1>5. Z \subseteq Cuts
  BY <1>3 DEF Tiled
<1>6. \A c \in Z : c[1] + BinSize(c[2]) <= top + s
  BY <1>1, <1>2, <1>3 DEF s
<1>7. ASSUME NEW c \in Z, NEW d \in Z, c # d PROVE Apart(c, d)
  <2>1. CASE c \in S /\ d \in S
    BY <1>7, <2>1 DEF Tiled
  <2>2. CASE c \in S /\ d = n
    BY <1>2, <1>3, <2>2 DEF Apart
  <2>3. CASE c = n /\ d \in S
    BY <1>2, <1>3, <2>3 DEF Apart
  <2>. QED
    BY <1>7, <2>1, <2>2, <2>3
<1>8. ASSUME NEW x \in 0..((top + s) - 1)
      PROVE  \E c \in Z : Within(x, c[1], BinSize(c[2]))
  <2>1. CASE x < top
    <3>1. x \in 0..(top - 1)
      BY <1>1, <2>1
    <3>. QED
      BY <3>1 DEF Tiled
  <2>2. CASE ~ (x < top)
    <3>1. Within(x, n[1], BinSize(n[2]))
      BY <1>1, <1>3, <2>2 DEF Within, s
    <3>. QED
      BY <3>1
  <2>. QED
    BY <2>1, <2>2
<1>9. Tiled(Z, top + s)
  BY <1>5, <1>6, <1>7, <1>8 DEF Tiled
<1>. QED
  BY <1>4, <1>9 DEF n, s

(* What is a multiple of the alignment stays what it is.                   *)
LEMMA AlignedAlready ==
  ASSUME NEW A \in Nat \ {0}, NEW q \in Nat \ {0}
  PROVE  ((q * A + A - 1) \div A) * A = q * A
<1>. DEFINE x == q * A + A - 1
            d == x \div A
<1>1. x \in Nat /\ q * A \in Nat
  BY SMT
<1>2. d \in Nat /\ x % A \in 0..(A - 1) /\ x = d * A + (x % A)
  BY <1>1, SMT
<1>3. d * A \in Nat
  BY <1>2, SMT
<1>4. d = q
  <2>1. CASE d < q
    <3>1. PICK k \in Nat : q = d + 1 + k
      <4>1. q - d - 1 \in Nat /\ q = d + 1 + (q - d - 1)
        BY <1>2, <2>1
      <4>. QED
        BY <4>1
    <3>2. q * A = d * A + A + k * A /\ k * A \in Nat
      BY <1>2, <3>1, SMT
    <3>. QED
      BY <1>1, <1>2, <1>3, <3>2
  <2>2. CASE d > q
    <3>1. PICK k \in Nat : d = q + 1 + k
      <4>1. d - q - 1 \in Nat /\ d = q + 1 + (d - q - 1)
        BY <1>2, <2>2
      <4>. QED
        BY <4>1
    <3>2. d * A = q * A + A + k * A /\ k * A \in Nat
      BY <1>2, <3>1, SMT
    <3>. QED
      BY <1>1, <1>2, <1>3, <3>2
  <2>. QED
    BY <1>2, <2>1, <2>2
<1>. QED
  BY <1>4

(* The increments that lb_sbrk adds are enough for what is lacking.        *)
LEMMA IncrementsFacts ==
  ASSUME NEW lacking \in Int
  PROVE  Increments(lacking) \in Nat /\ Increments(lacking) * Increment \in Nat
         /\ Increments(lacking) * Increment >= lacking
<1>. DEFINE I == Increment
            x == lacking + I - 1
            d == x \div I
<1>1. I \in Nat \ {0}
  BY AllocAssumption
<1>. HIDE DEF I
<1>2. CASE lacking > 0
  <2>1. x \in Nat
    BY <1>1, <1>2
  <2>2. d \in Nat /\ x % I \in 0..(I - 1) /\ x = d * I + (x % I)
    BY <1>1, <2>1, SMT
  <2>3. d * I \in Nat
    BY <1>1, <2>2, SMT
  <2>4. d * I >= lacking
    BY <1>1, <2>2, <2>3
  <2>5. Increments(lacking) = d
    BY <1>2 DEF Increments, I
  <2>. QED
    BY <2>2, <2>3, <2>4, <2>5 DEF I
<1>3. CASE ~ (lacking > 0)
  <2>1. Increments(lacking) = 0 /\ 0 * I = 0
    BY <1>1, <1>3 DEF Increments
  <2>. QED
    BY <1>3, <2>1 DEF I
<1>. QED
  BY <1>2, <1>3

(* What is left of the break after a cut was taken off it.                 *)
LEMMA Balance ==
  ASSUME NEW c \in Nat, NEW l \in Nat, NEW r \in Nat, NEW s \in Nat, NEW k \in Nat,
         c + l = r, k >= s - l
  PROVE  /\ r + k \in Nat /\ c + s \in Nat /\ l + k - s \in Nat
         /\ (c + s) + (l + k - s) = r + k
OBVIOUS

(* lb_sbrk: the cut taken is of the size asked for, and break, current     *)
(* position and rest agree (alloc.c 32-51).                                *)
LEMMA SbrkFacts ==
  ASSUME NEW m \in Memory, m.cbrk + m.left = m.rbrk, NEW size, Allocable(size)
  PROVE  LET z == Sbrk(m, Rounded(size))
         IN  /\ z \in Memory /\ z.cbrk + z.left = z.rbrk
             /\ z.cbrk = m.cbrk + Rounded(size) /\ z.head = m.head
<1>. DEFINE r == Rounded(size)
            A == Alignment
            aligned == ((r + A - 1) \div A) * A
            more == Increments(aligned - m.left)
            z == Sbrk(m, r)
<1>1. r \in Nat \ {0} /\ A \in Nat \ {0}
  <2>1. A \in Nat \ {0}
    BY AllocAssumption, PowerUnfolds
  <2>. QED
    BY <2>1, BinFacts
<1>2. aligned = r
  <2>1. PICK q \in Nat \ {0} : r = q * A
    BY BinFacts
  <2>. QED
    BY <1>1, <2>1, AlignedAlready
<1>3. m.rbrk \in Nat /\ m.cbrk \in Nat /\ m.left \in Nat
      /\ m.head \in [0..(Bins - 1) -> Seq(Nat)]
  BY DEF Memory
<1>4. z = [rbrk |-> m.rbrk + more * Increment, cbrk |-> m.cbrk + aligned,
           left |-> m.left + more * Increment - aligned, head |-> m.head]
  BY DEF Sbrk
<1>. HIDE DEF r, A, aligned, z
<1>. DEFINE k == more * Increment
<1>5. k \in Nat /\ k >= aligned - m.left
  <2>1. aligned - m.left \in Int
    BY <1>1, <1>2, <1>3
  <2>. QED
    BY <2>1, IncrementsFacts
<1>6. z.rbrk = m.rbrk + k /\ z.cbrk = m.cbrk + r /\ z.left = m.left + k - r /\ z.head = m.head
  BY <1>2, <1>4
<1>. HIDE DEF more, k
<1>7. m.rbrk + k \in Nat /\ m.cbrk + r \in Nat /\ m.left + k - r \in Nat
      /\ (m.cbrk + r) + (m.left + k - r) = m.rbrk + k
  <2>. DEFINE c == m.cbrk
              l == m.left
              b == m.rbrk
  <2>1. c \in Nat /\ l \in Nat /\ b \in Nat /\ r \in Nat /\ k \in Nat /\ c + l = b
    BY <1>1, <1>3, <1>5
  <2>2. k >= r - l
    BY <1>2, <1>5
  <2>. HIDE DEF c, l, b
  <2>3. b + k \in Nat /\ c + r \in Nat /\ l + k - r \in Nat
        /\ (c + r) + (l + k - r) = b + k
    BY <2>1, <2>2, Balance
  <2>. QED
    BY <2>3 DEF c, l, b
<1>8. z \in Memory
  BY <1>2, <1>3, <1>4, <1>7 DEF Memory, k
<1>. QED
  BY <1>6, <1>7, <1>8 DEF z, r

(* Each bin has a list of addresses.                                       *)
LEMMA FreeListTyped ==
  ASSUME NEW m \in Memory, NEW b \in AllBins
  PROVE  m.head[b] \in Seq(Nat)
BY DEF Memory, AllBins

(* lb_alloc: the block that it returns is nobody else's.                   *)
LEMMA AllocFacts ==
  ASSUME NEW m, NEW U, Heap(m, U), NEW size, Allocable(size)
  PROVE  /\ Place(m, size) \in Nat
         /\ \A c \in U : c[1] # Place(m, size)
         /\ Heap(Alloc(m, size), U \cup {<<Place(m, size), Bin(size)>>})
<1>. DEFINE b == Bin(size)
            at == Place(m, size)
            z == Alloc(m, size)
            n == <<at, b>>
            S == U \cup FreeCuts(m)
<1>1. b \in AllBins /\ Rounded(size) = BinSize(b)
  BY BinFacts DEF AllBins
<1>2. m \in Memory /\ m.cbrk + m.left = m.rbrk /\ m.cbrk \in Nat
      /\ Tiled(S, m.cbrk) /\ U \cap FreeCuts(m) = {}
      /\ \A c \in AllBins : IsInjective(m.head[c])
  BY DEF Heap, Memory
<1>3. m.head[b] \in Seq(Nat)
  BY <1>1, <1>2, FreeListTyped
<1>4. CASE m.head[b] # <<>>
  <2>. DEFINE h == m.head[b]
              t == Tail(h)
  <2>1. at = Head(h) /\ z = [m EXCEPT !.head[b] = Tail(@)]
    BY <1>4 DEF Place, Alloc
  <2>2. /\ Head(h) \in Nat /\ t \in Seq(Nat)
        /\ Range(h) = {Head(h)} \cup Range(t)
        /\ IsInjective(t) /\ Head(h) \notin Range(t)
    BY <1>1, <1>2, <1>3, <1>4, PopFront, PopRange
  <2>. HIDE DEF at, z, b
  <2>3. /\ z \in Memory /\ z.cbrk = m.cbrk /\ z.left = m.left /\ z.rbrk = m.rbrk
        /\ z.head[b] = t
        /\ \A c \in AllBins : c # b => z.head[c] = m.head[c]
    <3>1. m.head \in [AllBins -> Seq(Nat)] /\ b \in AllBins
      BY <1>1, <1>2 DEF Memory, AllBins
    <3>2. z.head = [m.head EXCEPT ![b] = t] /\ z = [m EXCEPT !.head = [m.head EXCEPT ![b] = t]]
      BY <1>2, <2>1 DEF Memory
    <3>. HIDE DEF t, h
    <3>3. z.head \in [AllBins -> Seq(Nat)]
      BY <2>2, <3>1, <3>2
    <3>4. z.cbrk = m.cbrk /\ z.left = m.left /\ z.rbrk = m.rbrk
      BY <1>2, <3>2 DEF Memory
    <3>5. z \in Memory
      BY <1>2, <3>2, <3>3 DEF Memory, AllBins
    <3>. QED
      BY <3>1, <3>2, <3>4, <3>5
  <2>4. n \in Cuts /\ n[1] = at /\ n[2] = b
    BY <1>1, <2>1, <2>2 DEF Cuts
  <2>5. n \in FreeCuts(m)
    BY <2>1, <2>2, <2>4 DEF FreeCuts
  <2>6. FreeCuts(z) = FreeCuts(m) \ {n}
    <3>1. ASSUME NEW c \in Cuts PROVE c \in FreeCuts(z) <=> c \in FreeCuts(m) \ {n}
      <4>1. c[2] \in AllBins /\ c = <<c[1], c[2]>>
        BY DEF Cuts
      <4>2. CASE c[2] = b
        <5>1. z.head[c[2]] = t /\ m.head[c[2]] = h
          BY <2>3, <4>2
        <5>2. c = n <=> c[1] = at
          BY <2>4, <4>1, <4>2
        <5>3. c[1] \in Range(t) <=> c[1] \in Range(h) /\ c[1] # at
          BY <2>1, <2>2
        <5>. QED
          BY <5>1, <5>2, <5>3 DEF FreeCuts
      <4>3. CASE c[2] # b
        BY <2>3, <4>1, <4>3 DEF FreeCuts
      <4>. QED
        BY <4>2, <4>3
    <3>. QED
      BY <3>1 DEF FreeCuts
  <2>. HIDE DEF n
  <2>7. (U \cup {n}) \cup FreeCuts(z) = S /\ (U \cup {n}) \cap FreeCuts(z) = {}
    BY <1>2, <2>5, <2>6
  <2>8. \A c \in U : c[1] # at
    BY <1>2, <2>4, <2>5, CutOnce
  <2>9. \A c \in AllBins : IsInjective(z.head[c])
    BY <1>2, <2>2, <2>3
  <2>10. Heap(z, U \cup {n})
    BY <1>2, <2>3, <2>7, <2>9 DEF Heap
  <2>. QED
    BY <2>1, <2>2, <2>8, <2>10 DEF at, z, n, b
<1>5. CASE m.head[b] = <<>>
  <2>1. at = m.cbrk /\ z = Sbrk(m, Rounded(size))
    BY <1>5 DEF Place, Alloc
  <2>2. z \in Memory /\ z.cbrk + z.left = z.rbrk
        /\ z.cbrk = m.cbrk + BinSize(b) /\ z.head = m.head
    BY <1>1, <1>2, <2>1, SbrkFacts
  <2>3. \A c \in S : c[1] # m.cbrk
    BY <1>1, <1>2, CutMore
  <2>4. Tiled(S \cup {<<m.cbrk, b>>}, m.cbrk + BinSize(b))
    BY <1>1, <1>2, CutMore
  <2>. HIDE DEF at, z, b
  <2>5. FreeCuts(z) = FreeCuts(m) /\ n = <<m.cbrk, b>> /\ n[1] = m.cbrk
    BY <2>1, <2>2 DEF FreeCuts
  <2>. HIDE DEF n
  <2>6. (U \cup {n}) \cup FreeCuts(z) = S \cup {n} /\ n \notin FreeCuts(z)
    BY <2>3, <2>5
  <2>7. Heap(z, U \cup {n})
    BY <1>2, <2>2, <2>4, <2>5, <2>6 DEF Heap
  <2>. QED
    BY <1>2, <2>1, <2>3, <2>7 DEF at, z, n, b
<1>. QED
  BY <1>4, <1>5

(* lb_alloc_free of a block that is in use.                                *)
LEMMA FreeFacts ==
  ASSUME NEW m, NEW U, Heap(m, U), NEW size, Allocable(size), NEW at,
         <<at, Bin(size)>> \in U
  PROVE  Heap(Free(m, at, size), U \ {<<at, Bin(size)>>})
<1>. DEFINE b == Bin(size)
            z == Free(m, at, size)
            n == <<at, b>>
            S == U \cup FreeCuts(m)
            h == m.head[b]
            t == <<at>> \o h
<1>1. b \in AllBins
  BY BinFacts DEF AllBins
<1>2. m \in Memory /\ m.cbrk + m.left = m.rbrk
      /\ Tiled(S, m.cbrk) /\ U \cap FreeCuts(m) = {}
      /\ \A c \in AllBins : IsInjective(m.head[c])
  BY DEF Heap
<1>3. h \in Seq(Nat)
  BY <1>1, <1>2, FreeListTyped
<1>4. n \in U /\ n[1] = at /\ n[2] = b
  OBVIOUS
<1>5. n \in Cuts /\ at \in Nat
  BY <1>2, <1>4 DEF Tiled, Cuts
<1>6. at \notin Range(h)
  BY <1>1, <1>2, <1>4, <1>5 DEF FreeCuts
<1>7. /\ t \in Seq(Nat) /\ Range(t) = {at} \cup Range(h)
      /\ IsInjective(t)
  BY <1>1, <1>2, <1>3, <1>5, <1>6, PushFront, PushRange
<1>8. z = [m EXCEPT !.head[b] = t]
  BY DEF Free
<1>. HIDE DEF z, b
<1>9. /\ z \in Memory /\ z.cbrk = m.cbrk /\ z.left = m.left /\ z.rbrk = m.rbrk
      /\ z.head[b] = t
      /\ \A c \in AllBins : c # b => z.head[c] = m.head[c]
  <2>1. m.head \in [AllBins -> Seq(Nat)] /\ b \in AllBins
    BY <1>1, <1>2 DEF Memory, AllBins
  <2>2. z.head = [m.head EXCEPT ![b] = t] /\ z = [m EXCEPT !.head = [m.head EXCEPT ![b] = t]]
    BY <1>2, <1>8 DEF Memory
  <2>. HIDE DEF t, h
  <2>3. z.head \in [AllBins -> Seq(Nat)]
    BY <1>7, <2>1, <2>2
  <2>4. z.cbrk = m.cbrk /\ z.left = m.left /\ z.rbrk = m.rbrk
    BY <1>2, <2>2 DEF Memory
  <2>5. z \in Memory
    BY <1>2, <2>2, <2>3 DEF Memory, AllBins
  <2>. QED
    BY <2>1, <2>2, <2>4, <2>5
<1>10. FreeCuts(z) = FreeCuts(m) \cup {n}
  <2>1. ASSUME NEW c \in Cuts PROVE c \in FreeCuts(z) <=> c \in FreeCuts(m) \cup {n}
    <3>1. c[2] \in AllBins /\ c = <<c[1], c[2]>>
      BY DEF Cuts
    <3>2. CASE c[2] = b
      BY <1>4, <1>7, <1>9, <3>1, <3>2 DEF FreeCuts
    <3>3. CASE c[2] # b
      BY <1>4, <1>9, <3>1, <3>3 DEF FreeCuts
    <3>. QED
      BY <3>2, <3>3
  <2>. QED
    BY <1>5, <2>1 DEF FreeCuts
<1>. HIDE DEF n
<1>11. (U \ {n}) \cup FreeCuts(z) = S /\ (U \ {n}) \cap FreeCuts(z) = {}
  BY <1>2, <1>4, <1>10
<1>12. \A c \in AllBins : IsInjective(z.head[c])
  BY <1>2, <1>7, <1>9
<1>13. Heap(z, U \ {n})
  BY <1>2, <1>9, <1>11, <1>12 DEF Heap
<1>. QED
  BY <1>13 DEF z, n, b

(* Multiples grow.                                                         *)
LEMMA TimesMonotone ==
  ASSUME NEW G \in Nat, NEW i \in Nat, NEW d \in Nat, i <= d
  PROVE  i * G <= d * G /\ i * G \in Nat
<1>1. PICK k \in Nat : d = i + k
  <2>1. d - i \in Nat /\ d = i + (d - i)
    OBVIOUS
  <2>. QED
    BY <2>1
<1>2. d * G = i * G + k * G /\ k * G \in Nat /\ i * G \in Nat
  BY <1>1, SMT
<1>. QED
  BY <1>2

-----------------------------------------------------------------------------
(* How a stack is cut into pages: the k-th copy from the base starts at    *)
(* word Cut(len, k) + 1 and goes to where the copy before it started.      *)
Cut(len, k) == IF k * Capacity <= len THEN len - k * Capacity ELSE 0

(* The cuts go from the base down to the lowest word, each as far apart as *)
(* the copy between them.                                                  *)
LEMMA CutFacts ==
  ASSUME NEW len \in Nat \ {0}
  PROVE  /\ PagesFor(len) \in Nat \ {0}
         /\ Cut(len, 0) = len /\ Cut(len, PagesFor(len)) = 0
         /\ \A k \in 0..PagesFor(len) : Cut(len, k) \in 0..len
         /\ Amounts(len) \in Seq(Nat) /\ Len(Amounts(len)) = PagesFor(len)
         /\ \A k \in 1..PagesFor(len) :
              /\ Amounts(len)[k] = Cut(len, k - 1) - Cut(len, k)
              /\ Amounts(len)[k] \in 1..Capacity
<1>. DEFINE C == Capacity
            d == len \div C
            r == len % C
            n == PagesFor(len)
            a == Amounts(len)
<1>1. C \in Nat \ {0}
  BY PagesAssumption
<1>. HIDE DEF C
<1>2. d \in Nat /\ r \in 0..(C - 1) /\ len = d * C + r /\ d * C \in Nat
  <2>1. d \in Nat /\ r \in 0..(C - 1) /\ len = d * C + r
    BY <1>1, DivMod
  <2>. QED
    BY <1>1, <2>1, TimesMonotone
<1>3. n = IF r = 0 THEN d ELSE d + 1
  <2>. DEFINE x == len + C - 1
              e == x \div C
              f == x % C
  <2>1. x \in Nat
    BY <1>1
  <2>2. e \in Nat /\ f \in 0..(C - 1) /\ x = e * C + f
    BY <1>1, <2>1, DivMod
  <2>3. n = e
    BY DEF PagesFor, C
  <2>. HIDE DEF e, f, d, r
  <2>4. CASE r = 0
    <3>1. d * C + (C - 1) = e * C + f /\ C - 1 \in 0..(C - 1)
      BY <1>1, <1>2, <2>2, <2>4
    <3>2. d = e
      BY <1>1, <1>2, <2>2, <3>1, DivModUnique
    <3>. QED
      BY <2>3, <2>4, <3>2
  <2>5. CASE r # 0
    <3>1. (d + 1) * C = d * C + C
      BY <1>1, <1>2, SMT
    <3>2. (d + 1) * C + (r - 1) = e * C + f /\ r - 1 \in 0..(C - 1) /\ d + 1 \in Nat
      BY <1>1, <1>2, <2>2, <2>5, <3>1
    <3>3. d + 1 = e
      BY <1>1, <2>2, <3>2, DivModUnique
    <3>. QED
      BY <2>3, <2>5, <3>3
  <2>. QED
    BY <2>4, <2>5
<1>4. a = [i \in 1..n |-> IF i <= d THEN C ELSE r]
  BY DEF Amounts, C
<1>. HIDE DEF d, r, n, a
<1>5. n \in Nat \ {0}
  <2>1. d = 0 => d * C = 0
    BY <1>1
  <2>. QED
    BY <1>2, <1>3, <2>1
<1>6. Cut(len, 0) = len
  <2>1. 0 * C = 0
    BY <1>1
  <2>. QED
    BY <2>1 DEF Cut, C
<1>7. ASSUME NEW k \in 0..d PROVE Cut(len, k) = len - k * C /\ k * C \in 0..len
  <2>1. k * C <= d * C /\ k * C \in Nat
    BY <1>1, <1>2, TimesMonotone
  <2>. QED
    BY <1>2, <2>1 DEF Cut, C
<1>8. n # d => Cut(len, n) = 0 /\ n = d + 1 /\ r # 0
  <2>. SUFFICES ASSUME n # d PROVE Cut(len, n) = 0
    BY <1>3
  <2>1. n = d + 1 /\ n * C = d * C + C
    BY <1>1, <1>2, <1>3, SMT
  <2>2. ~ (n * C <= len)
    BY <1>1, <1>2, <2>1
  <2>. QED
    BY <2>2 DEF Cut, C
<1>9. n = d => r = 0
  BY <1>2, <1>3
<1>10. Cut(len, n) = 0
  <2>1. CASE n = d
    <3>1. Cut(len, d) = len - d * C
      BY <1>2, <1>7
    <3>. QED
      BY <1>2, <1>9, <2>1, <3>1
  <2>. QED
    BY <1>8, <2>1
<1>11. ASSUME NEW k \in 0..n PROVE Cut(len, k) \in 0..len
  <2>1. k \in 0..d \/ k = n
    BY <1>2, <1>3
  <2>. QED
    BY <1>2, <1>7, <1>10, <2>1
<1>12. ASSUME NEW k \in 1..n
       PROVE  a[k] = Cut(len, k - 1) - Cut(len, k) /\ a[k] \in 1..C
  <2>0. k \in Nat /\ k - 1 \in 0..d
    BY <1>2, <1>3, <1>5
  <2>1. Cut(len, k - 1) = len - (k - 1) * C
    BY <1>7, <2>0
  <2>2. (k - 1) * C = k * C - C /\ k * C \in Nat
    BY <1>1, <2>0, SMT
  <2>3. CASE k <= d
    <3>1. Cut(len, k) = len - k * C /\ a[k] = C
      BY <1>2, <1>4, <1>7, <2>0, <2>3
    <3>. QED
      BY <1>1, <2>1, <2>2, <3>1
  <2>4. CASE ~ (k <= d)
    <3>1. k = n /\ n # d /\ k - 1 = d /\ a[k] = r
      BY <1>2, <1>3, <1>4, <2>0, <2>4
    <3>. QED
      BY <1>1, <1>2, <1>8, <2>1, <3>1
  <2>. QED
    BY <2>3, <2>4
<1>13. a \in Seq(Nat) /\ Len(a) = n
  <2>1. a \in [1..n -> Nat]
    BY <1>1, <1>2, <1>4
  <2>2. a \in Seq(Nat)
    BY <1>5, <2>1, SeqDef
  <2>. QED
    BY <1>5, <2>1, <2>2, LenProperties
<1>. QED
  BY <1>5, <1>6, <1>10, <1>11, <1>12, <1>13 DEF n, a, C

(* The copies on the way out are those on the way in, last first.          *)
LEMMA OutAmountsFacts ==
  ASSUME NEW len \in Nat \ {0}
  PROVE  /\ Len(OutAmounts(len)) = PagesFor(len)
         /\ \A j \in 1..PagesFor(len) :
              OutAmounts(len)[j] = Amounts(len)[(PagesFor(len) - j) + 1]
<1>. DEFINE a == Amounts(len)
            n == PagesFor(len)
<1>1. a \in Seq(Nat) /\ Len(a) = n /\ n \in Nat
  BY CutFacts
<1>. HIDE DEF a, n
<1>2. OutAmounts(len) = [i \in 1..n |-> a[(n - i) + 1]]
  BY <1>1 DEF OutAmounts, Reverse, a
<1>3. OutAmounts(len) \in Seq(Nat)
  BY <1>1, <1>2, BackwardsRange
<1>4. Len(OutAmounts(len)) = n
  BY <1>1, <1>2, <1>3, LenProperties
<1>. QED
  BY <1>2, <1>4 DEF n, a

-----------------------------------------------------------------------------
(* Pages, those on the switch's list and those that others have.           *)
PageBin == Bin(PageSize)
PageCuts(S) == S \X {PageBin}

(* The switch's list on the heap, next to the blocks of others.            *)
Pool(m, list, others) ==
  /\ list \in Seq(Nat) /\ IsInjective(list)
  /\ \A c \in others : c[1] \notin Range(list)
  /\ Heap(m, others \cup PageCuts(Range(list)))

(* A list of no pages.                                                     *)
LEMMA EmptyRange == Range(<<>>) = {} /\ IsInjective(<<>>)
BY EmptySeq DEF Range, IsInjective

(* lbi_switch_page_obtain: the page was nobody's, whether from the list or *)
(* from the allocator (switch.c 158-167).                                  *)
LEMMA ObtainFacts ==
  ASSUME NEW m, NEW list, NEW others, Pool(m, list, others)
  PROVE  LET g == Obtain(m, list)
             taken == others \cup {<<g.page, PageBin>>}
         IN  /\ g.page \in Nat /\ g.mem \in Memory
             /\ \A c \in others : c[1] # g.page
             /\ Pool(g.mem, g.page_list, taken)
             /\ Range(g.page_list) \subseteq Range(list)
             /\ list # <<>> => g.page \in Range(list)
<1>. DEFINE g == Obtain(m, list)
            taken == others \cup {<<g.page, PageBin>>}
<1>1. list \in Seq(Nat) /\ IsInjective(list) /\ Heap(m, others \cup PageCuts(Range(list)))
      /\ \A c \in others : c[1] \notin Range(list)
  BY DEF Pool
<1>2. CASE list # <<>>
  <2>1. g.page = Head(list) /\ g.page_list = Tail(list) /\ g.mem = m
    BY <1>2 DEF Obtain
  <2>2. /\ g.page \in Nat /\ g.page_list \in Seq(Nat) /\ IsInjective(g.page_list)
        /\ Range(list) = {g.page} \cup Range(g.page_list)
        /\ g.page \notin Range(g.page_list)
    BY <1>1, <1>2, <2>1, PopFront, PopRange
  <2>. HIDE DEF g
  <2>3. others \cup PageCuts(Range(list)) = taken \cup PageCuts(Range(g.page_list))
    BY <2>2 DEF PageCuts
  <2>4. \A c \in taken : c[1] \notin Range(g.page_list)
    BY <1>1, <2>2
  <2>5. Pool(g.mem, g.page_list, taken)
    BY <1>1, <2>1, <2>2, <2>3, <2>4 DEF Pool
  <2>. QED
    BY <1>1, <2>1, <2>2, <2>5 DEF Heap, g
<1>3. CASE list = <<>>
  <2>1. g.page = Place(m, PageSize) /\ g.page_list = <<>> /\ g.mem = Alloc(m, PageSize)
    BY <1>3 DEF Obtain
  <2>2. Range(list) = {} /\ PageCuts(Range(list)) = {} /\ Heap(m, others)
    <3>1. Range(list) = {}
      BY <1>3, EmptyRange
    <3>2. PageCuts(Range(list)) = {}
      BY <3>1 DEF PageCuts
    <3>. QED
      BY <1>1, <3>1, <3>2
  <2>3. Allocable(PageSize)
    BY PagesAssumption
  <2>. HIDE DEF g
  <2>4. g.page \in Nat /\ Heap(g.mem, taken) /\ \A c \in others : c[1] # g.page
    BY <2>1, <2>2, <2>3, AllocFacts DEF PageBin
  <2>5. taken \cup PageCuts(Range(g.page_list)) = taken /\ Range(g.page_list) = {}
    BY <1>3, <2>1, <2>2
  <2>6. g.page_list \in Seq(Nat) /\ IsInjective(g.page_list)
    BY <1>1, <1>3, <2>1
  <2>7. Pool(g.mem, g.page_list, taken)
    BY <2>4, <2>5, <2>6 DEF Pool
  <2>. QED
    BY <1>3, <2>4, <2>5, <2>7 DEF Heap, g
<1>. QED
  BY <1>2, <1>3

-----------------------------------------------------------------------------
(* The copy out.                                                           *)
Page == [1..Capacity -> Word \cup {Junk}]
Datas == UNION {[D -> Page] : D \in SUBSET Nat}
CopyStates ==
  [mem : Memory, page_list : Seq(Nat), pages : Seq(Nat), data : Datas, rsp : Nat]

(* The k-th copy from the base of a stack.                                 *)
Part(words, k) == SubSeq(words, Cut(Len(words), k) + 1, Cut(Len(words), k - 1))

(* All copies from the k-th on are done: first is where they began, others *)
(* are the blocks that have nothing to do with it.                         *)
Copying(s, first, others, words, k) ==
  /\ s \in CopyStates
  /\ s.rsp = Cut(Len(words), k)
  /\ Len(s.pages) = PagesFor(Len(words)) - k
  /\ IsInjective(s.pages)
  /\ \A c \in others : c[1] \notin Range(s.pages)
  /\ Pool(s.mem, s.page_list, others \cup PageCuts(Range(s.pages)))
  /\ \A p \in DOMAIN first \ Range(s.pages) : p \in DOMAIN s.data /\ s.data[p] = first[p]
  /\ \A i \in 1..Len(s.pages) :
       s.pages[i] \in DOMAIN s.data /\ s.data[s.pages[i]] = Filled(Part(words, k + i))

(* A page with a copy in it is a page.                                     *)
LEMMA FilledTyped ==
  ASSUME NEW words \in Seq(Word), Len(words) <= Capacity
  PROVE  Filled(words) \in Page
<1>1. Capacity \in Nat /\ Len(words) \in Nat
  BY PagesAssumption, LenProperties
<1>2. \A i \in 1..Len(words) : words[i] \in Word
  BY ElementOfSeq
<1>3. \A i \in 1..Capacity : i > Capacity - Len(words) => i - (Capacity - Len(words)) \in 1..Len(words)
  BY <1>1
<1>. HIDE DEF Capacity
<1>. QED
  BY <1>2, <1>3 DEF Filled, Page

(* The part of a stack that goes into the k-th page.                       *)
LEMMA PartFacts ==
  ASSUME NEW words \in Seq(Word), words # <<>>, NEW k \in 1..PagesFor(Len(words))
  PROVE  /\ Part(words, k) \in Seq(Word)
         /\ Len(Part(words, k)) = Amounts(Len(words))[k]
         /\ \A i \in 1..Amounts(Len(words))[k] :
              Part(words, k)[i] = words[Cut(Len(words), k) + i]
<1>. DEFINE len == Len(words)
            lo == Cut(len, k)
            hi == Cut(len, k - 1)
            amt == Amounts(len)[k]
            z == SubSeq(words, lo + 1, hi)
<1>1. len \in Nat \ {0}
  BY LenProperties, EmptySeq
<1>2. lo \in 0..len /\ hi \in 0..len /\ amt = hi - lo /\ amt \in 1..Capacity
      /\ Capacity \in Nat
  <2>1. k \in 0..PagesFor(len) /\ k - 1 \in 0..PagesFor(len)
    BY <1>1, CutFacts
  <2>. QED
    BY <1>1, <2>1, CutFacts, PagesAssumption
<1>. HIDE DEF lo, hi, amt
<1>3. \A i \in (lo + 1)..hi : words[i] \in Word
  <2>1. \A i \in (lo + 1)..hi : i \in 1..Len(words)
    BY <1>1, <1>2
  <2>. QED
    BY <2>1, ElementOfSeq
<1>4. /\ z \in Seq(Word)
      /\ Len(z) = IF lo + 1 <= hi THEN hi - (lo + 1) + 1 ELSE 0
      /\ \A i \in 1..(hi - (lo + 1) + 1) : z[i] = words[(lo + 1) + i - 1]
  <2>1. lo + 1 \in Int /\ hi \in Int
    BY <1>2
  <2>. QED
    BY <1>3, <2>1, SubSeqProperties
<1>5. /\ hi - (lo + 1) + 1 = amt /\ lo + 1 <= hi
      /\ \A i \in 1..amt : (lo + 1) + i - 1 = lo + i
  BY <1>2
<1>6. Part(words, k) = z
  BY DEF Part, lo, hi
<1>. HIDE DEF z
<1>7. /\ z \in Seq(Word) /\ Len(z) = amt
      /\ \A i \in 1..amt : z[i] = words[lo + i]
  BY <1>4, <1>5
<1>. QED
  BY <1>6, <1>7 DEF lo, amt

(* The pages after a page was written to.                                  *)
Stored(z, d, p, w) ==
  /\ z \in Datas /\ DOMAIN z = {p} \cup DOMAIN d
  /\ z[p] = w
  /\ \A q \in DOMAIN d : q # p => z[q] = d[q]

(* A page is stored, and no other page changes.                            *)
LEMMA PutFacts ==
  ASSUME NEW d \in Datas, NEW p \in Nat, NEW w \in Page
  PROVE  Stored(Put(d, p, w), d, p, w)
<1>. DEFINE z == Put(d, p, w)
<1>1. PICK D \in SUBSET Nat : d \in [D -> Page]
  BY DEF Datas
<1>2. z = [q \in {p} \cup D |-> IF q = p THEN w ELSE d[q]]
  BY <1>1 DEF Put
<1>. HIDE DEF z
<1>3. z \in [{p} \cup D -> Page]
  BY <1>1, <1>2
<1>4. {p} \cup D \in SUBSET Nat
  BY <1>1
<1>5. z \in Datas
  BY <1>3, <1>4 DEF Datas
<1>. QED
  BY <1>1, <1>2, <1>3, <1>5 DEF z, Stored

(* One turn of the loop of the copy out keeps what its turns before made   *)
(* true (switch.c 400-437).                                                *)
LEMMA OnePageMore ==
  ASSUME NEW s, NEW first, NEW others, NEW words \in Seq(Word), words # <<>>,
         NEW k \in 1..PagesFor(Len(words)),
         Copying(s, first, others, words, k)
  PROVE  Copying(CopyPage(s, words, Amounts(Len(words))[k]), first, others, words, k - 1)
<1>. DEFINE len == Len(words)
            amt == Amounts(len)[k]
            z == CopyPage(s, words, amt)
            got == Obtain(s.mem, s.page_list)
            all == others \cup PageCuts(Range(s.pages))
            w == Filled(Part(words, k))
<1>1. len \in Nat \ {0}
  BY LenProperties, EmptySeq
<1>2. /\ k \in Nat /\ k - 1 \in 0..PagesFor(len) /\ PagesFor(len) \in Nat
      /\ Cut(len, k) \in 0..len /\ Cut(len, k - 1) \in 0..len
      /\ amt = Cut(len, k - 1) - Cut(len, k) /\ amt \in 1..Capacity
  <2>1. PagesFor(len) \in Nat
    BY <1>1, CutFacts
  <2>2. k \in 0..PagesFor(len) /\ k - 1 \in 0..PagesFor(len)
    BY <2>1
  <2>. QED
    BY <1>1, <2>1, <2>2, CutFacts
<1>3. /\ s \in CopyStates /\ s.rsp = Cut(len, k)
      /\ Len(s.pages) = PagesFor(len) - k /\ IsInjective(s.pages)
      /\ \A c \in others : c[1] \notin Range(s.pages)
      /\ Pool(s.mem, s.page_list, all)
      /\ \A p \in DOMAIN first \ Range(s.pages) : p \in DOMAIN s.data /\ s.data[p] = first[p]
      /\ \A i \in 1..Len(s.pages) :
           s.pages[i] \in DOMAIN s.data /\ s.data[s.pages[i]] = Filled(Part(words, k + i))
  BY DEF Copying
<1>4. s.pages \in Seq(Nat) /\ s.data \in Datas /\ s.mem \in Memory /\ s.page_list \in Seq(Nat)
      /\ s.rsp \in Nat
  BY <1>3 DEF CopyStates
<1>5. /\ got.page \in Nat /\ got.mem \in Memory
      /\ \A c \in all : c[1] # got.page
      /\ Pool(got.mem, got.page_list, all \cup {<<got.page, PageBin>>})
  <2>. HIDE DEF all
  <2>1. Pool(s.mem, s.page_list, all)
    BY <1>3
  <2>. QED
    BY <2>1, ObtainFacts
<1>6. got.page_list \in Seq(Nat)
  BY <1>5 DEF Pool
<1>7. got.page \notin Range(s.pages)
  <2>1. \A p \in Range(s.pages) : <<p, PageBin>> \in all /\ <<p, PageBin>>[1] = p
    BY DEF PageCuts
  <2>. QED
    BY <1>5, <2>1
<1>. HIDE DEF got
<1>8. Part(words, k) \in Seq(Word) /\ Len(Part(words, k)) = amt
  BY PartFacts
<1>9. w \in Page
  BY <1>2, <1>8, FilledTyped
<1>10. SubSeq(words, s.rsp + 1, s.rsp + amt) = Part(words, k)
  <2>1. s.rsp + amt = Cut(len, k - 1) /\ s.rsp = Cut(len, k)
    BY <1>2, <1>3
  <2>. QED
    BY <2>1 DEF Part
<1>11. z = [mem |-> got.mem, page_list |-> got.page_list,
            pages |-> <<got.page>> \o s.pages, data |-> Put(s.data, got.page, w),
            rsp |-> s.rsp + amt]
  BY <1>10 DEF CopyPage, got
<1>. HIDE DEF w, amt, len, all
<1>. DEFINE ps == <<got.page>> \o s.pages
            d == Put(s.data, got.page, w)
<1>12. /\ ps \in Seq(Nat) /\ DOMAIN ps = 1..(Len(s.pages) + 1) /\ ps[1] = got.page
       /\ \A i \in 2..(Len(s.pages) + 1) : ps[i] = s.pages[i - 1]
       /\ Range(ps) = {got.page} \cup Range(s.pages) /\ IsInjective(ps)
  BY <1>3, <1>4, <1>5, <1>7, PushFront, PushRange
<1>13. /\ d \in Datas /\ DOMAIN d = {got.page} \cup DOMAIN s.data /\ d[got.page] = w
       /\ \A q \in DOMAIN s.data : q # got.page => d[q] = s.data[q]
  <2>1. s.data \in Datas /\ got.page \in Nat /\ w \in Page /\ d = Put(s.data, got.page, w)
    BY <1>4, <1>5, <1>9
  <2>. HIDE DEF z, ps, d
  <2>2. Stored(d, s.data, got.page, w)
    BY <2>1, PutFacts
  <2>. QED
    BY <2>2 DEF Stored
<1>. HIDE DEF z, ps, d
<1>14. /\ z.mem = got.mem /\ z.page_list = got.page_list /\ z.pages = ps /\ z.data = d
       /\ z.rsp = s.rsp + amt /\ z \in CopyStates
  <2>1. s.rsp + amt \in Nat
    BY <1>2, <1>4
  <2>. QED
    BY <1>5, <1>6, <1>11, <1>12, <1>13, <2>1 DEF CopyStates, ps, d
<1>15. z.rsp = Cut(len, k - 1)
  BY <1>2, <1>3, <1>14
<1>16. Len(z.pages) = PagesFor(len) - (k - 1) /\ Len(s.pages) + 1 = Len(z.pages)
  <2>1. Len(ps) = Len(s.pages) + 1
    BY <1>12, LenProperties, <1>4
  <2>. QED
    BY <1>2, <1>3, <1>14, <2>1
<1>17. \A c \in others : c[1] \notin Range(z.pages)
  <2>1. \A c \in others : c \in all
    BY DEF all
  <2>. QED
    BY <1>3, <1>5, <1>12, <1>14, <2>1
<1>18. Pool(z.mem, z.page_list, others \cup PageCuts(Range(z.pages)))
  <2>1. others \cup PageCuts(Range(z.pages)) = all \cup {<<got.page, PageBin>>}
    BY <1>12, <1>14 DEF PageCuts, all
  <2>. QED
    BY <1>5, <1>14, <2>1
<1>19. ASSUME NEW p \in DOMAIN first \ Range(z.pages)
       PROVE  p \in DOMAIN z.data /\ z.data[p] = first[p]
  BY <1>3, <1>12, <1>13, <1>14
<1>20. ASSUME NEW i \in 1..Len(z.pages)
       PROVE  z.pages[i] \in DOMAIN z.data /\ z.data[z.pages[i]] = Filled(Part(words, (k - 1) + i))
  <2>1. CASE i = 1
    <3>1. (k - 1) + i = k
      BY <1>2, <2>1
    <3>. QED
      BY <1>12, <1>13, <1>14, <2>1, <3>1 DEF w
  <2>2. CASE i # 1
    <3>1. Len(s.pages) \in Nat
      BY <1>4, LenProperties
    <3>2. i \in 2..(Len(s.pages) + 1) /\ i - 1 \in 1..Len(s.pages) /\ (k - 1) + i = k + (i - 1)
      BY <1>2, <1>16, <2>2, <3>1
    <3>3. z.pages[i] = s.pages[i - 1]
      BY <1>12, <1>14, <3>2
    <3>4. s.pages[i - 1] \in DOMAIN s.data /\ s.data[s.pages[i - 1]] = Filled(Part(words, k + (i - 1)))
      BY <1>3, <3>2
    <3>5. s.pages[i - 1] # got.page
      <4>1. s.pages[i - 1] \in Range(s.pages)
        BY <1>4, <3>1, <3>2, LenProperties DEF Range
      <4>. QED
        BY <1>7, <4>1
    <3>6. z.data[s.pages[i - 1]] = s.data[s.pages[i - 1]] /\ s.pages[i - 1] \in DOMAIN z.data
      BY <1>13, <1>14, <3>4, <3>5
    <3>. QED
      BY <3>2, <3>3, <3>4, <3>6
  <2>. QED
    BY <2>1, <2>2
<1>21. IsInjective(z.pages)
  BY <1>12, <1>14
<1>22. Copying(z, first, others, words, k - 1)
  BY <1>14, <1>15, <1>16, <1>17, <1>18, <1>19, <1>20, <1>21 DEF Copying, len
<1>. QED
  BY <1>22 DEF z, amt, len

(* What every sequence of copies does that takes these steps.              *)
CopiesOn(h, words) ==
  \A i \in 1..PagesFor(Len(words)) :
    LET z == CopyPage(h[i - 1], words, OutAmounts(Len(words))[i])
    IN  z \in CopyStates => h[i] = z

CopiesRight(h, first, others, words) ==
  \A i \in 0..PagesFor(Len(words)) :
    Copying(h[i], first, others, words, PagesFor(Len(words)) - i)

(* All turns together: from the first copy to the last.                    *)
LEMMA CopySteps ==
  ASSUME NEW h, NEW first, NEW others, NEW words \in Seq(Word), words # <<>>,
         Copying(h[0], first, others, words, PagesFor(Len(words))),
         CopiesOn(h, words)
  PROVE  CopiesRight(h, first, others, words)
<1>. DEFINE n == PagesFor(Len(words))
            out == OutAmounts(Len(words))
            P == {i \in Nat : i <= n => Copying(h[i], first, others, words, n - i)}
<1>1. Len(words) \in Nat \ {0} /\ n \in Nat
  <2>1. Len(words) \in Nat \ {0}
    BY LenProperties, EmptySeq
  <2>. QED
    BY <2>1, CutFacts
<1>2. \A j \in 1..n : out[j] = Amounts(Len(words))[(n - j) + 1]
  BY <1>1, OutAmountsFacts
<1>. HIDE DEF n, out
<1>3. 0 \in P
  BY <1>1 DEF n
<1>4. ASSUME NEW i \in Nat, i \in P PROVE i + 1 \in P
  <2>. SUFFICES ASSUME i + 1 <= n PROVE Copying(h[i + 1], first, others, words, n - (i + 1))
    OBVIOUS
  <2>. DEFINE k == n - i
              z == CopyPage(h[i], words, Amounts(Len(words))[k])
  <2>1. k \in 1..n /\ i + 1 \in 1..n /\ (i + 1) - 1 = i /\ (n - (i + 1)) + 1 = k
        /\ k - 1 = n - (i + 1)
    BY <1>1
  <2>2. Copying(h[i], first, others, words, k)
    BY <1>1, <1>4
  <2>. HIDE DEF k
  <2>3. Copying(z, first, others, words, k - 1)
    <3>1. k \in 1..PagesFor(Len(words))
      BY <2>1 DEF n
    <3>. QED
      BY <2>2, <3>1, OnePageMore
  <2>. HIDE DEF z
  <2>4. z \in CopyStates
    BY <2>3 DEF Copying
  <2>5. z = CopyPage(h[(i + 1) - 1], words, out[i + 1])
    BY <1>2, <2>1 DEF z
  <2>6. h[i + 1] = z
    BY <2>1, <2>4, <2>5 DEF CopiesOn, n, out
  <2>. QED
    BY <2>1, <2>3, <2>6
<1>5. \A i \in 0..n : Copying(h[i], first, others, words, n - i)
  <2>. HIDE DEF P
  <2>1. Nat \subseteq P
    BY <1>3, <1>4, SetInduction
  <2>2. \A i \in 0..n : i \in Nat /\ i <= n
    BY <1>1
  <2>. QED
    BY <2>1, <2>2 DEF P
<1>. QED
  BY <1>5 DEF n, CopiesRight

(* The copy out leaves the stack in pages that were nobody's.              *)
LEMMA CopyOutFacts ==
  ASSUME NEW others, Pool(mem, page_list, others), data \in Datas,
         NEW words \in Seq(Word), words # <<>>
  PROVE  Copying(CopyOut(words), data, others, words, 0)
<1>. DEFINE n == PagesFor(Len(words))
            out == OutAmounts(Len(words))
            s0 == [mem |-> mem, page_list |-> page_list, pages |-> <<>>, data |-> data,
                   rsp |-> 0]
            Do(s, i) == IF CopyPage(s, words, out[i]) \in CopyStates
                        THEN CopyPage(s, words, out[i]) ELSE s
            step == [p \in (1..n) \X CopyStates |-> Do(p[2], p[1])]
            Body(f) == [i \in 0..n |->
                          IF i = 0 THEN s0 ELSE CopyPage(f[i - 1], words, out[i])]
            after == CHOOSE f : f = Body(f)
<1>1. Len(words) \in Nat \ {0} /\ n \in Nat /\ Len(out) = n
  <2>1. Len(words) \in Nat \ {0}
    BY LenProperties, EmptySeq
  <2>. QED
    BY <2>1, CutFacts, OutAmountsFacts
<1>2. CopyOut(words) = after[n]
  BY <1>1 DEF CopyOut
<1>3. s0 \in CopyStates
  BY EmptySeq DEF Pool, Heap, CopyStates
<1>4. Copying(s0, data, others, words, n)
  <2>1. s0.rsp = Cut(Len(words), n)
    BY <1>1, CutFacts
  <2>2. Len(s0.pages) = n - n /\ IsInjective(s0.pages) /\ Range(s0.pages) = {}
    BY <1>1, EmptyRange, EmptySeq
  <2>3. others \cup PageCuts(Range(s0.pages)) = others
    BY <2>2 DEF PageCuts
  <2>4. \A i \in 1..Len(s0.pages) : FALSE
    BY <2>2, <1>1
  <2>5. s0.data = data /\ s0.mem = mem /\ s0.page_list = page_list
    OBVIOUS
  <2>. HIDE DEF s0
  <2>. QED
    BY <1>3, <2>1, <2>2, <2>3, <2>4, <2>5 DEF Copying, n
<1>. HIDE DEF s0, n, out
<1>5. \A f : Body(f) = [i \in 0..n |-> IF i = 0 THEN s0 ELSE CopyPage(f[i - 1], words, out[i])]
  OBVIOUS
<1>6. step \in [(1..n) \X CopyStates -> CopyStates]
  OBVIOUS
<1>. HIDE DEF Body, Do, after
<1>7. PICK g \in [0..n -> CopyStates] :
        g[0] = s0 /\ \A i \in 1..n : g[i] = step[<<i, g[i - 1]>>]
  <2>. HIDE DEF step
  <2>1. Computable(n, CopyStates, s0, step)
    BY <1>1, <1>3, <1>6, Recursion
  <2>. QED
    BY <2>1 DEF Computable
<1>8. ASSUME NEW i \in 1..n PROVE g[i] = Do(g[i - 1], i)
  <2>1. i - 1 \in 0..n
    BY <1>1
  <2>2. g[i - 1] \in CopyStates
    <3>. HIDE DEF step
    <3>. QED
      BY <2>1, <1>7
  <2>3. <<i, g[i - 1]>> \in (1..n) \X CopyStates
    BY <2>2
  <2>4. g[i] = step[<<i, g[i - 1]>>]
    BY <1>7
  <2>. QED
    BY <2>3, <2>4
<1>. HIDE DEF step
<1>9. CopiesOn(g, words)
  <2>1. \A i \in 1..n : LET z == CopyPage(g[i - 1], words, out[i]) IN z \in CopyStates => g[i] = z
    BY <1>8 DEF Do
  <2>. QED
    BY <2>1 DEF CopiesOn, n, out
<1>10. CopiesRight(g, data, others, words)
  <2>1. Copying(g[0], data, others, words, PagesFor(Len(words)))
    BY <1>4, <1>7 DEF n
  <2>. QED
    BY <1>9, <2>1, CopySteps
<1>11. ASSUME NEW i \in 1..n PROVE g[i] = CopyPage(g[i - 1], words, out[i])
  <2>. DEFINE k == n - (i - 1)
  <2>1. i - 1 \in 0..n /\ k \in 1..n /\ (n - i) + 1 = k
    BY <1>1
  <2>2. Copying(g[i - 1], data, others, words, k)
    BY <1>10, <2>1 DEF CopiesRight, n
  <2>3. out[i] = Amounts(Len(words))[k]
    BY <1>1, <2>1, OutAmountsFacts DEF n, out
  <2>. HIDE DEF k
  <2>4. Copying(CopyPage(g[i - 1], words, Amounts(Len(words))[k]), data, others, words, k - 1)
    <3>1. k \in 1..PagesFor(Len(words))
      BY <2>1 DEF n
    <3>. QED
      BY <2>2, <3>1, OnePageMore
  <2>5. CopyPage(g[i - 1], words, out[i]) \in CopyStates
    BY <2>3, <2>4 DEF Copying
  <2>. QED
    BY <1>8, <2>5 DEF Do
<1>12. g = Body(g)
  <2>. DEFINE b == [i \in 0..n |-> IF i = 0 THEN s0 ELSE CopyPage(g[i - 1], words, out[i])]
  <2>1. ASSUME NEW i \in 0..n PROVE g[i] = b[i]
    <3>1. CASE i = 0
      BY <3>1, <1>7
    <3>2. CASE i # 0
      <4>1. i \in 1..n
        BY <3>2, <1>1
      <4>. QED
        BY <3>2, <4>1, <1>11
    <3>. QED
      BY <3>1, <3>2
  <2>2. b = [i \in 0..n |-> b[i]] /\ Body(g) = b
    BY <1>5
  <2>3. g = [i \in 0..n |-> g[i]]
    OBVIOUS
  <2>. HIDE DEF b
  <2>. QED
    BY <2>1, <2>2, <2>3
<1>13. after = Body(after)
  BY <1>12 DEF after
<1>14. after[0] = s0 /\ \A i \in 1..n : after[i] = CopyPage(after[i - 1], words, out[i])
  <2>1. 0 \in 0..n /\ \A i \in 1..n : i \in 0..n /\ i # 0
    BY <1>1
  <2>. QED
    BY <1>5, <1>13, <2>1
<1>15. CopiesOn(after, words)
  BY <1>14 DEF CopiesOn, n, out
<1>16. Copying(after[0], data, others, words, PagesFor(Len(words)))
  BY <1>4, <1>14 DEF n
<1>17. CopiesRight(after, data, others, words)
  BY <1>15, <1>16, CopySteps
<1>18. Copying(after[n], data, others, words, 0)
  <2>1. n \in 0..n /\ n - n = 0
    BY <1>1
  <2>. QED
    BY <1>17, <2>1 DEF CopiesRight, n
<1>. QED
  BY <1>2, <1>18

-----------------------------------------------------------------------------
(* The copy in.                                                            *)
LEMMA FilledEnd ==
  ASSUME NEW words \in Seq(Word), Len(words) \in 1..Capacity
  PROVE  SubSeq(Filled(words), Capacity - Len(words) + 1, Capacity) = words
<1>. DEFINE C == Capacity
            n == Len(words)
            p == Filled(words)
            z == SubSeq(p, C - n + 1, C)
<1>1. C \in Nat \ {0} /\ n \in 1..C
  BY PagesAssumption
<1>2. \A i \in 1..n : words[i] \in Word
  BY ElementOfSeq
<1>3. p = [i \in 1..C |-> IF i > C - n THEN words[i - (C - n)] ELSE Junk]
  BY DEF Filled
<1>. HIDE DEF C, n, p
<1>4. ASSUME NEW j \in 1..n PROVE p[(C - n) + j] = words[j]
  <2>1. (C - n) + j \in 1..C /\ (C - n) + j > C - n /\ ((C - n) + j) - (C - n) = j
    BY <1>1
  <2>. QED
    BY <1>3, <2>1
<1>5. ASSUME NEW i \in (C - n + 1)..C PROVE p[i] \in Word
  <2>1. i - (C - n) \in 1..n /\ (C - n) + (i - (C - n)) = i
    BY <1>1
  <2>. QED
    BY <1>2, <1>4, <2>1
<1>6. /\ z \in Seq(Word)
      /\ Len(z) = IF C - n + 1 <= C THEN C - (C - n + 1) + 1 ELSE 0
      /\ \A i \in 1..(C - (C - n + 1) + 1) : z[i] = p[(C - n + 1) + i - 1]
  <2>1. C - n + 1 \in Int /\ C \in Int
    BY <1>1
  <2>. QED
    BY <1>5, <2>1, SubSeqProperties
<1>7. C - n + 1 <= C /\ C - (C - n + 1) + 1 = n
      /\ \A i \in 1..n : (C - n + 1) + i - 1 = (C - n) + i
  BY <1>1
<1>. HIDE DEF z
<1>8. Len(z) = Len(words) /\ \A i \in 1..Len(z) : z[i] = words[i]
  BY <1>4, <1>6, <1>7 DEF n
<1>9. z = words
  BY <1>6, <1>8, SeqEqual
<1>. QED
  BY <1>9 DEF z, p, C, n

(* Where a stack of words is, when its thread does not run.                *)
Holds(d, pages, words) ==
  /\ Len(pages) = PagesFor(Len(words))
  /\ \A i \in 1..Len(pages) :
       pages[i] \in DOMAIN d /\ d[pages[i]] = Filled(Part(words, i))

(* The copy in gives the stack that the pages hold (switch.c 344-380).     *)
LEMMA CopyInFacts ==
  ASSUME NEW words \in Seq(Word), words # <<>>, NEW t, t.len = Len(words),
         Holds(data, t.pages, words)
  PROVE  CopyIn(t) = words
<1>. DEFINE len == Len(words)
            n == PagesFor(len)
            T == Seq(Word)
            copies == Amounts(len)
            from(i) == SubSeq(data[t.pages[i]], Capacity - copies[i] + 1, Capacity)
            step == [p \in (1..n) \X T |-> from(p[1]) \o p[2]]
            Body(f) == [i \in 0..n |-> IF i = 0 THEN <<>> ELSE from(i) \o f[i - 1]]
            after == CHOOSE f : f = Body(f)
            rest(i) == SubSeq(words, Cut(len, i) + 1, len)
<1>1. len \in Nat \ {0} /\ n \in Nat /\ Len(copies) = n
  <2>1. len \in Nat \ {0}
    BY LenProperties, EmptySeq
  <2>. QED
    BY <2>1, CutFacts
<1>2. CopyIn(t) = after[n]
  BY <1>1 DEF CopyIn
<1>3. ASSUME NEW i \in 1..n PROVE from(i) = Part(words, i) /\ from(i) \in T
  <2>1. data[t.pages[i]] = Filled(Part(words, i))
    BY DEF Holds
  <2>2. Part(words, i) \in T /\ Len(Part(words, i)) = copies[i] /\ copies[i] \in 1..Capacity
    BY <1>1, PartFacts, CutFacts
  <2>. QED
    BY <2>1, <2>2, FilledEnd
<1>. HIDE DEF from, n, len, copies
<1>4. \A f : Body(f) = [i \in 0..n |-> IF i = 0 THEN <<>> ELSE from(i) \o f[i - 1]]
  OBVIOUS
<1>5. step \in [(1..n) \X T -> T]
  <2>1. ASSUME NEW i \in 1..n, NEW q \in T PROVE from(i) \o q \in T
    BY <1>3, ConcatProperties
  <2>. QED
    BY <2>1
<1>6. <<>> \in T
  BY EmptySeq
<1>. HIDE DEF Body, after
<1>7. PICK g \in [0..n -> T] :
        g[0] = <<>> /\ \A i \in 1..n : g[i] = step[<<i, g[i - 1]>>]
  <2>. HIDE DEF step, T
  <2>1. Computable(n, T, <<>>, step)
    BY <1>1, <1>5, <1>6, Recursion
  <2>. QED
    BY <2>1 DEF Computable
<1>8. ASSUME NEW i \in 1..n PROVE g[i] = from(i) \o g[i - 1]
  <2>1. i - 1 \in 0..n
    BY <1>1
  <2>2. g[i - 1] \in T
    <3>. HIDE DEF step, T
    <3>. QED
      BY <2>1, <1>7
  <2>3. <<i, g[i - 1]>> \in (1..n) \X T
    BY <2>2
  <2>4. g[i] = step[<<i, g[i - 1]>>]
    BY <1>7
  <2>. QED
    BY <2>3, <2>4
<1>. HIDE DEF step
<1>9. g = Body(g)
  <2>. DEFINE b == [i \in 0..n |-> IF i = 0 THEN <<>> ELSE from(i) \o g[i - 1]]
  <2>1. ASSUME NEW i \in 0..n PROVE g[i] = b[i]
    <3>1. CASE i = 0
      BY <3>1, <1>7
    <3>2. CASE i # 0
      <4>1. i \in 1..n
        BY <3>2, <1>1
      <4>. QED
        BY <3>2, <4>1, <1>8
    <3>. QED
      BY <3>1, <3>2
  <2>2. b = [i \in 0..n |-> b[i]] /\ Body(g) = b
    BY <1>4
  <2>3. g = [i \in 0..n |-> g[i]]
    OBVIOUS
  <2>. HIDE DEF b
  <2>. QED
    BY <2>1, <2>2, <2>3
<1>10. after = Body(after)
  BY <1>9 DEF after
<1>11. after[0] = <<>> /\ \A i \in 1..n : after[i] = from(i) \o after[i - 1]
  <2>1. 0 \in 0..n /\ \A i \in 1..n : i \in 0..n /\ i # 0
    BY <1>1
  <2>. QED
    BY <1>4, <1>10, <2>1
<1>. DEFINE P == {i \in Nat : i <= n => after[i] = rest(i)}
<1>12. 0 \in P
  <2>1. Cut(len, 0) = len /\ len < len + 1
    BY <1>1, CutFacts
  <2>2. SubSeq(words, len + 1, len) = <<>>
    BY <1>1, <2>1, SubSeqEmpty
  <2>. QED
    BY <1>11, <2>1, <2>2
<1>13. ASSUME NEW i \in Nat, i \in P PROVE i + 1 \in P
  <2>. SUFFICES ASSUME i + 1 <= n PROVE after[i + 1] = rest(i + 1)
    OBVIOUS
  <2>1. i + 1 \in 1..n /\ (i + 1) - 1 = i /\ i \in 0..n /\ i + 1 \in 0..n
    BY <1>1
  <2>2. after[i + 1] = Part(words, i + 1) \o rest(i)
    <3>1. after[i] = rest(i)
      BY <1>1, <1>13, <2>1
    <3>2. after[i + 1] = from(i + 1) \o after[i] /\ from(i + 1) = Part(words, i + 1)
      BY <1>3, <1>11, <2>1
    <3>. HIDE DEF rest
    <3>. QED
      BY <3>1, <3>2
  <2>. DEFINE lo == Cut(len, i + 1)
              hi == Cut(len, i)
  <2>3. lo \in 0..len /\ hi \in 0..len /\ lo < hi
    <3>1. lo \in 0..len /\ hi \in 0..len
      BY <1>1, <2>1, CutFacts DEF n
    <3>2. copies[i + 1] = hi - lo /\ copies[i + 1] \in 1..Capacity
      BY <1>1, <2>1, CutFacts DEF n, copies
    <3>3. Capacity \in Nat
      BY PagesAssumption
    <3>. HIDE DEF lo, hi
    <3>. QED
      BY <3>1, <3>2, <3>3
  <2>4. Part(words, i + 1) = SubSeq(words, lo + 1, hi)
    BY <2>1 DEF Part, len
  <2>. HIDE DEF lo, hi
  <2>5. SubSeq(words, lo + 1, hi) \o SubSeq(words, hi + 1, len) = SubSeq(words, lo + 1, len)
    <3>1. lo + 1 \in 1..(len + 1) /\ hi \in ((lo + 1) - 1)..len /\ len \in hi..len
      BY <1>1, <2>3
    <3>. QED
      BY <3>1, ConcatAdjacentSubSeq DEF len
  <2>. QED
    BY <2>2, <2>4, <2>5 DEF lo, hi
<1>14. after[n] = rest(n)
  <2>. HIDE DEF P
  <2>1. n \in P
    BY <1>1, <1>12, <1>13, SetInduction
  <2>. QED
    BY <1>1, <2>1 DEF P
<1>15. rest(n) = words
  <2>1. Cut(len, n) = 0 /\ 0 + 1 = 1
    BY <1>1, CutFacts DEF n
  <2>. QED
    BY <2>1, SubSeqFull DEF len
<1>. QED
  BY <1>2, <1>14, <1>15

-----------------------------------------------------------------------------
(* The switch's list, next to blocks of others: what comes and goes.       *)
LEMMA PoolAlloc ==
  ASSUME NEW m, NEW list, NEW others, Pool(m, list, others), NEW size, Allocable(size)
  PROVE  /\ Place(m, size) \in Nat
         /\ \A c \in others : c[1] # Place(m, size)
         /\ Place(m, size) \notin Range(list)
         /\ Pool(Alloc(m, size), list, others \cup {<<Place(m, size), Bin(size)>>})
<1>. DEFINE at == Place(m, size)
            n == <<at, Bin(size)>>
            P == PageCuts(Range(list))
            U == others \cup P
<1>1. /\ list \in Seq(Nat) /\ IsInjective(list) /\ Heap(m, U)
      /\ \A c \in others : c[1] \notin Range(list)
  BY DEF Pool
<1>. HIDE DEF U
<1>2. at \in Nat /\ (\A c \in U : c[1] # at) /\ Heap(Alloc(m, size), U \cup {n})
  BY <1>1, AllocFacts
<1>. HIDE DEF at
<1>3. \A c \in others : c[1] # at
  BY <1>2 DEF U
<1>4. at \notin Range(list)
  <2>1. \A p \in Range(list) : <<p, PageBin>> \in U /\ <<p, PageBin>>[1] = p
    BY DEF U, PageCuts
  <2>. QED
    BY <1>2, <2>1
<1>5. U \cup {n} = (others \cup {n}) \cup P
  BY DEF U
<1>6. \A c \in others \cup {n} : c[1] \notin Range(list)
  BY <1>1, <1>4
<1>7. Pool(Alloc(m, size), list, others \cup {n})
  BY <1>1, <1>2, <1>5, <1>6 DEF Pool
<1>. QED
  BY <1>2, <1>3, <1>4, <1>7 DEF at

(* A block that was in use is freed: it is on no list of pages.            *)
LEMMA PoolFree ==
  ASSUME NEW m, NEW list, NEW others, Pool(m, list, others), NEW size, Allocable(size),
         NEW at, <<at, Bin(size)>> \in others
  PROVE  Pool(Free(m, at, size), list, others \ {<<at, Bin(size)>>})
<1>. DEFINE n == <<at, Bin(size)>>
            P == PageCuts(Range(list))
            U == others \cup P
<1>1. /\ list \in Seq(Nat) /\ IsInjective(list) /\ Heap(m, U)
      /\ \A c \in others : c[1] \notin Range(list)
  BY DEF Pool
<1>2. Heap(Free(m, at, size), U \ {n})
  <2>1. n \in U
    OBVIOUS
  <2>. HIDE DEF U
  <2>. QED
    BY <1>1, <2>1, FreeFacts
<1>3. n \notin P
  <2>1. n[1] = at /\ \A c \in P : c[1] \in Range(list)
    BY DEF PageCuts
  <2>. QED
    BY <1>1, <2>1
<1>. HIDE DEF n, P
<1>4. U \ {n} = (others \ {n}) \cup P
  BY <1>3
<1>5. Pool(Free(m, at, size), list, others \ {n})
  BY <1>1, <1>2, <1>4 DEF Pool, P
<1>. QED
  BY <1>5 DEF n

(* Pages go back to the switch's list, each once.                          *)
LEMMA PoolReturn ==
  ASSUME NEW m, NEW list, NEW others, NEW pages \in Seq(Nat), IsInjective(pages),
         \A c \in others : c[1] \notin Range(pages),
         Pool(m, list, others \cup PageCuts(Range(pages)))
  PROVE  /\ Pool(m, Return(pages, list), others)
         /\ Return(pages, list) \in Seq(Nat)
         /\ Range(Return(pages, list)) = Range(pages) \cup Range(list)
<1>. DEFINE back == Reverse(pages)
            z == Return(pages, list)
<1>1. /\ list \in Seq(Nat) /\ IsInjective(list)
      /\ Heap(m, (others \cup PageCuts(Range(pages))) \cup PageCuts(Range(list)))
      /\ \A c \in others \cup PageCuts(Range(pages)) : c[1] \notin Range(list)
  BY DEF Pool
<1>2. back \in Seq(Nat) /\ Range(back) = Range(pages) /\ IsInjective(back)
  BY BackwardsRange DEF Reverse
<1>3. z = back \o list
  BY DEF Return
<1>. HIDE DEF back, z
<1>4. Range(back) \cap Range(list) = {}
  <2>1. \A p \in Range(pages) : <<p, PageBin>> \in PageCuts(Range(pages)) /\ <<p, PageBin>>[1] = p
    BY DEF PageCuts
  <2>. QED
    BY <1>1, <1>2, <2>1
<1>5. z \in Seq(Nat) /\ IsInjective(z) /\ Range(z) = Range(pages) \cup Range(list)
  BY <1>1, <1>2, <1>3, <1>4, ConcatRange
<1>6. (others \cup PageCuts(Range(pages))) \cup PageCuts(Range(list)) = others \cup PageCuts(Range(z))
  BY <1>5 DEF PageCuts
<1>7. \A c \in others : c[1] \notin Range(z)
  BY <1>1, <1>5
<1>8. Pool(m, z, others)
  BY <1>1, <1>5, <1>6, <1>7 DEF Pool
<1>. QED
  BY <1>5, <1>8 DEF z

(* Pages that are given back lose their contents; no other page does.      *)
LEMMA ScrubbedFacts ==
  ASSUME NEW d \in Datas, NEW pages
  PROVE  /\ Scrubbed(d, pages) \in Datas
         /\ DOMAIN Scrubbed(d, pages) = DOMAIN d
         /\ \A p \in DOMAIN d \ Range(pages) : Scrubbed(d, pages)[p] = d[p]
<1>1. PICK D \in SUBSET Nat : d \in [D -> Page]
  BY DEF Datas
<1>2. [i \in 1..Capacity |-> Junk] \in Page
  BY DEF Page
<1>. DEFINE z == Scrubbed(d, pages)
            junk == [i \in 1..Capacity |-> Junk]
<1>3. z = [p \in D |-> IF p \in Range(pages) THEN junk ELSE d[p]]
  BY <1>1 DEF Scrubbed
<1>. HIDE DEF z, junk
<1>4. z \in [D -> Page]
  BY <1>1, <1>2, <1>3 DEF junk
<1>. QED
  BY <1>1, <1>3, <1>4 DEF Datas, z

-----------------------------------------------------------------------------
(* Who has what of the heap: the blocks of other code, and the threads     *)
(* with the pages that each of them holds.                                 *)
BlockCuts(bl) ==
  {<<bl[i].at, Bin(bl[i].size)>> : i \in {k \in 1..MaxBlocks : bl[k] # Nobody}}
ThreadCuts(held) == (DOMAIN held) \X {Bin(ThreadSize)}
Stacked(held) == UNION {Range(held[a]) : a \in DOMAIN held}
InUse(bl, held) == BlockCuts(bl) \cup ThreadCuts(held) \cup PageCuts(Stacked(held))

Owners(bl, held) ==
  /\ \A i, j \in 1..MaxBlocks :
       bl[i] # Nobody /\ bl[j] # Nobody /\ bl[i].at = bl[j].at => i = j
  /\ \A i \in 1..MaxBlocks :
       bl[i] # Nobody => bl[i].at \notin DOMAIN held /\ bl[i].at \notin Stacked(held)
  /\ \A a \in DOMAIN held : a \notin Stacked(held)
  /\ \A a \in DOMAIN held : held[a] \in Seq(Nat) /\ IsInjective(held[a])
  /\ \A a, b \in DOMAIN held : a # b => Range(held[a]) \cap Range(held[b]) = {}

Blocks == [1..MaxBlocks -> [at : Nat, size : BlockSizes] \cup {Nobody}]

Layout(m, list, bl, held) ==
  /\ bl \in Blocks
  /\ Pool(m, list, InUse(bl, held))
  /\ Owners(bl, held)

Without(held, a) == Restrict(held, (DOMAIN held) \ {a})

(* What is in use has an address that no other thing has.                  *)
LEMMA InUseAddresses ==
  ASSUME NEW bl, NEW held, NEW x, \A c \in InUse(bl, held) : c[1] # x
  PROVE  /\ x \notin DOMAIN held /\ x \notin Stacked(held)
         /\ \A i \in 1..MaxBlocks : bl[i] # Nobody => bl[i].at # x
<1>1. \A a \in DOMAIN held : <<a, Bin(ThreadSize)>> \in InUse(bl, held) /\ <<a, Bin(ThreadSize)>>[1] = a
  BY DEF InUse, ThreadCuts
<1>2. \A p \in Stacked(held) : <<p, PageBin>> \in InUse(bl, held) /\ <<p, PageBin>>[1] = p
  BY DEF InUse, PageCuts
<1>3. ASSUME NEW i \in 1..MaxBlocks, bl[i] # Nobody PROVE bl[i].at # x
  <2>1. <<bl[i].at, Bin(bl[i].size)>> \in InUse(bl, held)
    BY <1>3 DEF InUse, BlockCuts
  <2>. QED
    BY <2>1
<1>. QED
  BY <1>1, <1>2, <1>3

(* A thread gives all its pages back.                                      *)
LEMMA LayoutGive ==
  ASSUME NEW m, NEW list, NEW bl, NEW held, Layout(m, list, bl, held),
         NEW a \in DOMAIN held
  PROVE  /\ Layout(m, Return(held[a], list), bl, [held EXCEPT ![a] = <<>>])
         /\ Return(held[a], list) \in Seq(Nat)
<1>. DEFINE h == [held EXCEPT ![a] = <<>>]
            ps == held[a]
            U == InUse(bl, h)
<1>1. /\ bl \in Blocks /\ Pool(m, list, InUse(bl, held)) /\ Owners(bl, held)
      /\ ps \in Seq(Nat) /\ IsInjective(ps)
  BY DEF Layout, Owners
<1>2. /\ DOMAIN h = DOMAIN held
      /\ \A b \in DOMAIN held : h[b] = IF b = a THEN <<>> ELSE held[b]
  OBVIOUS
<1>3. \A b \in DOMAIN held : Range(h[b]) = IF b = a THEN {} ELSE Range(held[b])
  BY <1>2, EmptyRange
<1>. HIDE DEF h, ps
<1>4. /\ Stacked(held) = Stacked(h) \cup Range(ps)
      /\ Stacked(h) \cap Range(ps) = {}
  <2>1. \A p : p \in Stacked(h) => p \in Stacked(held) /\ p \notin Range(ps)
    BY <1>1, <1>2, <1>3 DEF Stacked, Owners, ps
  <2>2. \A p : p \in Stacked(held) => p \in Stacked(h) \/ p \in Range(ps)
    BY <1>2, <1>3 DEF Stacked, ps
  <2>3. \A p : p \in Range(ps) => p \in Stacked(held)
    BY DEF Stacked, ps
  <2>. QED
    BY <2>1, <2>2, <2>3
<1>5. InUse(bl, held) = U \cup PageCuts(Range(ps))
  BY <1>2, <1>4 DEF InUse, ThreadCuts, PageCuts
<1>6. \A c \in U : c[1] \notin Range(ps)
  <2>1. \A c \in BlockCuts(bl) : c[1] \notin Range(ps)
    <3>1. ASSUME NEW c \in BlockCuts(bl) PROVE c[1] \notin Stacked(held)
      <4>1. PICK i \in 1..MaxBlocks : bl[i] # Nobody /\ c = <<bl[i].at, Bin(bl[i].size)>>
        BY DEF BlockCuts
      <4>2. c[1] = bl[i].at
        BY <4>1
      <4>. QED
        BY <1>1, <4>1, <4>2 DEF Owners
    <3>. QED
      BY <1>4, <3>1
  <2>2. \A c \in ThreadCuts(h) : c[1] \notin Range(ps)
    BY <1>1, <1>2, <1>4 DEF ThreadCuts, Owners
  <2>3. \A c \in PageCuts(Stacked(h)) : c[1] \notin Range(ps)
    BY <1>4 DEF PageCuts
  <2>. QED
    BY <2>1, <2>2, <2>3 DEF InUse
<1>. HIDE DEF U
<1>7. Pool(m, Return(ps, list), U) /\ Return(ps, list) \in Seq(Nat)
  <2>1. Pool(m, list, U \cup PageCuts(Range(ps)))
    BY <1>1, <1>5
  <2>. QED
    BY <1>1, <1>6, <2>1, PoolReturn
<1>8. Owners(bl, h)
  <2>1. \A b \in DOMAIN h : h[b] \in Seq(Nat) /\ IsInjective(h[b])
    BY <1>1, <1>2, EmptySeq, EmptyRange DEF Owners
  <2>2. \A b, c \in DOMAIN h : b # c => Range(h[b]) \cap Range(h[c]) = {}
    BY <1>1, <1>2, <1>3 DEF Owners
  <2>3. /\ \A i, j \in 1..MaxBlocks :
             bl[i] # Nobody /\ bl[j] # Nobody /\ bl[i].at = bl[j].at => i = j
        /\ \A i \in 1..MaxBlocks :
             bl[i] # Nobody => bl[i].at \notin DOMAIN h /\ bl[i].at \notin Stacked(h)
        /\ \A b \in DOMAIN h : b \notin Stacked(h)
    BY <1>1, <1>2, <1>4 DEF Owners
  <2>. QED
    BY <2>1, <2>2, <2>3 DEF Owners
<1>. QED
  BY <1>1, <1>7, <1>8 DEF Layout, U, h, ps

(* A thread that holds none gets pages.                                    *)
LEMMA LayoutTake ==
  ASSUME NEW m, NEW list, NEW bl \in Blocks, NEW held, Owners(bl, held),
         NEW a \in DOMAIN held, held[a] = <<>>,
         NEW pages \in Seq(Nat), IsInjective(pages),
         \A c \in InUse(bl, held) : c[1] \notin Range(pages),
         Pool(m, list, InUse(bl, held) \cup PageCuts(Range(pages)))
  PROVE  Layout(m, list, bl, [held EXCEPT ![a] = pages])
<1>. DEFINE h == [held EXCEPT ![a] = pages]
<1>1. /\ DOMAIN h = DOMAIN held
      /\ \A b \in DOMAIN held : h[b] = IF b = a THEN pages ELSE held[b]
  OBVIOUS
<1>2. Range(held[a]) = {}
  BY EmptyRange
<1>. HIDE DEF h
<1>3. Stacked(h) = Stacked(held) \cup Range(pages)
  <2>1. \A p : p \in Stacked(h) => p \in Stacked(held) \/ p \in Range(pages)
    BY <1>1 DEF Stacked
  <2>2. \A p : p \in Stacked(held) => p \in Stacked(h)
    BY <1>1, <1>2 DEF Stacked
  <2>3. \A p : p \in Range(pages) => p \in Stacked(h)
    BY <1>1 DEF Stacked
  <2>. QED
    BY <2>1, <2>2, <2>3
<1>4. \A x \in Range(pages) :
        /\ x \notin DOMAIN held /\ x \notin Stacked(held)
        /\ \A i \in 1..MaxBlocks : bl[i] # Nobody => bl[i].at # x
  BY InUseAddresses
<1>5. InUse(bl, h) = InUse(bl, held) \cup PageCuts(Range(pages))
  BY <1>1, <1>3 DEF InUse, ThreadCuts, PageCuts
<1>6. Owners(bl, h)
  <2>1. \A b \in DOMAIN h : h[b] \in Seq(Nat) /\ IsInjective(h[b])
    BY <1>1 DEF Owners
  <2>2. \A b \in DOMAIN held : Range(held[b]) \subseteq Stacked(held)
    BY DEF Stacked
  <2>3. \A b, c \in DOMAIN h : b # c => Range(h[b]) \cap Range(h[c]) = {}
    <3>1. \A b, c \in DOMAIN held : b # c => Range(held[b]) \cap Range(held[c]) = {}
      BY DEF Owners
    <3>. QED
      BY <1>1, <1>4, <2>2, <3>1
  <2>4. /\ \A i, j \in 1..MaxBlocks :
             bl[i] # Nobody /\ bl[j] # Nobody /\ bl[i].at = bl[j].at => i = j
        /\ \A i \in 1..MaxBlocks :
             bl[i] # Nobody => bl[i].at \notin DOMAIN h /\ bl[i].at \notin Stacked(h)
        /\ \A b \in DOMAIN h : b \notin Stacked(h)
    BY <1>1, <1>3, <1>4 DEF Owners
  <2>. QED
    BY <2>1, <2>3, <2>4 DEF Owners
<1>. QED
  BY <1>5, <1>6 DEF Layout, h

(* A thread structure of its own.                                          *)
LEMMA LayoutNew ==
  ASSUME NEW m, NEW list, NEW bl, NEW held, Layout(m, list, bl, held)
  PROVE  LET a == Place(m, ThreadSize)
         IN  /\ a \in Nat /\ a \notin DOMAIN held
             /\ Layout(Alloc(m, ThreadSize), list, bl, Put(held, a, <<>>))
<1>. DEFINE a == Place(m, ThreadSize)
            n == <<a, Bin(ThreadSize)>>
            h == Put(held, a, <<>>)
            z == Alloc(m, ThreadSize)
            U == InUse(bl, held)
<1>1. bl \in Blocks /\ Pool(m, list, U) /\ Owners(bl, held) /\ Allocable(ThreadSize)
  BY PagesAssumption DEF Layout
<1>. HIDE DEF U
<1>2. a \in Nat /\ (\A c \in U : c[1] # a) /\ Pool(z, list, U \cup {n})
  BY <1>1, PoolAlloc
<1>. HIDE DEF a, z
<1>3. /\ a \notin DOMAIN held /\ a \notin Stacked(held)
      /\ \A i \in 1..MaxBlocks : bl[i] # Nobody => bl[i].at # a
  BY <1>2, InUseAddresses DEF U
<1>4. /\ DOMAIN h = {a} \cup DOMAIN held /\ h[a] = <<>>
      /\ \A b \in DOMAIN held : h[b] = held[b]
  BY <1>3 DEF Put
<1>5. Range(h[a]) = {}
  BY <1>4, EmptyRange
<1>. HIDE DEF h
<1>6. Stacked(h) = Stacked(held)
  <2>1. \A p : p \in Stacked(h) => p \in Stacked(held)
    BY <1>4, <1>5 DEF Stacked
  <2>2. \A p : p \in Stacked(held) => p \in Stacked(h)
    BY <1>4 DEF Stacked
  <2>. QED
    BY <2>1, <2>2
<1>7. InUse(bl, h) = U \cup {n}
  <2>1. ThreadCuts(h) = ThreadCuts(held) \cup {n}
    BY <1>4 DEF ThreadCuts
  <2>. QED
    BY <1>6, <2>1 DEF InUse, U
<1>8. Owners(bl, h)
  <2>1. \A b \in DOMAIN h : h[b] \in Seq(Nat) /\ IsInjective(h[b])
    BY <1>1, <1>4, EmptySeq, EmptyRange DEF Owners
  <2>2. \A b, c \in DOMAIN h : b # c => Range(h[b]) \cap Range(h[c]) = {}
    BY <1>1, <1>4, <1>5 DEF Owners
  <2>3. /\ \A i, j \in 1..MaxBlocks :
             bl[i] # Nobody /\ bl[j] # Nobody /\ bl[i].at = bl[j].at => i = j
        /\ \A i \in 1..MaxBlocks :
             bl[i] # Nobody => bl[i].at \notin DOMAIN h /\ bl[i].at \notin Stacked(h)
        /\ \A b \in DOMAIN h : b \notin Stacked(h)
    BY <1>1, <1>3, <1>4, <1>6 DEF Owners
  <2>. QED
    BY <2>1, <2>2, <2>3 DEF Owners
<1>9. Layout(z, list, bl, h)
  BY <1>1, <1>2, <1>7, <1>8 DEF Layout
<1>. QED
  BY <1>2, <1>3, <1>9 DEF a, h, z

(* The structure of a thread that holds no page goes.                      *)
LEMMA LayoutDrop ==
  ASSUME NEW m, NEW list, NEW bl, NEW held, Layout(m, list, bl, held),
         NEW a \in DOMAIN held, held[a] = <<>>
  PROVE  Layout(Free(m, a, ThreadSize), list, bl, Without(held, a))
<1>. DEFINE n == <<a, Bin(ThreadSize)>>
            h == Without(held, a)
            z == Free(m, a, ThreadSize)
            U == InUse(bl, held)
<1>1. bl \in Blocks /\ Pool(m, list, U) /\ Owners(bl, held) /\ Allocable(ThreadSize)
  BY PagesAssumption DEF Layout
<1>2. n \in ThreadCuts(held) /\ n \in U
  BY DEF InUse, ThreadCuts
<1>. HIDE DEF U
<1>3. Pool(z, list, U \ {n})
  BY <1>1, <1>2, PoolFree
<1>4. /\ DOMAIN h = DOMAIN held \ {a}
      /\ \A b \in DOMAIN h : h[b] = held[b]
  BY DEF Without, Restrict
<1>5. Range(held[a]) = {}
  BY EmptyRange
<1>. HIDE DEF h, z
<1>6. Stacked(h) = Stacked(held)
  <2>1. \A p : p \in Stacked(h) => p \in Stacked(held)
    BY <1>4 DEF Stacked
  <2>2. \A p : p \in Stacked(held) => p \in Stacked(h)
    BY <1>4, <1>5 DEF Stacked
  <2>. QED
    BY <2>1, <2>2
<1>7. InUse(bl, h) = U \ {n}
  <2>1. ThreadCuts(h) = ThreadCuts(held) \ {n}
    BY <1>4 DEF ThreadCuts
  <2>2. n \notin BlockCuts(bl)
    <3>. SUFFICES ASSUME n \in BlockCuts(bl) PROVE FALSE
      OBVIOUS
    <3>1. PICK i \in 1..MaxBlocks : bl[i] # Nobody /\ n = <<bl[i].at, Bin(bl[i].size)>>
      BY DEF BlockCuts
    <3>2. a = bl[i].at
      BY <3>1
    <3>. QED
      BY <1>1, <3>1, <3>2 DEF Owners
  <2>3. n \notin PageCuts(Stacked(held))
    BY <1>1 DEF PageCuts, Owners
  <2>. HIDE DEF n
  <2>. QED
    BY <1>6, <2>1, <2>2, <2>3 DEF InUse, U
<1>8. Owners(bl, h)
  <2>1. \A b \in DOMAIN h : h[b] \in Seq(Nat) /\ IsInjective(h[b])
    BY <1>1, <1>4 DEF Owners
  <2>2. \A b, c \in DOMAIN h : b # c => Range(h[b]) \cap Range(h[c]) = {}
    BY <1>1, <1>4 DEF Owners
  <2>3. /\ \A i, j \in 1..MaxBlocks :
             bl[i] # Nobody /\ bl[j] # Nobody /\ bl[i].at = bl[j].at => i = j
        /\ \A i \in 1..MaxBlocks :
             bl[i] # Nobody => bl[i].at \notin DOMAIN h /\ bl[i].at \notin Stacked(h)
        /\ \A b \in DOMAIN h : b \notin Stacked(h)
    BY <1>1, <1>4, <1>6 DEF Owners
  <2>. QED
    BY <2>1, <2>2, <2>3 DEF Owners
<1>9. Layout(z, list, bl, h)
  BY <1>1, <1>3, <1>7, <1>8 DEF Layout
<1>. QED
  BY <1>9 DEF h, z

(* Blocks of other code.                                                   *)
LEMMA LayoutBlock ==
  ASSUME NEW m, NEW list, NEW bl, NEW held, Layout(m, list, bl, held),
         NEW i \in 1..MaxBlocks, bl[i] = Nobody, NEW size \in BlockSizes
  PROVE  Layout(Alloc(m, size), list,
                [bl EXCEPT ![i] = [at |-> Place(m, size), size |-> size]], held)
<1>. DEFINE at == Place(m, size)
            e == [at |-> at, size |-> size]
            n == <<at, Bin(size)>>
            b == [bl EXCEPT ![i] = e]
            z == Alloc(m, size)
            U == InUse(bl, held)
<1>1. bl \in Blocks /\ Pool(m, list, U) /\ Owners(bl, held) /\ Allocable(size)
  BY PagesAssumption DEF Layout
<1>. HIDE DEF U
<1>2. at \in Nat /\ (\A c \in U : c[1] # at) /\ Pool(z, list, U \cup {n})
  BY <1>1, PoolAlloc
<1>. HIDE DEF at, z
<1>3. /\ at \notin DOMAIN held /\ at \notin Stacked(held)
      /\ \A j \in 1..MaxBlocks : bl[j] # Nobody => bl[j].at # at
  BY <1>2, InUseAddresses DEF U
<1>4. e \in [at : Nat, size : BlockSizes] /\ e # Nobody /\ e.at = at /\ e.size = size
  BY <1>2, PagesAssumption
<1>. HIDE DEF e
<1>5. /\ b \in Blocks /\ b[i] = e
      /\ \A j \in 1..MaxBlocks : j # i => b[j] = bl[j]
  BY <1>1, <1>4 DEF Blocks
<1>. HIDE DEF b
<1>6. BlockCuts(b) = BlockCuts(bl) \cup {n}
  <2>1. ASSUME NEW c \in BlockCuts(b) PROVE c \in BlockCuts(bl) \cup {n}
    <3>1. PICK j \in 1..MaxBlocks : b[j] # Nobody /\ c = <<b[j].at, Bin(b[j].size)>>
      BY DEF BlockCuts
    <3>2. CASE j = i
      BY <1>4, <1>5, <3>1, <3>2
    <3>3. CASE j # i
      BY <1>5, <3>1, <3>3 DEF BlockCuts
    <3>. QED
      BY <3>2, <3>3
  <2>2. ASSUME NEW c \in BlockCuts(bl) PROVE c \in BlockCuts(b)
    <3>1. PICK j \in 1..MaxBlocks : bl[j] # Nobody /\ c = <<bl[j].at, Bin(bl[j].size)>>
      BY DEF BlockCuts
    <3>2. b[j] = bl[j]
      BY <1>5, <3>1
    <3>. QED
      BY <3>1, <3>2 DEF BlockCuts
  <2>3. n \in BlockCuts(b)
    BY <1>4, <1>5 DEF BlockCuts
  <2>. QED
    BY <2>1, <2>2, <2>3
<1>7. InUse(b, held) = U \cup {n}
  BY <1>6 DEF InUse, U
<1>8. Owners(b, held)
  <2>1. \A j, k \in 1..MaxBlocks :
          b[j] # Nobody /\ b[k] # Nobody /\ b[j].at = b[k].at => j = k
    BY <1>1, <1>3, <1>4, <1>5 DEF Owners
  <2>2. \A j \in 1..MaxBlocks :
          b[j] # Nobody => b[j].at \notin DOMAIN held /\ b[j].at \notin Stacked(held)
    BY <1>1, <1>3, <1>4, <1>5 DEF Owners
  <2>. QED
    BY <1>1, <2>1, <2>2 DEF Owners
<1>9. Layout(z, list, b, held)
  BY <1>2, <1>5, <1>7, <1>8 DEF Layout
<1>. QED
  BY <1>9 DEF b, e, at, z

(* Other code gives a block back.                                          *)
LEMMA LayoutUnblock ==
  ASSUME NEW m, NEW list, NEW bl, NEW held, Layout(m, list, bl, held),
         NEW i \in 1..MaxBlocks, bl[i] # Nobody
  PROVE  Layout(Free(m, bl[i].at, bl[i].size), list, [bl EXCEPT ![i] = Nobody], held)
<1>. DEFINE at == bl[i].at
            size == bl[i].size
            n == <<at, Bin(size)>>
            b == [bl EXCEPT ![i] = Nobody]
            z == Free(m, at, size)
            U == InUse(bl, held)
<1>1. bl \in Blocks /\ Pool(m, list, U) /\ Owners(bl, held)
  BY DEF Layout
<1>2. Allocable(size)
  <2>1. size \in BlockSizes
    BY <1>1 DEF Blocks
  <2>. QED
    BY <2>1, PagesAssumption
<1>3. n \in BlockCuts(bl) /\ n \in U
  BY DEF BlockCuts, InUse
<1>4. n[1] = at
  OBVIOUS
<1>. HIDE DEF U
<1>5. Pool(z, list, U \ {n})
  BY <1>1, <1>2, <1>3, PoolFree
<1>6. /\ b \in Blocks /\ b[i] = Nobody
      /\ \A j \in 1..MaxBlocks : j # i => b[j] = bl[j]
  BY <1>1 DEF Blocks
<1>. HIDE DEF b, z
<1>7. BlockCuts(b) = BlockCuts(bl) \ {n}
  <2>1. ASSUME NEW c \in BlockCuts(b) PROVE c \in BlockCuts(bl) \ {n}
    <3>1. PICK j \in 1..MaxBlocks : b[j] # Nobody /\ c = <<b[j].at, Bin(b[j].size)>>
      BY DEF BlockCuts
    <3>2. j # i /\ b[j] = bl[j]
      BY <1>6, <3>1
    <3>3. c \in BlockCuts(bl)
      BY <3>1, <3>2 DEF BlockCuts
    <3>4. c[1] = bl[j].at /\ bl[j].at # at
      BY <1>1, <3>1, <3>2 DEF Owners
    <3>. QED
      BY <1>4, <3>3, <3>4
  <2>2. ASSUME NEW c \in BlockCuts(bl), c # n PROVE c \in BlockCuts(b)
    <3>1. PICK j \in 1..MaxBlocks : bl[j] # Nobody /\ c = <<bl[j].at, Bin(bl[j].size)>>
      BY DEF BlockCuts
    <3>2. j # i
      BY <2>2, <3>1
    <3>3. b[j] = bl[j]
      BY <1>6, <3>2
    <3>. QED
      BY <3>1, <3>3 DEF BlockCuts
  <2>. QED
    BY <2>1, <2>2
<1>8. n \notin ThreadCuts(held) /\ n \notin PageCuts(Stacked(held))
  BY <1>1 DEF ThreadCuts, PageCuts, Owners
<1>9. Owners(b, held)
  <2>1. \A j, k \in 1..MaxBlocks :
          b[j] # Nobody /\ b[k] # Nobody /\ b[j].at = b[k].at => j = k
    BY <1>1, <1>6 DEF Owners
  <2>2. \A j \in 1..MaxBlocks :
          b[j] # Nobody => b[j].at \notin DOMAIN held /\ b[j].at \notin Stacked(held)
    BY <1>1, <1>6 DEF Owners
  <2>. QED
    BY <1>1, <2>1, <2>2 DEF Owners
<1>. HIDE DEF n
<1>10. InUse(b, held) = U \ {n}
  BY <1>7, <1>8 DEF InUse, U
<1>11. Layout(z, list, b, held)
  BY <1>5, <1>6, <1>9, <1>10 DEF Layout
<1>. QED
  BY <1>11 DEF b, z

-----------------------------------------------------------------------------
(* The inductive invariant.  Held has the pages in which each thread's     *)
(* stack is: none for the current one, whose list still points to pages    *)
(* that are others' by now.                                                *)
Held == [a \in DOMAIN threads |-> Saved(a)]

(* What is known of the structures themselves.                             *)
Threads ==
  /\ \A a \in DOMAIN threads : a \in Nat /\ threads[a] \in Thread
  /\ current \in DOMAIN threads \cup {Nobody}
  /\ stack \in Seq(Word)
  /\ DOMAIN left_with \subseteq DOMAIN threads

(* The pages of a thread that does not run hold, copy for copy, the words  *)
(* that it left, and its length says how many.                             *)
Stacks ==
  \A a \in DOMAIN left_with :
    /\ left_with[a] \in Seq(Word) /\ left_with[a] # <<>>
    /\ threads[a].len = Len(left_with[a])
    /\ a # current => Holds(data, threads[a].pages, left_with[a])

(* The one that runs has its words back; a thread that is destructed but   *)
(* not freed is on the runnable list and has no pages.                     *)
Lives ==
  /\ current # Nobody => current \in DOMAIN left_with /\ stack = left_with[current]
  /\ \A a \in (DOMAIN threads) \ (DOMAIN left_with) :
       threads[a].runnable /\ threads[a].pages = <<>>

(* Layout: blocks, thread structures, pages with stacks and pages on the   *)
(* switch's list are distinct cuts of the heap, which with the free ones   *)
(* tile it.                                                                *)
IInv ==
  /\ Threads /\ data \in Datas
  /\ Layout(mem, page_list, blocks, Held)
  /\ Stacks /\ Lives

(* What the invariant says of one thread and its pages.                    *)
LEMMA HeldFacts ==
  ASSUME IInv
  PROVE  /\ DOMAIN Held = DOMAIN threads
         /\ \A a \in DOMAIN threads :
              /\ a \in Nat /\ a # Nobody
              /\ threads[a] \in Thread /\ threads[a].pages \in Seq(Nat)
              /\ Held[a] = IF a = current THEN <<>> ELSE threads[a].pages
              /\ IsInjective(Held[a])
              /\ \A p \in Range(Held[a]) : p \in Stacked(Held)
<1>1. DOMAIN Held = DOMAIN threads
  BY DEF Held
<1>2. ASSUME NEW a \in DOMAIN threads
      PROVE  /\ a \in Nat /\ a # Nobody
             /\ threads[a] \in Thread /\ threads[a].pages \in Seq(Nat)
             /\ Held[a] = IF a = current THEN <<>> ELSE threads[a].pages
  BY PagesAssumption DEF IInv, Threads, Thread, Held, Saved
<1>3. ASSUME NEW a \in DOMAIN threads
      PROVE  IsInjective(Held[a]) /\ \A p \in Range(Held[a]) : p \in Stacked(Held)
  <2>. HIDE DEF Held
  <2>. QED
    BY <1>1 DEF IInv, Layout, Owners, Stacked
<1>. QED
  BY <1>1, <1>2, <1>3

(* The types follow from the invariant.                                    *)
LEMMA Typed == IInv => TypeOK
<1>. SUFFICES ASSUME IInv PROVE TypeOK
  OBVIOUS
<1>1. mem \in Memory /\ page_list \in Seq(Nat) /\ blocks \in Blocks
  BY DEF IInv, Layout, Pool, Heap
<1>2. \A p \in DOMAIN data : p \in Nat /\ data[p] \in Page
  <2>1. PICK D \in SUBSET Nat : data \in [D -> Page]
    BY DEF IInv, Datas
  <2>. QED
    BY <2>1
<1>3. \A a \in DOMAIN left_with : left_with[a] \in Seq(Word)
  BY DEF IInv, Stacks
<1>. QED
  BY <1>1, <1>2, <1>3 DEF IInv, Threads, TypeOK, Blocks, Page

(* Pages hold a stack as long as their contents stay.                      *)
LEMMA HoldsKept ==
  ASSUME NEW d, NEW d2, NEW pages \in Seq(Nat), NEW words, Holds(d, pages, words),
         \A p \in Range(pages) : p \in DOMAIN d => p \in DOMAIN d2 /\ d2[p] = d[p]
  PROVE  Holds(d2, pages, words)
<1>1. DOMAIN pages = 1..Len(pages)
  BY LenProperties
<1>2. \A i \in 1..Len(pages) : pages[i] \in Range(pages)
  BY <1>1 DEF Range
<1>. QED
  BY <1>2 DEF Holds

(* A stack is on one page at least.                                        *)
LEMMA HoldsSome ==
  ASSUME NEW d, NEW pages, NEW words \in Seq(Word), words # <<>>, Holds(d, pages, words)
  PROVE  pages # <<>>
<1>1. Len(words) \in Nat \ {0}
  BY LenProperties, EmptySeq
<1>2. Len(pages) # 0
  BY <1>1, CutFacts DEF Holds
<1>. QED
  BY <1>2, EmptySeq

(* The stack of a thread is a sequence of words.                           *)
LEMMA StackOfFacts ==
  ASSUME NEW a \in Nat, NEW len \in Nat \ {0}
  PROVE  /\ StackOf(a, len) \in Seq(Word)
         /\ Len(StackOf(a, len)) = len /\ StackOf(a, len) # <<>>
<1>. DEFINE z == StackOf(a, len)
<1>1. z \in [1..len -> Word]
  BY DEF StackOf, Word
<1>2. z \in Seq(Word) /\ DOMAIN z = 1..len
  BY <1>1, SeqDef
<1>. HIDE DEF z
<1>3. Len(z) = len
  BY <1>2, LenProperties
<1>. QED
  BY <1>2, <1>3, EmptySeq DEF z

-----------------------------------------------------------------------------
(* Init, and the actions.                                                  *)
LEMMA InitIInv == Init => IInv
<1>. SUFFICES ASSUME Init PROVE IInv
  OBVIOUS
<1>1. threads = <<>> /\ left_with = <<>> /\ data = <<>> /\ page_list = <<>> /\ stack = <<>>
      /\ current = Nobody /\ mem = NoMemory /\ blocks = [i \in 1..MaxBlocks |-> Nobody]
  BY DEF Init
<1>2. \A f : f = <<>> => DOMAIN f = {}
  OBVIOUS
<1>3. DOMAIN threads = {} /\ DOMAIN left_with = {} /\ DOMAIN data = {}
  BY <1>1, <1>2
<1>4. Threads /\ Stacks /\ Lives
  BY <1>1, <1>3, EmptySeq DEF Threads, Stacks, Lives
<1>5. data \in Datas
  <2>1. data \in [{} -> Page]
    BY <1>1
  <2>. QED
    BY <2>1 DEF Datas
<1>6. blocks \in Blocks /\ \A i \in 1..MaxBlocks : blocks[i] = Nobody
  BY <1>1 DEF Blocks
<1>7. DOMAIN Held = {}
  BY <1>3 DEF Held
<1>8. InUse(blocks, Held) = {} /\ Owners(blocks, Held)
  BY <1>6, <1>7 DEF InUse, BlockCuts, ThreadCuts, PageCuts, Stacked, Owners
<1>9. Range(page_list) = {} /\ IsInjective(page_list) /\ page_list \in Seq(Nat)
  BY <1>1, EmptyRange, EmptySeq
<1>10. Heap(mem, {})
  <2>1. mem \in Memory /\ mem.rbrk = 0 /\ mem.cbrk = 0 /\ mem.left = 0
        /\ \A b \in AllBins : mem.head[b] = <<>>
    BY <1>1, EmptySeq DEF NoMemory, Memory, AllBins
  <2>2. \A b \in AllBins : IsInjective(mem.head[b]) /\ Range(mem.head[b]) = {}
    BY <2>1, EmptyRange
  <2>3. FreeCuts(mem) = {}
    <3>1. \A c \in Cuts : c[2] \in AllBins
      BY DEF Cuts
    <3>. QED
      BY <2>2, <3>1 DEF FreeCuts
  <2>4. Tiled({}, 0)
    BY DEF Tiled
  <2>. QED
    BY <2>1, <2>2, <2>3, <2>4 DEF Heap
<1>11. Pool(mem, page_list, InUse(blocks, Held))
  <2>1. InUse(blocks, Held) \cup PageCuts(Range(page_list)) = {}
    BY <1>8, <1>9 DEF PageCuts
  <2>. QED
    BY <1>8, <1>9, <1>10, <2>1 DEF Pool
<1>. QED
  BY <1>4, <1>5, <1>6, <1>8, <1>11 DEF IInv, Layout

(* Steps that move no stack.                                               *)
LEMMA NoStackMoved ==
  ASSUME IInv, UNCHANGED <<threads, data, current, stack, left_with>>,
         Layout(mem', page_list', blocks', Held)
  PROVE  IInv'
<1>1. Held' = Held
  BY DEF Held, Saved
<1>2. Threads' /\ Stacks' /\ Lives' /\ (data \in Datas)'
  BY DEF IInv, Threads, Stacks, Lives
<1>. QED
  BY <1>1, <1>2 DEF IInv

(* Other code obtains a block: no page and no structure moves.             *)
LEMMA IInvLbAlloc ==
  ASSUME IInv, NEW i \in 1..MaxBlocks, NEW size \in BlockSizes, LbAlloc(i, size)
  PROVE  IInv'
<1>1. Layout(mem, page_list, blocks, Held)
  BY DEF IInv
<1>2. /\ blocks[i] = Nobody
      /\ blocks' = [blocks EXCEPT ![i] = [at |-> Place(mem, size), size |-> size]]
      /\ mem' = Alloc(mem, size)
      /\ UNCHANGED <<threads, page_list, data, current, stack, left_with>>
  BY DEF LbAlloc
<1>3. Layout(mem', page_list', blocks', Held)
  BY <1>1, <1>2, LayoutBlock
<1>. QED
  BY <1>2, <1>3, NoStackMoved

(* Other code frees a block.                                               *)
LEMMA IInvLbAllocFree ==
  ASSUME IInv, NEW i \in 1..MaxBlocks, LbAllocFree(i)
  PROVE  IInv'
<1>1. Layout(mem, page_list, blocks, Held)
  BY DEF IInv
<1>2. /\ blocks[i] # Nobody
      /\ mem' = Free(mem, blocks[i].at, blocks[i].size)
      /\ blocks' = [blocks EXCEPT ![i] = Nobody]
      /\ UNCHANGED <<threads, page_list, data, current, stack, left_with>>
  BY DEF LbAllocFree
<1>3. Layout(mem', page_list', blocks', Held)
  BY <1>1, <1>2, LayoutUnblock
<1>. QED
  BY <1>2, <1>3, NoStackMoved

(* A thread becomes runnable.                                              *)
LEMMA IInvWake ==
  ASSUME IInv, NEW a \in DOMAIN threads, Wake(a)
  PROVE  IInv'
<1>1. /\ threads' = [threads EXCEPT ![a].runnable = TRUE]
      /\ UNCHANGED <<mem, blocks, page_list, data, current, stack, left_with>>
  BY DEF Wake
<1>2. /\ DOMAIN threads' = DOMAIN threads
      /\ \A b \in DOMAIN threads :
           /\ threads'[b].pages = threads[b].pages /\ threads'[b].len = threads[b].len
           /\ threads[b].runnable => threads'[b].runnable
           /\ threads'[b] \in Thread
  <2>1. \A b \in DOMAIN threads : threads[b] \in Thread
    BY HeldFacts
  <2>. QED
    BY <1>1, <2>1 DEF Thread
<1>3. Held' = Held
  BY <1>1, <1>2 DEF Held, Saved
<1>4. Threads' /\ Stacks' /\ Lives'
  <2>1. DOMAIN left_with \subseteq DOMAIN threads
    BY DEF IInv, Threads
  <2>. QED
    BY <1>1, <1>2, <2>1 DEF IInv, Threads, Stacks, Lives
<1>. QED
  BY <1>1, <1>3, <1>4 DEF IInv

(* A thread is entered: its stack comes back and its pages go to the       *)
(* switch.                                                                 *)
LEMMA IInvEnter ==
  ASSUME IInv, NEW a \in DOMAIN threads, Enter(a)
  PROVE  IInv'
<1>. DEFINE ps == threads[a].pages
<1>1. /\ current = Nobody /\ ps # <<>>
      /\ current' = a /\ stack' = CopyIn(threads[a])
      /\ threads' = [threads EXCEPT ![a].runnable = FALSE]
      /\ page_list' = Return(ps, page_list)
      /\ data' = Scrubbed(data, ps)
      /\ UNCHANGED <<mem, blocks, left_with>>
  BY DEF Enter
<1>2. /\ a \in Nat /\ a # Nobody /\ ps \in Seq(Nat) /\ Held[a] = ps
      /\ a \in DOMAIN Held /\ a # current
  BY <1>1, HeldFacts
<1>3. a \in DOMAIN left_with
  BY <1>1 DEF IInv, Lives
<1>4. /\ left_with[a] \in Seq(Word) /\ left_with[a] # <<>>
      /\ threads[a].len = Len(left_with[a])
      /\ Holds(data, ps, left_with[a])
  BY <1>2, <1>3 DEF IInv, Stacks
<1>5. stack' = left_with[a]
  BY <1>1, <1>4, CopyInFacts
<1>6. /\ data' \in Datas /\ DOMAIN data' = DOMAIN data
      /\ \A p \in (DOMAIN data) \ Range(ps) : data'[p] = data[p]
  BY <1>1, ScrubbedFacts DEF IInv
<1>7. /\ DOMAIN threads' = DOMAIN threads
      /\ \A b \in DOMAIN threads :
           /\ threads'[b].pages = threads[b].pages /\ threads'[b].len = threads[b].len
           /\ b # a => threads'[b].runnable = threads[b].runnable
           /\ threads'[b] \in Thread /\ b \in Nat
  <2>1. \A b \in DOMAIN threads : threads[b] \in Thread /\ b \in Nat
    BY HeldFacts
  <2>. QED
    BY <1>1, <2>1 DEF Thread
<1>8. Held' = [Held EXCEPT ![a] = <<>>]
  <2>1. Held' = [b \in DOMAIN threads |-> IF b = a THEN <<>> ELSE threads[b].pages]
    BY <1>1, <1>7 DEF Held, Saved
  <2>2. \A b \in DOMAIN threads : Held[b] = threads[b].pages
    BY <1>1, HeldFacts
  <2>3. [Held EXCEPT ![a] = <<>>] = [b \in DOMAIN Held |-> IF b = a THEN <<>> ELSE Held[b]]
    BY <1>2
  <2>. HIDE DEF Held
  <2>. QED
    BY <2>1, <2>2, <2>3, HeldFacts
<1>9. Layout(mem', page_list', blocks', Held')
  <2>1. Layout(mem, page_list, blocks, Held)
    BY DEF IInv
  <2>. HIDE DEF Held
  <2>2. Layout(mem, Return(Held[a], page_list), blocks, [Held EXCEPT ![a] = <<>>])
    BY <1>2, <2>1, LayoutGive
  <2>. QED
    BY <1>1, <1>2, <1>8, <2>2
<1>10. Threads'
  <2>1. stack' \in Seq(Word)
    BY <1>4, <1>5
  <2>. QED
    BY <1>1, <1>7, <2>1 DEF IInv, Threads
<1>11. ASSUME NEW b \in DOMAIN left_with, b # a
       PROVE  Holds(data', threads[b].pages, left_with[b])
  <2>1. Holds(data, threads[b].pages, left_with[b]) /\ b \in DOMAIN threads
    BY <1>1, <1>11, HeldFacts DEF IInv, Stacks, Threads
  <2>2. Held[b] = threads[b].pages /\ threads[b].pages \in Seq(Nat) /\ b \in DOMAIN Held
    BY <1>1, <2>1, HeldFacts
  <2>. HIDE DEF Held
  <2>3. Range(Held[b]) \cap Range(Held[a]) = {}
    BY <1>2, <1>11, <2>2 DEF IInv, Layout, Owners
  <2>. QED
    BY <1>2, <1>6, <2>1, <2>2, <2>3, HoldsKept
<1>12. Stacks'
  <2>. SUFFICES ASSUME NEW b \in DOMAIN left_with
                PROVE  /\ left_with[b] \in Seq(Word) /\ left_with[b] # <<>>
                       /\ threads'[b].len = Len(left_with[b])
                       /\ b # a => Holds(data', threads'[b].pages, left_with[b])
    BY <1>1 DEF Stacks
  <2>1. b \in DOMAIN threads
    BY DEF IInv, Threads
  <2>. QED
    BY <1>7, <1>11, <2>1 DEF IInv, Stacks
<1>13. Lives'
  <2>1. \A b \in (DOMAIN threads) \ (DOMAIN left_with) :
          threads[b].runnable /\ threads[b].pages = <<>>
    BY DEF IInv, Lives
  <2>. QED
    BY <1>1, <1>3, <1>5, <1>7, <2>1 DEF Lives
<1>. QED
  BY <1>6, <1>9, <1>10, <1>12, <1>13 DEF IInv

(* A zombie's structure is freed; it has no pages and nobody else's        *)
(* address.                                                                *)
LEMMA IInvFreeZombie ==
  ASSUME IInv, NEW a \in DOMAIN threads, FreeZombie(a)
  PROVE  IInv'
<1>1. /\ current = Nobody /\ threads[a].pages = <<>>
      /\ mem' = Free(mem, a, ThreadSize)
      /\ threads' = Restrict(threads, DOMAIN threads \ {a})
      /\ UNCHANGED <<blocks, page_list, data, current, stack, left_with>>
  BY DEF FreeZombie
<1>2. a # Nobody /\ Held[a] = <<>> /\ a \in DOMAIN Held
  BY <1>1, HeldFacts
<1>3. a \notin DOMAIN left_with
  <2>. SUFFICES ASSUME a \in DOMAIN left_with PROVE FALSE
    OBVIOUS
  <2>1. left_with[a] \in Seq(Word) /\ left_with[a] # <<>> /\ Holds(data, threads[a].pages, left_with[a])
    BY <1>1, <1>2 DEF IInv, Stacks
  <2>. QED
    BY <1>1, <2>1, HoldsSome
<1>4. /\ DOMAIN threads' = (DOMAIN threads) \ {a}
      /\ \A b \in DOMAIN threads' : threads'[b] = threads[b]
  BY <1>1 DEF Restrict
<1>5. Held' = Without(Held, a)
  <2>1. Held' = [b \in (DOMAIN threads) \ {a} |-> IF b = current THEN <<>> ELSE threads[b].pages]
    BY <1>1, <1>4 DEF Held, Saved
  <2>2. \A b \in DOMAIN threads : Held[b] = IF b = current THEN <<>> ELSE threads[b].pages
    BY HeldFacts
  <2>3. Without(Held, a) = [b \in (DOMAIN Held) \ {a} |-> Held[b]]
    BY DEF Without, Restrict
  <2>. HIDE DEF Held
  <2>. QED
    BY <2>1, <2>2, <2>3, HeldFacts
<1>6. Layout(mem', page_list', blocks', Held')
  <2>1. Layout(mem, page_list, blocks, Held)
    BY DEF IInv
  <2>. HIDE DEF Held
  <2>. QED
    BY <1>1, <1>2, <1>5, <2>1, LayoutDrop
<1>7. Threads' /\ Stacks' /\ Lives' /\ data' \in Datas
  <2>1. /\ DOMAIN left_with \subseteq DOMAIN threads'
        /\ \A b \in DOMAIN threads' : b \in DOMAIN threads
    BY <1>3, <1>4 DEF IInv, Threads
  <2>2. Threads'
    BY <1>1, <1>4, <2>1 DEF IInv, Threads
  <2>3. Stacks'
    BY <1>1, <1>4, <2>1 DEF IInv, Stacks
  <2>4. Lives'
    BY <1>1, <1>4, <2>1 DEF IInv, Lives
  <2>. QED
    BY <1>1, <2>2, <2>3, <2>4 DEF IInv
<1>. QED
  BY <1>6, <1>7 DEF IInv

-----------------------------------------------------------------------------
(* The copy out of the current stack, as the threads see it.               *)
CopiedOut(s, words) ==
  /\ s.mem \in Memory /\ s.pages \in Seq(Nat) /\ s.data \in Datas
  /\ IsInjective(s.pages)
  /\ \A c \in InUse(blocks, Held) : c[1] \notin Range(s.pages)
  /\ Pool(s.mem, s.page_list, InUse(blocks, Held) \cup PageCuts(Range(s.pages)))
  /\ \A p \in (DOMAIN data) \ Range(s.pages) : p \in DOMAIN s.data /\ s.data[p] = data[p]
  /\ Holds(s.data, s.pages, words)

(* After a copy out of the current thread's stack: the pages are new, and  *)
(* the other threads' pages hold what they held.                           *)
LEMMA CopiedOutFacts ==
  ASSUME IInv, NEW words \in Seq(Word), words # <<>>
  PROVE  CopiedOut(CopyOut(words), words)
<1>. DEFINE s == CopyOut(words)
<1>1. Pool(mem, page_list, InUse(blocks, Held)) /\ data \in Datas
  BY DEF IInv, Layout
<1>2. Copying(s, data, InUse(blocks, Held), words, 0)
  <2>. DEFINE others == InUse(blocks, Held)
  <2>1. Pool(mem, page_list, others)
    BY <1>1
  <2>. HIDE DEF others
  <2>2. Copying(CopyOut(words), data, others, words, 0)
    BY <1>1, <2>1, CopyOutFacts
  <2>. QED
    BY <2>2 DEF others
<1>. HIDE DEF s
<1>3. Len(words) \in Nat \ {0} /\ PagesFor(Len(words)) \in Nat
  <2>1. Len(words) \in Nat \ {0}
    BY LenProperties, EmptySeq
  <2>. QED
    BY <2>1, CutFacts
<1>4. /\ s \in CopyStates /\ Len(s.pages) = PagesFor(Len(words)) - 0
      /\ \A i \in 1..Len(s.pages) :
           s.pages[i] \in DOMAIN s.data /\ s.data[s.pages[i]] = Filled(Part(words, 0 + i))
  BY <1>2 DEF Copying
<1>5. Holds(s.data, s.pages, words)
  <2>1. Len(s.pages) = PagesFor(Len(words)) /\ \A i \in 1..Len(s.pages) : 0 + i = i
    BY <1>3, <1>4
  <2>. QED
    BY <1>4, <2>1 DEF Holds
<1>6. s.mem \in Memory /\ s.pages \in Seq(Nat) /\ s.data \in Datas
  BY <1>4 DEF CopyStates
<1>. QED
  BY <1>2, <1>5, <1>6 DEF Copying, CopiedOut, s

(* No thread's page is among those of the copy.                            *)
LEMMA OthersKept ==
  ASSUME IInv, NEW s, NEW words, CopiedOut(s, words),
         NEW b \in DOMAIN left_with, b # current
  PROVE  /\ Holds(s.data, threads[b].pages, left_with[b])
         /\ threads[b].pages \in Seq(Nat)
         /\ \A p \in Range(threads[b].pages) : p \notin Range(s.pages)
<1>1. Holds(data, threads[b].pages, left_with[b]) /\ b \in DOMAIN threads
  BY DEF IInv, Stacks, Threads
<1>2. Held[b] = threads[b].pages /\ threads[b].pages \in Seq(Nat)
      /\ \A p \in Range(Held[b]) : p \in Stacked(Held)
  BY <1>1, HeldFacts
<1>3. \A p \in Stacked(Held) : p \notin Range(s.pages)
  <2>1. \A p \in Stacked(Held) : <<p, PageBin>> \in InUse(blocks, Held) /\ <<p, PageBin>>[1] = p
    BY DEF InUse, PageCuts
  <2>. QED
    BY <2>1 DEF CopiedOut
<1>4. \A p \in Range(threads[b].pages) : p \notin Range(s.pages)
  BY <1>2, <1>3
<1>5. \A p \in Range(threads[b].pages) :
        p \in DOMAIN data => p \in DOMAIN s.data /\ s.data[p] = data[p]
  BY <1>4 DEF CopiedOut
<1>. QED
  BY <1>1, <1>2, <1>4, <1>5, HoldsKept

(* A thread leaves: its stack goes to pages that were nobody's.            *)
LEMMA IInvLeave ==
  ASSUME IInv, NEW len \in Lengths, Leave(len)
  PROVE  IInv'
<1>. DEFINE c == current
            words == StackOf(c, len)
            s == CopyOut(words)
<1>1. /\ c # Nobody
      /\ mem' = s.mem /\ page_list' = s.page_list /\ data' = s.data
      /\ threads' = [threads EXCEPT ![c].len = len, ![c].pages = s.pages]
      /\ left_with' = [left_with EXCEPT ![c] = words]
      /\ current' = Nobody /\ stack' = <<>>
      /\ UNCHANGED blocks
  BY DEF Leave
<1>2. c \in DOMAIN threads /\ c \in DOMAIN left_with
  BY <1>1 DEF IInv, Threads, Lives
<1>3. /\ c \in Nat /\ Held[c] = <<>> /\ c \in DOMAIN Held
      /\ len \in Nat \ {0}
  BY <1>2, HeldFacts, PagesAssumption
<1>4. words \in Seq(Word) /\ Len(words) = len /\ words # <<>>
  BY <1>3, StackOfFacts
<1>. HIDE DEF words
<1>5. CopiedOut(s, words)
  BY <1>4, CopiedOutFacts
<1>. HIDE DEF s
<1>6. /\ DOMAIN threads' = DOMAIN threads
      /\ threads'[c].len = len /\ threads'[c].pages = s.pages /\ threads'[c] \in Thread
      /\ \A b \in DOMAIN threads : b # c => threads'[b] = threads[b]
  <2>1. s.pages \in Seq(Nat) /\ threads[c] \in Thread
    BY <1>2, <1>5, HeldFacts DEF CopiedOut
  <2>. QED
    BY <1>1, <1>2, <2>1 DEF Thread
<1>7. /\ DOMAIN left_with' = DOMAIN left_with /\ left_with'[c] = words
      /\ \A b \in DOMAIN left_with : b # c => left_with'[b] = left_with[b]
  BY <1>1, <1>2
<1>8. Held' = [Held EXCEPT ![c] = s.pages]
  <2>1. Held' = [b \in DOMAIN threads' |-> IF b = current' THEN <<>> ELSE threads'[b].pages]
    BY DEF Held, Saved
  <2>2. \A b \in DOMAIN threads : b # Nobody /\ (b # c => Held[b] = threads[b].pages)
    BY HeldFacts
  <2>3. [Held EXCEPT ![c] = s.pages] = [b \in DOMAIN Held |-> IF b = c THEN s.pages ELSE Held[b]]
    BY <1>3
  <2>4. DOMAIN Held = DOMAIN threads
    BY HeldFacts
  <2>. HIDE DEF Held
  <2>5. Held' = [b \in DOMAIN threads |-> IF b = c THEN s.pages ELSE Held[b]]
    BY <1>1, <1>6, <2>1, <2>2
  <2>. QED
    BY <2>3, <2>4, <2>5
<1>9. Layout(mem', page_list', blocks', Held')
  <2>1. blocks \in Blocks /\ Owners(blocks, Held)
    BY DEF IInv, Layout
  <2>. HIDE DEF Held
  <2>2. Layout(s.mem, s.page_list, blocks, [Held EXCEPT ![c] = s.pages])
    BY <1>3, <1>5, <2>1, LayoutTake DEF CopiedOut
  <2>. QED
    BY <1>1, <1>8, <2>2
<1>10. Threads'
  BY <1>1, <1>6, <1>7, EmptySeq DEF IInv, Threads
<1>11. Stacks'
  <2>. SUFFICES ASSUME NEW b \in DOMAIN left_with
                PROVE  /\ left_with'[b] \in Seq(Word) /\ left_with'[b] # <<>>
                       /\ threads'[b].len = Len(left_with'[b])
                       /\ Holds(data', threads'[b].pages, left_with'[b])
    BY <1>7 DEF Stacks
  <2>1. CASE b = c
    BY <1>1, <1>4, <1>5, <1>6, <1>7, <2>1 DEF CopiedOut
  <2>2. CASE b # c
    <3>1. b \in DOMAIN threads
      BY DEF IInv, Threads
    <3>2. Holds(s.data, threads[b].pages, left_with[b])
      BY <1>5, <2>2, OthersKept
    <3>. QED
      BY <1>1, <1>6, <1>7, <2>2, <3>1, <3>2 DEF IInv, Stacks
  <2>. QED
    BY <2>1, <2>2
<1>12. Lives'
  BY <1>1, <1>2, <1>6, <1>7 DEF IInv, Lives
<1>13. data' \in Datas
  BY <1>1, <1>5 DEF CopiedOut
<1>. QED
  BY <1>9, <1>10, <1>11, <1>12, <1>13 DEF IInv

(* A destructed thread leaves: pages and structure are given back.         *)
LEMMA IInvLeaveDestructed ==
  ASSUME IInv, NEW len \in Lengths, LeaveDestructed(len)
  PROVE  IInv'
<1>. DEFINE c == current
            words == StackOf(c, len)
            s == CopyOut(words)
            list == Return(s.pages, s.page_list)
<1>1. /\ c # Nobody
      /\ mem' = Free(s.mem, c, ThreadSize) /\ page_list' = list
      /\ data' = Scrubbed(s.data, s.pages)
      /\ threads' = Restrict(threads, DOMAIN threads \ {c})
      /\ left_with' = Restrict(left_with, DOMAIN left_with \ {c})
      /\ current' = Nobody /\ stack' = <<>>
      /\ UNCHANGED blocks
  BY DEF LeaveDestructed
<1>2. c \in DOMAIN threads /\ c \in DOMAIN left_with
  BY <1>1 DEF IInv, Threads, Lives
<1>3. /\ c \in Nat /\ Held[c] = <<>> /\ c \in DOMAIN Held
      /\ len \in Nat \ {0}
  BY <1>2, HeldFacts, PagesAssumption
<1>4. words \in Seq(Word) /\ words # <<>>
  BY <1>3, StackOfFacts
<1>. HIDE DEF words
<1>5. CopiedOut(s, words)
  BY <1>4, CopiedOutFacts
<1>. HIDE DEF s
<1>6. Pool(s.mem, list, InUse(blocks, Held))
  <2>. DEFINE U == InUse(blocks, Held)
  <2>1. /\ s.pages \in Seq(Nat) /\ IsInjective(s.pages)
        /\ \A d \in U : d[1] \notin Range(s.pages)
        /\ Pool(s.mem, s.page_list, U \cup PageCuts(Range(s.pages)))
    BY <1>5 DEF CopiedOut
  <2>. HIDE DEF U
  <2>2. Pool(s.mem, list, U)
    BY <2>1, PoolReturn
  <2>. QED
    BY <2>2 DEF U
<1>. HIDE DEF list
<1>7. Layout(s.mem, list, blocks, Held)
  BY <1>6 DEF IInv, Layout
<1>8. /\ DOMAIN threads' = (DOMAIN threads) \ {c}
      /\ \A b \in DOMAIN threads' : threads'[b] = threads[b]
      /\ DOMAIN left_with' = (DOMAIN left_with) \ {c}
      /\ \A b \in DOMAIN left_with' : left_with'[b] = left_with[b]
  BY <1>1 DEF Restrict
<1>9. Held' = Without(Held, c)
  <2>1. Held' = [b \in DOMAIN threads' |-> IF b = current' THEN <<>> ELSE threads'[b].pages]
    BY DEF Held, Saved
  <2>2. \A b \in DOMAIN threads : b # Nobody /\ (b # c => Held[b] = threads[b].pages)
    BY HeldFacts
  <2>3. Without(Held, c) = [b \in (DOMAIN Held) \ {c} |-> Held[b]]
    BY DEF Without, Restrict
  <2>4. DOMAIN Held = DOMAIN threads
    BY HeldFacts
  <2>. HIDE DEF Held
  <2>5. Held' = [b \in (DOMAIN threads) \ {c} |-> Held[b]]
    BY <1>1, <1>8, <2>1, <2>2
  <2>. QED
    BY <2>3, <2>4, <2>5
<1>10. Layout(mem', page_list', blocks', Held')
  <2>. HIDE DEF Held
  <2>1. Layout(Free(s.mem, c, ThreadSize), list, blocks, Without(Held, c))
    BY <1>3, <1>7, LayoutDrop
  <2>. QED
    BY <1>1, <1>9, <2>1
<1>11. /\ data' \in Datas /\ DOMAIN data' = DOMAIN s.data
       /\ \A p \in (DOMAIN s.data) \ Range(s.pages) : data'[p] = s.data[p]
  BY <1>1, <1>5, ScrubbedFacts DEF CopiedOut
<1>12. Threads'
  BY <1>1, <1>8, EmptySeq DEF IInv, Threads
<1>13. Stacks'
  <2>. SUFFICES ASSUME NEW b \in (DOMAIN left_with) \ {c}
                PROVE  /\ left_with'[b] \in Seq(Word) /\ left_with'[b] # <<>>
                       /\ threads'[b].len = Len(left_with'[b])
                       /\ Holds(data', threads'[b].pages, left_with'[b])
    BY <1>8 DEF Stacks
  <2>1. b \in DOMAIN threads'
    BY <1>8 DEF IInv, Threads
  <2>2. /\ Holds(s.data, threads[b].pages, left_with[b])
        /\ threads[b].pages \in Seq(Nat)
        /\ \A p \in Range(threads[b].pages) : p \notin Range(s.pages)
    BY <1>5, OthersKept
  <2>3. Holds(data', threads[b].pages, left_with[b])
    BY <1>11, <2>2, HoldsKept
  <2>. QED
    BY <1>8, <2>1, <2>3 DEF IInv, Stacks
<1>14. Lives'
  <2>1. \A b \in (DOMAIN threads') \ (DOMAIN left_with') :
          b \in (DOMAIN threads) \ (DOMAIN left_with) /\ threads'[b] = threads[b]
    BY <1>8
  <2>. HIDE DEF c
  <2>. QED
    BY <1>1, <2>1 DEF IInv, Lives
<1>. QED
  BY <1>10, <1>11, <1>12, <1>13, <1>14 DEF IInv

(* A thread destructs another, on the runnable list or not.                *)
LEMMA IInvDestruct ==
  ASSUME IInv, NEW a \in DOMAIN threads, Destruct(a)
  PROVE  IInv'
<1>. DEFINE ps == threads[a].pages
            h == [Held EXCEPT ![a] = <<>>]
<1>1. /\ current # Nobody /\ current # a /\ a \in DOMAIN left_with
      /\ page_list' = Return(ps, page_list)
      /\ data' = Scrubbed(data, ps)
      /\ DropThread(a)
      /\ left_with' = Restrict(left_with, DOMAIN left_with \ {a})
      /\ UNCHANGED <<blocks, current, stack>>
  BY DEF Destruct
<1>2. /\ a \in Nat /\ Held[a] = ps /\ a \in DOMAIN Held /\ ps \in Seq(Nat)
  BY <1>1, HeldFacts
<1>3. Layout(mem, page_list', blocks, h)
  <2>1. Layout(mem, page_list, blocks, Held)
    BY DEF IInv
  <2>. HIDE DEF Held
  <2>. QED
    BY <1>1, <1>2, <2>1, LayoutGive
<1>4. /\ data' \in Datas /\ DOMAIN data' = DOMAIN data
      /\ \A p \in (DOMAIN data) \ Range(ps) : data'[p] = data[p]
  BY <1>1, ScrubbedFacts DEF IInv
<1>5. /\ DOMAIN left_with' = (DOMAIN left_with) \ {a}
      /\ \A b \in DOMAIN left_with' : left_with'[b] = left_with[b]
  BY <1>1 DEF Restrict
<1>6. h = [b \in DOMAIN threads |-> IF b = a \/ b = current THEN <<>> ELSE threads[b].pages]
  <2>1. h = [b \in DOMAIN Held |-> IF b = a THEN <<>> ELSE Held[b]]
    BY <1>2
  <2>2. /\ DOMAIN Held = DOMAIN threads
        /\ \A b \in DOMAIN threads : Held[b] = IF b = current THEN <<>> ELSE threads[b].pages
    BY HeldFacts
  <2>. HIDE DEF Held, h
  <2>3. h = [b \in DOMAIN threads |-> IF b = a THEN <<>> ELSE Held[b]]
    BY <2>1, <2>2
  <2>. QED
    BY <2>2, <2>3
<1>. HIDE DEF Held, h
<1>7. h[a] = <<>> /\ a \in DOMAIN h
  BY <1>6
<1>8. /\ DOMAIN threads' \subseteq DOMAIN threads
      /\ \A b \in DOMAIN threads : b # a => b \in DOMAIN threads' /\ threads'[b] = threads[b]
      /\ \A b \in DOMAIN threads' : threads'[b] \in Thread
      /\ a \in DOMAIN threads' => threads'[a].runnable /\ threads'[a].pages = <<>>
      /\ Layout(mem', page_list', blocks', Held')
  <2>0. Held' = [b \in DOMAIN threads' |-> IF b = current THEN <<>> ELSE threads'[b].pages]
    BY <1>1 DEF Held, Saved
  <2>00. \A b \in DOMAIN threads : threads[b] \in Thread
    BY HeldFacts
  <2>1. CASE threads[a].runnable
    <3>1. threads' = [threads EXCEPT ![a].pages = <<>>] /\ mem' = mem
      BY <1>1, <2>1 DEF DropThread
    <3>2. /\ DOMAIN threads' = DOMAIN threads
          /\ \A b \in DOMAIN threads : b # a => threads'[b] = threads[b]
          /\ threads'[a].pages = <<>> /\ threads'[a].runnable /\ threads'[a] \in Thread
      BY <2>00, <2>1, <3>1, EmptySeq DEF Thread
    <3>3. Held' = h
      BY <1>6, <2>0, <3>2
    <3>. QED
      BY <1>1, <1>3, <2>00, <3>1, <3>2, <3>3
  <2>2. CASE ~ threads[a].runnable
    <3>1. threads' = Restrict(threads, DOMAIN threads \ {a}) /\ mem' = Free(mem, a, ThreadSize)
      BY <1>1, <2>2 DEF DropThread
    <3>2. /\ DOMAIN threads' = (DOMAIN threads) \ {a}
          /\ \A b \in DOMAIN threads' : threads'[b] = threads[b]
      BY <3>1 DEF Restrict
    <3>3. Held' = Without(h, a)
      <4>1. Without(h, a) = [b \in (DOMAIN threads) \ {a} |-> h[b]]
        BY <1>6 DEF Without, Restrict
      <4>. QED
        BY <1>6, <2>0, <3>2, <4>1
    <3>4. Layout(mem', page_list', blocks', Held')
      BY <1>1, <1>3, <1>7, <3>1, <3>3, LayoutDrop
    <3>. QED
      BY <2>00, <3>2, <3>4
  <2>. QED
    BY <2>1, <2>2
<1>9. current \in DOMAIN threads /\ current \in DOMAIN left_with
      /\ DOMAIN left_with \subseteq DOMAIN threads
  BY <1>1 DEF IInv, Threads, Lives
<1>10. Threads'
  <2>1. DOMAIN left_with' \subseteq DOMAIN threads'
    BY <1>5, <1>8, <1>9
  <2>2. current' \in DOMAIN threads'
    BY <1>1, <1>8, <1>9
  <2>. QED
    BY <1>1, <1>8, <2>1, <2>2 DEF IInv, Threads
<1>11. Stacks'
  <2>. SUFFICES ASSUME NEW b \in (DOMAIN left_with) \ {a}
                PROVE  /\ left_with'[b] \in Seq(Word) /\ left_with'[b] # <<>>
                       /\ threads'[b].len = Len(left_with'[b])
                       /\ b # current => Holds(data', threads'[b].pages, left_with'[b])
    BY <1>1, <1>5 DEF Stacks
  <2>1. b \in DOMAIN threads /\ threads'[b] = threads[b] /\ left_with'[b] = left_with[b]
    BY <1>5, <1>8, <1>9
  <2>2. ASSUME b # current PROVE Holds(data', threads[b].pages, left_with[b])
    <3>1. Holds(data, threads[b].pages, left_with[b])
      BY <2>2 DEF IInv, Stacks
    <3>2. Held[b] = threads[b].pages /\ threads[b].pages \in Seq(Nat) /\ b \in DOMAIN Held
      BY <2>1, <2>2, HeldFacts
    <3>3. Range(Held[b]) \cap Range(Held[a]) = {}
      BY <1>2, <3>2 DEF IInv, Layout, Owners
    <3>. QED
      BY <1>2, <1>4, <3>1, <3>2, <3>3, HoldsKept
  <2>. QED
    BY <2>1, <2>2 DEF IInv, Stacks
<1>12. Lives'
  <2>1. current' \in DOMAIN left_with' /\ left_with'[current] = left_with[current]
    BY <1>1, <1>5, <1>9
  <2>2. stack' = left_with'[current']
    BY <1>1, <2>1 DEF IInv, Lives
  <2>3. ASSUME NEW b \in (DOMAIN threads') \ (DOMAIN left_with')
        PROVE  threads'[b].runnable /\ threads'[b].pages = <<>>
    <3>1. CASE b = a
      BY <1>8, <3>1
    <3>2. CASE b # a
      <4>1. b \in (DOMAIN threads) \ (DOMAIN left_with) /\ threads'[b] = threads[b]
        BY <1>5, <1>8, <3>2
      <4>. QED
        BY <4>1 DEF IInv, Lives
    <3>. QED
      BY <3>1, <3>2
  <2>. QED
    BY <2>1, <2>2, <2>3 DEF Lives
<1>. QED
  BY <1>4, <1>8, <1>10, <1>11, <1>12 DEF IInv

(* The stack that a new thread starts with is one copy.                    *)
LEMMA FirstCopy ==
  ASSUME NEW words \in Seq(Word), Len(words) = FirstLen
  PROVE  PagesFor(FirstLen) = 1 /\ Part(words, 1) = words /\ words # <<>>
<1>. DEFINE C == Capacity
            len == FirstLen
            x == len + C - 1
<1>1. C \in Nat \ {0} /\ len \in 1..C
  BY PagesAssumption
<1>2. PagesFor(FirstLen) = x \div C
  BY DEF PagesFor
<1>3. words # <<>>
  BY <1>1, EmptySeq
<1>. HIDE DEF C, len
<1>4. x \div C = 1
  <2>1. x \in Nat /\ x = 1 * C + (len - 1) /\ len - 1 \in 0..(C - 1)
    BY <1>1
  <2>2. x \div C \in Nat /\ x % C \in 0..(C - 1) /\ x = (x \div C) * C + (x % C)
    BY <1>1, <2>1, DivMod
  <2>. HIDE DEF x
  <2>3. 1 * C + (len - 1) = (x \div C) * C + (x % C)
    BY <2>1, <2>2
  <2>. QED
    BY <1>1, <2>1, <2>2, <2>3, DivModUnique
<1>5. Cut(Len(words), 1 - 1) = Len(words) /\ Cut(Len(words), 1) = 0
  <2>1. Len(words) \in Nat \ {0} /\ 1 - 1 = 0 /\ PagesFor(Len(words)) = 1
    BY <1>1, <1>2, <1>4 DEF len
  <2>. QED
    BY <2>1, CutFacts
<1>6. Part(words, 1) = words
  <2>1. 0 + 1 = 1
    OBVIOUS
  <2>. QED
    BY <1>5, <2>1, SubSeqFull DEF Part
<1>. QED
  BY <1>2, <1>3, <1>4, <1>6

(* A thread is created: a structure, and a page with its first stack.      *)
LEMMA IInvCreateThread ==
  ASSUME IInv, CreateThread
  PROVE  IInv'
<1>. DEFINE a == Place(mem, ThreadSize)
            m1 == Alloc(mem, ThreadSize)
            g == Obtain(m1, page_list)
            first == StackOf(a, FirstLen)
            new == [runnable |-> TRUE, len |-> FirstLen, pages |-> <<g.page>>]
            h == Put(Held, a, <<>>)
            U == InUse(blocks, h)
            n == <<g.page, PageBin>>
<1>1. /\ mem' = g.mem /\ page_list' = g.page_list
      /\ data' = Put(data, g.page, Filled(first))
      /\ threads' = Put(threads, a, new)
      /\ left_with' = Put(left_with, a, first)
      /\ UNCHANGED <<blocks, current, stack>>
  BY DEF CreateThread
<1>2. a \in Nat /\ a \notin DOMAIN threads /\ Layout(m1, page_list, blocks, h)
  <2>1. Layout(mem, page_list, blocks, Held) /\ DOMAIN Held = DOMAIN threads
    BY HeldFacts DEF IInv
  <2>. HIDE DEF Held
  <2>. QED
    BY <2>1, LayoutNew
<1>3. a # Nobody /\ current # a /\ DOMAIN left_with \subseteq DOMAIN threads
  BY <1>2, PagesAssumption DEF IInv, Threads
<1>4. /\ first \in Seq(Word) /\ Len(first) = FirstLen /\ first # <<>>
      /\ PagesFor(FirstLen) = 1 /\ Part(first, 1) = first
  <2>1. FirstLen \in Nat \ {0}
    BY PagesAssumption
  <2>2. first \in Seq(Word) /\ Len(first) = FirstLen
    BY <1>2, <2>1, StackOfFacts
  <2>. HIDE DEF first
  <2>. QED
    BY <2>2, FirstCopy
<1>. HIDE DEF a, m1, first
<1>5. blocks \in Blocks /\ Pool(m1, page_list, U) /\ Owners(blocks, h)
  BY <1>2 DEF Layout
<1>. HIDE DEF U, h
<1>6. /\ g.page \in Nat /\ \A c \in U : c[1] # g.page
      /\ Pool(g.mem, g.page_list, U \cup {n})
  BY <1>5, ObtainFacts
<1>. HIDE DEF g
<1>7. /\ <<g.page>> \in Seq(Nat) /\ Range(<<g.page>>) = {g.page}
      /\ IsInjective(<<g.page>>) /\ Len(<<g.page>>) = 1 /\ <<g.page>>[1] = g.page
  <2>1. <<g.page>> \in Seq(Nat) /\ Len(<<g.page>>) = 1 /\ <<g.page>>[1] = g.page
    BY <1>6
  <2>2. DOMAIN <<g.page>> = {1}
    OBVIOUS
  <2>. QED
    BY <2>1, <2>2 DEF Range, IsInjective
<1>8. new \in Thread /\ new.runnable /\ new.len = FirstLen /\ new.pages = <<g.page>>
  BY <1>7 DEF Thread
<1>. HIDE DEF new
<1>9. /\ DOMAIN threads' = {a} \cup DOMAIN threads /\ threads'[a] = new
      /\ \A b \in DOMAIN threads : threads'[b] = threads[b]
      /\ DOMAIN left_with' = {a} \cup DOMAIN left_with /\ left_with'[a] = first
      /\ \A b \in DOMAIN left_with : left_with'[b] = left_with[b]
  BY <1>1, <1>2, <1>3 DEF Put
<1>10. /\ DOMAIN h = {a} \cup DOMAIN threads /\ h[a] = <<>>
       /\ \A b \in DOMAIN threads : h[b] = Held[b]
       /\ h = [b \in DOMAIN h |-> h[b]]
  <2>1. DOMAIN Held = DOMAIN threads
    BY HeldFacts
  <2>. HIDE DEF Held
  <2>. QED
    BY <1>2, <2>1 DEF h, Put
<1>11. Held' = [h EXCEPT ![a] = <<g.page>>]
  <2>1. Held' = [b \in DOMAIN threads' |-> IF b = current' THEN <<>> ELSE threads'[b].pages]
    BY DEF Held, Saved
  <2>2. [h EXCEPT ![a] = <<g.page>>] = [b \in DOMAIN h |-> IF b = a THEN <<g.page>> ELSE h[b]]
    BY <1>10
  <2>3. \A b \in DOMAIN threads : Held[b] = IF b = current THEN <<>> ELSE threads[b].pages
    BY HeldFacts
  <2>. HIDE DEF Held
  <2>4. Held' = [b \in DOMAIN h |-> IF b = a THEN <<g.page>> ELSE h[b]]
    BY <1>1, <1>2, <1>3, <1>8, <1>9, <1>10, <2>1, <2>3
  <2>. QED
    BY <2>2, <2>4
<1>12. Layout(mem', page_list', blocks', Held')
  <2>1. Pool(g.mem, g.page_list, InUse(blocks, h) \cup PageCuts(Range(<<g.page>>)))
    <3>1. PageCuts(Range(<<g.page>>)) = {n}
      BY <1>7 DEF PageCuts
    <3>. QED
      BY <1>6, <3>1 DEF U
  <2>2. \A c \in InUse(blocks, h) : c[1] \notin Range(<<g.page>>)
    BY <1>6, <1>7 DEF U
  <2>3. a \in DOMAIN h /\ h[a] = <<>>
    BY <1>10
  <2>. DEFINE ps == <<g.page>>
  <2>4. ps \in Seq(Nat) /\ IsInjective(ps)
    BY <1>7
  <2>. HIDE DEF ps
  <2>5. Layout(g.mem, g.page_list, blocks, [h EXCEPT ![a] = ps])
    BY <1>5, <2>1, <2>2, <2>3, <2>4, LayoutTake DEF ps
  <2>. QED
    BY <1>1, <1>11, <2>5 DEF ps
<1>13. /\ data' \in Datas /\ DOMAIN data' = {g.page} \cup DOMAIN data
       /\ data'[g.page] = Filled(first)
       /\ \A p \in DOMAIN data : p # g.page => data'[p] = data[p]
  <2>1. Len(first) <= Capacity
    BY <1>4, PagesAssumption
  <2>2. Filled(first) \in Page /\ data \in Datas
    BY <1>4, <2>1, FilledTyped DEF IInv
  <2>. QED
    <3>1. g.page \in Nat /\ data' = Put(data, g.page, Filled(first))
      BY <1>1, <1>6
    <3>. HIDE DEF g, first
    <3>2. Stored(data', data, g.page, Filled(first))
      BY <2>2, <3>1, PutFacts
    <3>. QED
      BY <3>2 DEF Stored
<1>14. Threads'
  <2>1. \A b \in DOMAIN threads' : b \in Nat /\ threads'[b] \in Thread
    BY <1>2, <1>8, <1>9 DEF IInv, Threads
  <2>2. DOMAIN left_with' \subseteq DOMAIN threads'
    BY <1>3, <1>9
  <2>. QED
    BY <1>1, <1>9, <2>1, <2>2 DEF IInv, Threads
<1>15. Holds(data', <<g.page>>, first)
  <2>1. Len(<<g.page>>) = PagesFor(Len(first)) /\ PagesFor(Len(first)) = 1
    BY <1>4, <1>7
  <2>2. \A i \in 1..1 : i = 1
    OBVIOUS
  <2>. QED
    BY <1>4, <1>7, <1>13, <2>1, <2>2 DEF Holds
<1>16. Stacks'
  <2>. SUFFICES ASSUME NEW b \in DOMAIN left_with'
                PROVE  /\ left_with'[b] \in Seq(Word) /\ left_with'[b] # <<>>
                       /\ threads'[b].len = Len(left_with'[b])
                       /\ b # current => Holds(data', threads'[b].pages, left_with'[b])
    BY <1>1 DEF Stacks
  <2>1. CASE b = a
    BY <1>4, <1>8, <1>9, <1>15, <2>1
  <2>2. CASE b # a
    <3>1. b \in DOMAIN left_with /\ b \in DOMAIN threads
          /\ left_with'[b] = left_with[b] /\ threads'[b] = threads[b]
      BY <1>3, <1>9, <2>2
    <3>2. ASSUME b # current PROVE Holds(data', threads[b].pages, left_with[b])
      <4>1. Holds(data, threads[b].pages, left_with[b]) /\ threads[b].pages \in Seq(Nat)
        BY <3>1, <3>2, HeldFacts DEF IInv, Stacks
      <4>2. Range(threads[b].pages) = Range(h[b]) /\ b \in DOMAIN h
        BY <1>10, <3>1, <3>2, HeldFacts
      <4>3. \A p \in Range(h[b]) : p # g.page
        <5>1. \A p \in Range(h[b]) : <<p, PageBin>> \in U /\ <<p, PageBin>>[1] = p
          BY <4>2 DEF U, InUse, PageCuts, Stacked
        <5>. QED
          BY <1>6, <5>1
      <4>4. \A p \in Range(threads[b].pages) :
              p \in DOMAIN data => p \in DOMAIN data' /\ data'[p] = data[p]
        BY <1>13, <4>2, <4>3
      <4>. QED
        BY <4>1, <4>4, HoldsKept
    <3>. QED
      BY <3>1, <3>2 DEF IInv, Stacks
  <2>. QED
    BY <2>1, <2>2
<1>17. Lives'
  <2>1. \A b \in (DOMAIN threads') \ (DOMAIN left_with') :
          b \in (DOMAIN threads) \ (DOMAIN left_with) /\ threads'[b] = threads[b]
    BY <1>9
  <2>2. current # Nobody =>
          current \in DOMAIN left_with /\ current \in DOMAIN left_with'
          /\ left_with'[current] = left_with[current]
    BY <1>9 DEF IInv, Lives
  <2>. QED
    BY <1>1, <2>1, <2>2 DEF IInv, Lives
<1>. QED
  BY <1>12, <1>13, <1>14, <1>16, <1>17 DEF IInv

(* Every step keeps the invariant.                                         *)
LEMMA NextIInv ==
  ASSUME IInv, [Next]_vars
  PROVE  IInv'
<1>1. CASE UNCHANGED vars
  <2>1. UNCHANGED <<mem, blocks, threads, page_list, data, current, stack, left_with>>
    BY <1>1 DEF vars
  <2>2. Layout(mem', page_list', blocks', Held)
    BY <2>1 DEF IInv
  <2>. QED
    BY <2>1, <2>2, NoStackMoved
<1>2. CASE Next
  <2>1. CASE \E i \in 1..MaxBlocks, size \in BlockSizes : LbAlloc(i, size)
    BY <2>1, IInvLbAlloc
  <2>2. CASE \E i \in 1..MaxBlocks : LbAllocFree(i)
    BY <2>2, IInvLbAllocFree
  <2>3. CASE CreateThread
    BY <2>3, IInvCreateThread
  <2>4. CASE \E a \in DOMAIN threads : Wake(a) \/ Enter(a) \/ FreeZombie(a) \/ Destruct(a)
    BY <2>4, IInvWake, IInvEnter, IInvFreeZombie, IInvDestruct
  <2>5. CASE \E len \in Lengths : Leave(len) \/ LeaveDestructed(len)
    BY <2>5, IInvLeave, IInvLeaveDestructed
  <2>. QED
    BY <1>2, <2>1, <2>2, <2>3, <2>4, <2>5 DEF Next
<1>. QED
  BY <1>1, <1>2

(* So it holds throughout.                                                 *)
LEMMA SpecIInv == Spec => []IInv
<1>1. Init => IInv
  BY InitIInv
<1>2. IInv /\ [Next]_vars => IInv'
  BY NextIInv
<1>. QED
  BY <1>1, <1>2, PTL DEF Spec

(* The allocator's counters and lists, the pages and the stacks stay what  *)
(* they are declared as (alloc.c 32-148, switch.c 158-437).                *)
THEOREM TypesCorrect == Spec => []TypeOK
<1>1. IInv => TypeOK
  BY Typed
<1>. QED
  BY <1>1, SpecIInv, PTL

(* A thread that is entered again finds the words that it left, whatever   *)
(* other threads and other code did with pages, blocks and the one stack   *)
(* meanwhile, and the copy back ends at the last page of its list          *)
(* (switch.c 349-437), for every page capacity and every length.           *)
THEOREM StacksComeBack == Spec => []StackRestored
<1>1. IInv => StackRestored
  <2>. SUFFICES ASSUME IInv PROVE StackRestored
    OBVIOUS
  <2>1. current # Nobody => stack = left_with[current]
    BY DEF IInv, Lives
  <2>2. \A a \in (DOMAIN left_with) \ {current} : Len(threads[a].pages) = PagesFor(threads[a].len)
    BY DEF IInv, Stacks, Holds
  <2>. QED
    BY <2>1, <2>2 DEF StackRestored
<1>. QED
  BY <1>1, SpecIInv, PTL

-----------------------------------------------------------------------------
(* The pieces of the heap are its cuts.                                    *)
AllCuts == InUse(blocks, Held) \cup PageCuts(Range(page_list)) \cup FreeCuts(mem)

FreeAddresses == {c[1] : c \in FreeCuts(mem)}
BlockAddresses == {c[1] : c \in BlockCuts(blocks)}

(* Where a piece is and how long.                                          *)
LEMMA PieceParts ==
  ASSUME NEW owner, NEW at, NEW size
  PROVE  Piece(owner, at, size).at = at /\ Piece(owner, at, size).size = size
BY DEF Piece

(* What the invariant says of the heap, in terms of its cuts.              *)
LEMMA HeapCut ==
  ASSUME IInv
  PROVE  /\ mem \in Memory /\ mem.cbrk + mem.left = mem.rbrk
         /\ Tiled(AllCuts, mem.cbrk)
         /\ \A c \in InUse(blocks, Held) : c \notin FreeCuts(mem)
         /\ \A c \in PageCuts(Range(page_list)) : c \notin FreeCuts(mem)
         /\ \A b \in AllBins : IsInjective(mem.head[b]) /\ mem.head[b] \in Seq(Nat)
         /\ DOMAIN mem.head = AllBins
         /\ page_list \in Seq(Nat) /\ IsInjective(page_list)
         /\ \A c \in InUse(blocks, Held) : c[1] \notin Range(page_list)
         /\ Owners(blocks, Held)
<1>1. /\ Pool(mem, page_list, InUse(blocks, Held)) /\ Owners(blocks, Held)
  BY DEF IInv, Layout
<1>2. Heap(mem, InUse(blocks, Held) \cup PageCuts(Range(page_list)))
  BY <1>1 DEF Pool
<1>3. mem \in Memory /\ DOMAIN mem.head = AllBins
      /\ \A b \in AllBins : mem.head[b] \in Seq(Nat)
  BY <1>2 DEF Heap, Memory, AllBins
<1>4. /\ mem.cbrk + mem.left = mem.rbrk
      /\ \A b \in AllBins : IsInjective(mem.head[b])
      /\ (InUse(blocks, Held) \cup PageCuts(Range(page_list))) \cap FreeCuts(mem) = {}
      /\ Tiled(AllCuts, mem.cbrk)
  BY <1>2 DEF Heap, AllCuts
<1>. QED
  BY <1>1, <1>3, <1>4 DEF Pool

(* Each set of pieces has addresses of its own, and no address twice.      *)
LEMMA PiecesOfBlocks ==
  ASSUME IInv
  PROVE  /\ \A p \in BlockPieces : p.at \in BlockAddresses
         /\ \A p, q \in BlockPieces : p.at = q.at => p = q
<1>1. ASSUME NEW p \in BlockPieces PROVE p.at \in BlockAddresses
  <2>1. PICK i \in 1..MaxBlocks :
          blocks[i] # Nobody /\ p = Piece(<<"block", i>>, blocks[i].at, Rounded(blocks[i].size))
    BY DEF BlockPieces
  <2>2. p.at = blocks[i].at
    BY <2>1, PieceParts
  <2>3. <<blocks[i].at, Bin(blocks[i].size)>> \in BlockCuts(blocks)
    BY <2>1 DEF BlockCuts
  <2>. QED
    BY <2>2, <2>3 DEF BlockAddresses
<1>2. ASSUME NEW p \in BlockPieces, NEW q \in BlockPieces, p.at = q.at PROVE p = q
  <2>1. PICK i \in 1..MaxBlocks :
          blocks[i] # Nobody /\ p = Piece(<<"block", i>>, blocks[i].at, Rounded(blocks[i].size))
    BY DEF BlockPieces
  <2>2. PICK j \in 1..MaxBlocks :
          blocks[j] # Nobody /\ q = Piece(<<"block", j>>, blocks[j].at, Rounded(blocks[j].size))
    BY DEF BlockPieces
  <2>3. blocks[i].at = blocks[j].at
    BY <1>2, <2>1, <2>2, PieceParts
  <2>4. i = j
    BY <2>1, <2>2, <2>3, HeapCut DEF Owners
  <2>. QED
    BY <2>1, <2>2, <2>4
<1>. QED
  BY <1>1, <1>2

(* Structures of threads.                                                  *)
LEMMA PiecesOfThreads ==
  /\ \A p \in ThreadPieces : p.at \in DOMAIN threads
  /\ \A p, q \in ThreadPieces : p.at = q.at => p = q
<1>1. \A p \in ThreadPieces :
        p.at \in DOMAIN threads /\ p = Piece(<<"thread", p.at>>, p.at, Rounded(ThreadSize))
  <2>. SUFFICES ASSUME NEW p \in ThreadPieces
                PROVE  p.at \in DOMAIN threads
                       /\ p = Piece(<<"thread", p.at>>, p.at, Rounded(ThreadSize))
    OBVIOUS
  <2>1. PICK a \in DOMAIN threads : p = Piece(<<"thread", a>>, a, Rounded(ThreadSize))
    BY DEF ThreadPieces
  <2>2. p.at = a
    BY <2>1, PieceParts
  <2>. QED
    BY <2>1, <2>2
<1>. QED
  BY <1>1

(* Pages with stacks.                                                      *)
LEMMA PiecesOfStacks ==
  ASSUME IInv
  PROVE  /\ \A p \in SavedPieces : p.at \in Stacked(Held)
         /\ \A p, q \in SavedPieces : p.at = q.at => p = q
<1>0. /\ DOMAIN Held = DOMAIN threads
      /\ \A a \in DOMAIN threads :
           Held[a] = Saved(a) /\ \A x \in Range(Held[a]) : x \in Stacked(Held)
  BY HeldFacts DEF Saved
<1>. HIDE DEF Held
<1>1. ASSUME NEW p \in SavedPieces PROVE p.at \in Stacked(Held)
  <2>1. PICK a, i : a \in DOMAIN threads /\ i \in DOMAIN Saved(a)
          /\ p = Piece(<<"saved", a, i>>, Saved(a)[i], Rounded(PageSize))
    BY DEF SavedPieces
  <2>2. p.at = Held[a][i] /\ i \in DOMAIN Held[a]
    BY <1>0, <2>1, PieceParts
  <2>3. p.at \in Range(Held[a])
    BY <2>2 DEF Range
  <2>. QED
    BY <1>0, <2>1, <2>3
<1>2. ASSUME NEW p \in SavedPieces, NEW q \in SavedPieces, p.at = q.at PROVE p = q
  <2>1. PICK a, i : a \in DOMAIN threads /\ i \in DOMAIN Saved(a)
          /\ p = Piece(<<"saved", a, i>>, Saved(a)[i], Rounded(PageSize))
    BY DEF SavedPieces
  <2>2. PICK b, j : b \in DOMAIN threads /\ j \in DOMAIN Saved(b)
          /\ q = Piece(<<"saved", b, j>>, Saved(b)[j], Rounded(PageSize))
    BY DEF SavedPieces
  <2>3. /\ Held[a][i] = Held[b][j] /\ i \in DOMAIN Held[a] /\ j \in DOMAIN Held[b]
        /\ a \in DOMAIN Held /\ b \in DOMAIN Held
    BY <1>0, <1>2, <2>1, <2>2, PieceParts
  <2>4. Held[a][i] \in Range(Held[a]) /\ Held[b][j] \in Range(Held[b])
    BY <2>3 DEF Range
  <2>5. a = b
    BY <2>3, <2>4, HeapCut DEF Owners
  <2>6. i = j
    BY <2>3, <2>5, HeapCut DEF Owners, IsInjective
  <2>. QED
    BY <2>1, <2>2, <2>5, <2>6
<1>. QED
  BY <1>1, <1>2

(* Pages on the switch's list.                                             *)
LEMMA PiecesOfList ==
  ASSUME IInv
  PROVE  /\ \A p \in ListPieces : p.at \in Range(page_list)
         /\ \A p, q \in ListPieces : p.at = q.at => p = q
<1>1. ASSUME NEW p \in ListPieces PROVE p.at \in Range(page_list)
  <2>1. PICK i \in DOMAIN page_list : p = Piece(<<"page", i>>, page_list[i], Rounded(PageSize))
    BY DEF ListPieces
  <2>. QED
    BY <2>1, PieceParts DEF Range
<1>2. ASSUME NEW p \in ListPieces, NEW q \in ListPieces, p.at = q.at PROVE p = q
  <2>1. PICK i \in DOMAIN page_list : p = Piece(<<"page", i>>, page_list[i], Rounded(PageSize))
    BY DEF ListPieces
  <2>2. PICK j \in DOMAIN page_list : q = Piece(<<"page", j>>, page_list[j], Rounded(PageSize))
    BY DEF ListPieces
  <2>3. page_list[i] = page_list[j]
    BY <1>2, <2>1, <2>2, PieceParts
  <2>4. i = j
    BY <2>3, HeapCut DEF IsInjective
  <2>. QED
    BY <2>1, <2>2, <2>4
<1>. QED
  BY <1>1, <1>2

(* Free blocks, which are the free cuts.                                   *)
LEMMA PiecesOfFree ==
  ASSUME IInv
  PROVE  /\ \A p \in FreePieces : p.at \in FreeAddresses
         /\ \A p, q \in FreePieces : p.at = q.at => p = q
         /\ \A p \in FreePieces :
              \E c \in FreeCuts(mem) : p.at = c[1] /\ p.size = BinSize(c[2])
<1>1. ASSUME NEW b \in DOMAIN mem.head, NEW i \in DOMAIN mem.head[b]
      PROVE  /\ <<mem.head[b][i], b>> \in FreeCuts(mem) /\ b \in AllBins
  <2>1. b \in AllBins /\ mem.head[b] \in Seq(Nat)
    BY HeapCut
  <2>2. mem.head[b][i] \in Range(mem.head[b])
    BY DEF Range
  <2>3. mem.head[b][i] \in Nat
    BY <2>1, ElementOfSeq, LenProperties
  <2>. QED
    BY <2>1, <2>2, <2>3 DEF FreeCuts, Cuts
<1>2. ASSUME NEW p \in FreePieces
      PROVE  \E c \in FreeCuts(mem) : p.at = c[1] /\ p.size = BinSize(c[2])
  <2>1. PICK b, i : b \in DOMAIN mem.head /\ i \in DOMAIN mem.head[b]
          /\ p = Piece(<<"free", b, i>>, mem.head[b][i], BinSize(b))
    BY DEF FreePieces
  <2>. DEFINE c == <<mem.head[b][i], b>>
  <2>2. c \in FreeCuts(mem) /\ c[1] = mem.head[b][i] /\ c[2] = b
    BY <1>1, <2>1
  <2>3. p.at = mem.head[b][i] /\ p.size = BinSize(b)
    BY <2>1, PieceParts
  <2>. HIDE DEF c
  <2>. QED
    BY <2>2, <2>3
<1>3. ASSUME NEW p \in FreePieces, NEW q \in FreePieces, p.at = q.at PROVE p = q
  <2>1. PICK b, i : b \in DOMAIN mem.head /\ i \in DOMAIN mem.head[b]
          /\ p = Piece(<<"free", b, i>>, mem.head[b][i], BinSize(b))
    BY DEF FreePieces
  <2>2. PICK d, j : d \in DOMAIN mem.head /\ j \in DOMAIN mem.head[d]
          /\ q = Piece(<<"free", d, j>>, mem.head[d][j], BinSize(d))
    BY DEF FreePieces
  <2>3. mem.head[b][i] = mem.head[d][j]
    BY <1>3, <2>1, <2>2, PieceParts
  <2>4. <<mem.head[b][i], b>> \in AllCuts /\ <<mem.head[d][j], d>> \in AllCuts
    BY <1>1, <2>1, <2>2 DEF AllCuts
  <2>5. <<mem.head[b][i], b>> = <<mem.head[d][j], d>>
    <3>1. <<mem.head[b][i], b>>[1] = <<mem.head[d][j], d>>[1]
      BY <2>3
    <3>2. Tiled(AllCuts, mem.cbrk)
      BY HeapCut
    <3>. QED
      BY <2>4, <3>1, <3>2, CutOnce
  <2>6. b = d
    BY <2>5
  <2>7. i = j
    BY <1>1, <2>1, <2>2, <2>3, <2>6, HeapCut DEF IsInjective
  <2>. QED
    BY <2>1, <2>2, <2>6, <2>7
<1>4. \A p \in FreePieces : p.at \in FreeAddresses
  BY <1>2 DEF FreeAddresses
<1>. QED
  BY <1>2, <1>3, <1>4

(* No two of the five kinds of pieces share an address.                    *)
LEMMA AddressesApart ==
  ASSUME IInv
  PROVE  /\ BlockAddresses \cap DOMAIN threads = {}
         /\ BlockAddresses \cap Stacked(Held) = {}
         /\ BlockAddresses \cap Range(page_list) = {}
         /\ BlockAddresses \cap FreeAddresses = {}
         /\ (DOMAIN threads) \cap Stacked(Held) = {}
         /\ (DOMAIN threads) \cap Range(page_list) = {}
         /\ (DOMAIN threads) \cap FreeAddresses = {}
         /\ Stacked(Held) \cap Range(page_list) = {}
         /\ Stacked(Held) \cap FreeAddresses = {}
         /\ Range(page_list) \cap FreeAddresses = {}
<1>0. DOMAIN Held = DOMAIN threads
  BY HeldFacts
<1>. HIDE DEF Held
<1>1. ASSUME NEW x \in BlockAddresses
      PROVE  /\ x \notin DOMAIN threads /\ x \notin Stacked(Held)
             /\ \E c \in InUse(blocks, Held) : c[1] = x
  <2>1. PICK c \in BlockCuts(blocks) : x = c[1]
    BY DEF BlockAddresses
  <2>2. PICK i \in 1..MaxBlocks :
          blocks[i] # Nobody /\ c = <<blocks[i].at, Bin(blocks[i].size)>>
    BY DEF BlockCuts
  <2>3. x = blocks[i].at
    BY <2>1, <2>2
  <2>4. c \in InUse(blocks, Held)
    BY DEF InUse
  <2>. QED
    BY <1>0, <2>1, <2>2, <2>3, <2>4, HeapCut DEF Owners
<1>2. ASSUME NEW x \in DOMAIN threads
      PROVE  x \notin Stacked(Held) /\ \E c \in InUse(blocks, Held) : c[1] = x
  <2>1. <<x, Bin(ThreadSize)>> \in InUse(blocks, Held) /\ <<x, Bin(ThreadSize)>>[1] = x
    BY <1>0 DEF InUse, ThreadCuts
  <2>. QED
    BY <1>0, <2>1, HeapCut DEF Owners
<1>3. ASSUME NEW x \in Stacked(Held) PROVE \E c \in InUse(blocks, Held) : c[1] = x
  <2>1. <<x, PageBin>> \in InUse(blocks, Held) /\ <<x, PageBin>>[1] = x
    BY DEF InUse, PageCuts
  <2>. QED
    BY <2>1
<1>4. ASSUME NEW c \in InUse(blocks, Held) PROVE c[1] \notin Range(page_list)
  BY HeapCut
<1>5. ASSUME NEW c \in InUse(blocks, Held) \cup PageCuts(Range(page_list))
      PROVE  c[1] \notin FreeAddresses
  <2>. SUFFICES ASSUME c[1] \in FreeAddresses PROVE FALSE
    OBVIOUS
  <2>1. PICK d \in FreeCuts(mem) : d[1] = c[1]
    BY DEF FreeAddresses
  <2>2. c \in AllCuts /\ d \in AllCuts
    BY DEF AllCuts
  <2>3. Tiled(AllCuts, mem.cbrk)
    BY HeapCut
  <2>4. c = d
    BY <2>1, <2>2, <2>3, CutOnce
  <2>. QED
    BY <2>4, HeapCut
<1>6. ASSUME NEW x \in Range(page_list) PROVE x \notin FreeAddresses
  <2>1. <<x, PageBin>> \in PageCuts(Range(page_list)) /\ <<x, PageBin>>[1] = x
    BY DEF PageCuts
  <2>. QED
    BY <1>5, <2>1
<1>7. \A c \in InUse(blocks, Held) : c[1] \notin Range(page_list) /\ c[1] \notin FreeAddresses
  BY <1>4, <1>5
<1>. QED
  BY <1>1, <1>2, <1>3, <1>6, <1>7

(* An address is that of one piece.                                        *)
LEMMA PieceOnce ==
  ASSUME IInv, NEW p \in Pieces, NEW q \in Pieces, p.at = q.at
  PROVE  p = q
<1>1. p \in BlockPieces \/ p \in ThreadPieces \/ p \in SavedPieces \/ p \in ListPieces
      \/ p \in FreePieces
  BY DEF Pieces
<1>2. q \in BlockPieces \/ q \in ThreadPieces \/ q \in SavedPieces \/ q \in ListPieces
      \/ q \in FreePieces
  BY DEF Pieces
<1>3. CASE p \in BlockPieces
  BY <1>2, <1>3, AddressesApart, PiecesOfBlocks, PiecesOfThreads, PiecesOfStacks, PiecesOfList, PiecesOfFree
<1>4. CASE p \in ThreadPieces
  BY <1>2, <1>4, AddressesApart, PiecesOfBlocks, PiecesOfThreads, PiecesOfStacks, PiecesOfList, PiecesOfFree
<1>5. CASE p \in SavedPieces
  BY <1>2, <1>5, AddressesApart, PiecesOfBlocks, PiecesOfThreads, PiecesOfStacks, PiecesOfList, PiecesOfFree
<1>6. CASE p \in ListPieces
  BY <1>2, <1>6, AddressesApart, PiecesOfBlocks, PiecesOfThreads, PiecesOfStacks, PiecesOfList, PiecesOfFree
<1>7. CASE p \in FreePieces
  BY <1>2, <1>7, AddressesApart, PiecesOfBlocks, PiecesOfThreads, PiecesOfStacks, PiecesOfList, PiecesOfFree
<1>. QED
  BY <1>1, <1>3, <1>4, <1>5, <1>6, <1>7

Same(p, c) == p.at = c[1] /\ p.size = BinSize(c[2])

(* Each piece is a cut of the heap.                                        *)
LEMMA PieceIsCut ==
  ASSUME IInv, NEW p \in Pieces
  PROVE  \E c \in AllCuts : Same(p, c)
<1>0. DOMAIN Held = DOMAIN threads
  BY HeldFacts
<1>1. CASE p \in BlockPieces
  <2>1. PICK i \in 1..MaxBlocks :
          blocks[i] # Nobody /\ p = Piece(<<"block", i>>, blocks[i].at, Rounded(blocks[i].size))
    BY <1>1 DEF BlockPieces
  <2>. DEFINE c == <<blocks[i].at, Bin(blocks[i].size)>>
  <2>2. c \in AllCuts
    BY <2>1 DEF AllCuts, InUse, BlockCuts
  <2>3. Same(p, c)
    BY <2>1, PieceParts DEF Rounded, Same
  <2>. QED
    BY <2>2, <2>3
<1>2. CASE p \in ThreadPieces
  <2>1. PICK a \in DOMAIN threads : p = Piece(<<"thread", a>>, a, Rounded(ThreadSize))
    BY <1>2 DEF ThreadPieces
  <2>. DEFINE c == <<a, Bin(ThreadSize)>>
  <2>2. c \in AllCuts
    BY <1>0, <2>1 DEF AllCuts, InUse, ThreadCuts
  <2>3. Same(p, c)
    BY <2>1, PieceParts DEF Rounded, Same
  <2>. QED
    BY <2>2, <2>3
<1>3. CASE p \in SavedPieces
  <2>1. PICK a, i : a \in DOMAIN threads /\ i \in DOMAIN Saved(a)
          /\ p = Piece(<<"saved", a, i>>, Saved(a)[i], Rounded(PageSize))
    BY <1>3 DEF SavedPieces
  <2>. DEFINE c == <<p.at, PageBin>>
  <2>2. c \in AllCuts
    BY <1>3, PiecesOfStacks DEF AllCuts, InUse, PageCuts
  <2>3. Same(p, c)
    BY <2>1, PieceParts DEF Rounded, Same, PageBin
  <2>. QED
    BY <2>2, <2>3
<1>4. CASE p \in ListPieces
  <2>1. PICK i \in DOMAIN page_list : p = Piece(<<"page", i>>, page_list[i], Rounded(PageSize))
    BY <1>4 DEF ListPieces
  <2>. DEFINE c == <<p.at, PageBin>>
  <2>2. c \in AllCuts
    BY <1>4, PiecesOfList DEF AllCuts, PageCuts
  <2>3. Same(p, c)
    BY <2>1, PieceParts DEF Rounded, Same, PageBin
  <2>. QED
    BY <2>2, <2>3
<1>5. CASE p \in FreePieces
  BY <1>5, PiecesOfFree DEF AllCuts, Same
<1>. QED
  BY <1>1, <1>2, <1>3, <1>4, <1>5 DEF Pieces

(* And each cut is a piece.                                                *)
LEMMA CutIsPiece ==
  ASSUME IInv, NEW c \in AllCuts
  PROVE  \E p \in Pieces : Same(p, c)
<1>0. DOMAIN Held = DOMAIN threads /\ \A a \in DOMAIN threads : Held[a] = Saved(a)
  BY HeldFacts DEF Saved
<1>. HIDE DEF Held
<1>1. CASE c \in BlockCuts(blocks)
  <2>1. PICK i \in 1..MaxBlocks :
          blocks[i] # Nobody /\ c = <<blocks[i].at, Bin(blocks[i].size)>>
    BY <1>1 DEF BlockCuts
  <2>. DEFINE p == Piece(<<"block", i>>, blocks[i].at, Rounded(blocks[i].size))
  <2>2. p \in Pieces
    BY <2>1 DEF Pieces, BlockPieces
  <2>3. Same(p, c)
    BY <2>1, PieceParts DEF Rounded, Same
  <2>. QED
    BY <2>2, <2>3
<1>2. CASE c \in ThreadCuts(Held)
  <2>1. c[1] \in DOMAIN threads /\ c[2] = Bin(ThreadSize)
    BY <1>0, <1>2 DEF ThreadCuts
  <2>. DEFINE p == Piece(<<"thread", c[1]>>, c[1], Rounded(ThreadSize))
  <2>2. p \in Pieces
    BY <2>1 DEF Pieces, ThreadPieces
  <2>3. Same(p, c)
    BY <2>1, PieceParts DEF Rounded, Same
  <2>. QED
    BY <2>2, <2>3
<1>3. CASE c \in PageCuts(Stacked(Held))
  <2>1. c[1] \in Stacked(Held) /\ c[2] = PageBin
    BY <1>3 DEF PageCuts
  <2>2. PICK a, i : a \in DOMAIN threads /\ i \in DOMAIN Saved(a) /\ c[1] = Saved(a)[i]
    BY <1>0, <2>1 DEF Stacked, Range
  <2>. DEFINE p == Piece(<<"saved", a, i>>, Saved(a)[i], Rounded(PageSize))
  <2>3. p \in Pieces
    BY <2>2 DEF Pieces, SavedPieces
  <2>4. Same(p, c)
    BY <2>1, <2>2, PieceParts DEF Rounded, Same, PageBin
  <2>. QED
    BY <2>3, <2>4
<1>4. CASE c \in PageCuts(Range(page_list))
  <2>1. c[1] \in Range(page_list) /\ c[2] = PageBin
    BY <1>4 DEF PageCuts
  <2>2. PICK i \in DOMAIN page_list : c[1] = page_list[i]
    BY <2>1 DEF Range
  <2>. DEFINE p == Piece(<<"page", i>>, page_list[i], Rounded(PageSize))
  <2>3. p \in Pieces
    BY DEF Pieces, ListPieces
  <2>4. Same(p, c)
    BY <2>1, <2>2, PieceParts DEF Rounded, Same, PageBin
  <2>. QED
    BY <2>3, <2>4
<1>5. CASE c \in FreeCuts(mem)
  <2>1. c[2] \in AllBins /\ c[1] \in Range(mem.head[c[2]])
    BY <1>5 DEF FreeCuts, Cuts
  <2>2. PICK i \in DOMAIN mem.head[c[2]] : c[1] = mem.head[c[2]][i]
    BY <2>1 DEF Range
  <2>3. c[2] \in DOMAIN mem.head
    BY <2>1, HeapCut
  <2>. DEFINE p == Piece(<<"free", c[2], i>>, mem.head[c[2]][i], BinSize(c[2]))
  <2>4. p \in Pieces
    BY <2>3 DEF Pieces, FreePieces
  <2>5. Same(p, c)
    BY <2>2, PieceParts DEF Same
  <2>. QED
    BY <2>4, <2>5
<1>. QED
  BY <1>1, <1>2, <1>3, <1>4, <1>5 DEF AllCuts, InUse

(* No byte of the heap is given to two owners and none is lost, through    *)
(* every order of allocations, frees, copies, ends of threads and late     *)
(* ends of zombies (alloc.c 32-51, 112-148; switch.c 158-173, 238-290),    *)
(* for every number of bins and all sizes.                                 *)
THEOREM HeapSound == Spec => []HeapPartitioned
<1>1. ASSUME IInv PROVE HeapPartitioned
  <2>1. /\ mem.cbrk + mem.left = mem.rbrk /\ mem.cbrk \in Nat
        /\ Tiled(AllCuts, mem.cbrk)
    BY <1>1, HeapCut DEF Memory
  <2>2. ASSUME NEW c \in AllCuts
        PROVE  c[1] \in Nat /\ BinSize(c[2]) \in Nat /\ c[1] + BinSize(c[2]) <= mem.cbrk
    <3>1. c[1] \in Nat /\ c[2] \in AllBins /\ c[1] + BinSize(c[2]) <= mem.cbrk
      BY <2>1 DEF Tiled, Cuts
    <3>. QED
      BY <3>1, SizesPositive
  <2>3. ASSUME NEW p \in Pieces PROVE p.at + p.size <= mem.cbrk
    <3>1. PICK c \in AllCuts : Same(p, c)
      BY <1>1, PieceIsCut
    <3>. QED
      BY <2>2, <3>1 DEF Same
  <2>4. ASSUME NEW x \in 0..(mem.cbrk - 1)
        PROVE  \E p \in Pieces : {q \in Pieces : Within(x, q.at, q.size)} = {p}
    <3>1. PICK c \in AllCuts : Within(x, c[1], BinSize(c[2]))
      BY <2>1 DEF Tiled
    <3>2. PICK p \in Pieces : Same(p, c)
      BY <1>1, CutIsPiece
    <3>3. ASSUME NEW q \in Pieces, Within(x, q.at, q.size) PROVE q = p
      <4>1. PICK d \in AllCuts : Same(q, d)
        BY <1>1, PieceIsCut
      <4>2. Within(x, d[1], BinSize(d[2]))
        BY <3>3, <4>1 DEF Same
      <4>3. ~ Apart(c, d)
        BY <2>2, <3>1, <4>2 DEF Apart, Within
      <4>4. c = d
        BY <2>1, <4>3 DEF Tiled
      <4>. QED
        BY <1>1, <3>2, <4>1, <4>4, PieceOnce DEF Same
    <3>4. Within(x, p.at, p.size)
      BY <3>1, <3>2 DEF Same
    <3>5. {q \in Pieces : Within(x, q.at, q.size)} = {p}
      BY <3>3, <3>4
    <3>. QED
      BY <3>5
  <2>. QED
    BY <2>1, <2>3, <2>4 DEF HeapPartitioned
<1>. QED
  BY <1>1, SpecIInv, PTL
=============================================================================
