---------------------------- MODULE MCAlgorithms ----------------------------
(***************************************************************************)
(* The sequential parts of the library against reference definitions: a    *)
(* state is one input.                                                     *)
(***************************************************************************)
EXTENDS Bignum, Sorting, Lagged, Printer, Bufio, Io, Sha256, Context, Parkour

CONSTANTS Kinds,     \* which inputs there are
          MaxArray,  \* longest array to sort
          Keys,      \* keys of its elements: 1..Keys
          MaxString, \* longest string to parse
          MaxFile,   \* longest file to read
          MaxMessage,\* longest message to hash
          MaxBuffer, \* longest memory to search
          MaxTurns,  \* most switches of context
          MaxLength  \* longest buffer of a system call

VARIABLE input

Strings(S, n) == UNION {[1..k -> S] : k \in 0..n}

-----------------------------------------------------------------------------
\* The inputs.

AllNumbers(len) == [1..len -> 0..(Base - 1)]

(* Two numbers of any length, up to three digits and two.                  *)
Pairs ==
  [kind : {"pair"}, acc : UNION {AllNumbers(n) : n \in 1..3},
   val : UNION {AllNumbers(n) : n \in 1..2}]

(* m has its highest bit set; for two digits, a few such m.                *)
Moduli(len) ==
  LET half == Base ^ len \div 2
  IN  IF len = 1 THEN half..(Base - 1)
      ELSE {half, half + 5, half + Base, half + 27, Base ^ len - 1}

Divisions ==
  UNION {[kind : {"division"}, len : {n}, x : 0..(Base ^ (2 * n) - 1), m : Moduli(n)] :
           n \in 1..2}

(* First tables of the generator of random numbers.                        *)
Tables == [kind : {"table"}, iv : [1..TableSize -> 0..(2 ^ NumberBits - 1)]]

Arrays == [kind : {"array"}, key : Strings(1..Keys, MaxArray)]

(* Something to look for in a memory; and two variables and a name, of     *)
(* letters 1 and 2 and EqualSign, each ended by NUL.                       *)
Haystacks == [kind : {"memory"}, buf : Strings({1, 2}, MaxBuffer), ndl : Strings({1, 2}, 3)]

Ended(S) == {Append(str, NUL) : str \in S}

Environments ==
  [kind : {"environment"}, envp : [1..2 -> Ended(Strings({1, 2, EqualSign}, 3))],
   key : Ended(Strings({1, 2}, 2))]

Numerals == [kind : {"string"}, digits : Strings(0..9, MaxString)]

(* Formats of up to three items, and how the first writes go.              *)
Items ==
  [what : {"space"}, arg : {0}]
    \cup [what : {"string"}, arg : {NoString, <<>>, <<30, 31>>}]
    \cup [what : {"memory"}, arg : {<<>>, <<7, 250>>}]
    \cup [what : {"number"}, arg : {0, 9, 10, Word - 1}]

Formats ==
  [kind : {"format"}, format : Strings(Items, 3), answers : [1..2 -> {3, 1, 0, -EBADF}]]

(* A file, how its first reads are short, a buffer, and three requests.    *)
Files ==
  [kind : {"file"}, len : 0..MaxFile, amounts : [1..2 -> 1..3], size : 1..3,
   requests : [1..3 -> 0..3]]

(* A number that one thread writes and another reads, and the kernel's     *)
(* answers to both, the reader's beginning with those to its accept.       *)
Answers == {2, 1, 0, -EAGAIN, -EBADF}

Streams ==
  {s \in [kind : {"stream"}, octets : {1, 2, 4, 8},
          val : {0, 1, 6, 27, 228, 16411, 2 ^ (OctetBits * WordOctets) - 1},
          out : [1..2 -> Answers], in : [1..3 -> Answers]] :
     s.val < 2 ^ (OctetBits * s.octets)}

(* A message in two parts, the first of whole blocks.                      *)
Messages ==
  [kind : {"message"}, len : 0..MaxMessage, first : {Block * n : n \in 0..(MaxMessage \div Block)}]

(* Entries of contexts by their number, and yields, 0.                     *)
Turns == [kind : {"turns"}, turns : [1..MaxTurns -> 0..Contexts]]

(* Two system calls as the kernel answers them: none returns more than it  *)
(* was asked for, stat fails without a structure, and arguments that a     *)
(* call does not have are 0 or NULL.                                       *)
SystemCalls(data) ==
  {c \in [wrapper : Wrappers, pointer : BOOLEAN, len : 0..MaxLength,
          ret : -1..MaxLength, size : 0..MaxLength, data : {data}] :
     /\ c.wrapper.in = "returned" => c.ret <= c.len
     /\ c.wrapper.in = "word" => c.len = 0 /\ (c.pointer \/ c.ret < 0)
     /\ IF c.wrapper.in = "address" THEN c.pointer ELSE c.size = 0
     /\ c.wrapper.in = "never" => ~c.pointer /\ c.len = 0 /\ c.ret = 0}

Programs == [kind : {"calls"}, calls : SystemCalls(<<1, 2>>) \X SystemCalls(<<3, 4>>)]

Inputs(kind) ==
  CASE kind = "pair"        -> Pairs
    [] kind = "division"    -> Divisions
    [] kind = "table"       -> Tables
    [] kind = "array"       -> Arrays
    [] kind = "memory"      -> Haystacks
    [] kind = "environment" -> Environments
    [] kind = "string"      -> Numerals
    [] kind = "format"      -> Formats
    [] kind = "file"        -> Files
    [] kind = "stream"      -> Streams
    [] kind = "message"     -> Messages
    [] kind = "turns"       -> Turns
    [] kind = "calls"       -> Programs

Init == \E kind \in Kinds : input \in Inputs(kind)

Next == UNCHANGED input

Spec == Init /\ [][Next]_input

-----------------------------------------------------------------------------
\* The properties.

SumsExact(acc, val) ==
  LET a == Value(acc)
      b == Value(val)
      sum == Add(acc, val)
      difference == Sub(acc, val)
      order == Compare(acc, val)
  IN  /\ Len(val) <= Len(acc) =>
           /\ sum.ok <=> a + b < Base ^ Len(acc)
           /\ sum.ok => Value(sum.arr) = a + b
           /\ difference.ok <=> a >= b
           /\ difference.ok => Value(difference.arr) = a - b
      /\ order > 0 <=> a > b
      /\ order < 0 <=> a < b

(* In either order, with a temporary as long as the product.               *)
ProductsExact(acc, val) ==
  \A len \in {Len(acc) + Len(val)} :
  \A there \in {Mul(Zero(len), acc, val, len)}, back \in {Mul(Zero(len), val, acc, len)} :
    /\ there.ok /\ back.ok
    /\ Value(there.arr) = Value(acc) * Value(val)
    /\ back.arr = there.arr

ShiftsExact(acc) ==
  LET v == Value(acc)
  IN  \A sham \in 0..(DigitBits * Len(acc)) :
        \A up \in {Shl(acc, sham)} :
          /\ Value(Shr(acc, sham)) = v \div 2 ^ sham
          /\ v * 2 ^ sham < Base ^ Len(acc) => up.ok /\ Value(up.arr) = v * 2 ^ sham
          /\ sham < DigitBits /\ v * 2 ^ sham >= Base ^ Len(acc) => ~up.ok

BitsExact(acc) ==
  LET v == Value(acc)
  IN  /\ IsZero(acc) <=> v = 0
      /\ IF v = 0 THEN TopBit(acc) = -1
         ELSE 2 ^ TopBit(acc) <= v /\ v < 2 ^ (TopBit(acc) + 1)
      /\ FoldLeft(LAMBDA n, i : IF GetBit(acc, i - 1) THEN SetBit(n, i - 1) ELSE n,
                  Zero(Len(acc)), [i \in 1..(DigitBits * Len(acc)) |-> i]) = acc
      /\ Load(Save(acc), Len(acc)) = acc
      /\ FoldLeft(LAMBDA w, nibble : w * 2 ^ NibbleBits + nibble, 0, Save(acc)) = v

(* Each number is the sum of the one LagA and the one LagB before it; the  *)
(* first ones are those of the first table, in its order.                  *)
RandomExact(iv) ==
  LET turns == [n \in 1..(2 * TableSize + 1) |-> n]
      made  == FoldLeft(LAMBDA s, n :
                 LET rg == NextNumber(s.rg)
                 IN  [rg |-> rg, all |-> Append(s.all, rg.latest)],
                 [rg |-> FirstTable(iv), all |-> iv], turns).all
  IN  \A n \in (TableSize + 1)..Len(made) :
        made[n] = (made[n - LagA] + made[n - LagB]) % 2 ^ NumberBits

(* Sums, differences, products, shifts, bits and the old Barrett reduction *)
(* of numbers of any lengths are exact, through every carry and across     *)
(* digits, and numbers compare as their values do.  An assertion fails     *)
(* exactly when a sum or difference does not fit, or a shift loses less    *)
(* than a digit; none fails in a product or in a reduction, also with the  *)
(* highest factor and where the quotient is off by some.  What is saved    *)
(* has the highest digit first and loads as the same number (bignum.c      *)
(* 69-543).  And the random generator keeps to its recurrence though its   *)
(* table is a ring that is overwritten and its positions begin below zero  *)
(* (misc.c 254-271).                                                       *)
ArithmeticExact ==
  CASE input.kind = "pair" ->
         /\ SumsExact(input.acc, input.val)
         /\ ProductsExact(input.acc, input.val)
         /\ ShiftsExact(input.acc)
         /\ BitsExact(input.acc)
    [] input.kind = "division" ->
         LET k == DigitBits * input.len
         IN  \A r \in {BarrettOld(k, Number(input.x, 2 * input.len), Number(input.m, input.len),
                                  Number(2 ^ (2 * k) \div input.m, Digits(k + 1)))} :
               r.ok /\ Value(r.arr) = input.x % input.m
    [] input.kind = "table" -> RandomExact(input.iv)
    [] OTHER -> TRUE

(* "LB_ASSURE(lb_bignum_compare_eq(r, r_expected))" of the "barrett        *)
(* reduction test" (test.c): the reduction is exact, whatever r was.       *)
ReductionExact ==
  input.kind = "division" =>
    LET k == DigitBits * input.len
    IN  \A r2 \in {Estimate(k, Number(input.x, 2 * input.len), Number(input.m, input.len),
                           Number(2 ^ (2 * k) \div input.m, Digits(k + 1)))},
           before \in AllNumbers(input.len) :
          LET r == Barrett(k, Number(input.m, input.len), r2, before)
          IN  r.ok /\ Value(r.arr) = input.x % input.m

(* What qsort makes of elements 1, 2, ... with the keys of the input.      *)
Elements == [n \in 1..Len(input.key) |-> n]
Outcome == QSort(Elements, 1, Len(input.key) + 1, input.key)

(* qsort sorts, loses no element and doubles none, equal keys included.    *)
(* And "this keeps stack usage always at or below O(log n)" (misc.c 110):  *)
(* whatever the pivots, no more calls are active than log2(n) + 1.         *)
SortExact ==
  input.kind = "array" =>
    \A outcome \in {Outcome} : \A arr \in {outcome.arr} :
      /\ arr # <<>> => 2 ^ (outcome.depth - 1) <= Len(arr)
      /\ \A i \in 1..(Len(arr) - 1) : input.key[arr[i]] <= input.key[arr[i + 1]]
      /\ Range(arr) = Range(Elements) /\ Len(arr) = Len(Elements)

(* What is looked for in a sorted array, in memory, and in the environment *)
(* is found exactly if it is there, the first of several, and nothing is   *)
(* read beyond the memory; a copy of strings is given back with the size   *)
(* it was allocated with (misc.c 6-61 and 138-190, sysdeps.c 152-212,      *)
(* string.c 6-21).                                                         *)
SearchExact ==
  CASE input.kind = "array" ->
         \A K \in 0..(Keys + 1) :
           LET found == BSearch(Outcome.arr, 1, Len(input.key) + 1, K, input.key)
           IN  IF K \in Range(input.key)
               THEN found # 0 /\ input.key[found] = K
               ELSE found = 0
    [] input.kind = "memory" ->
         LET places == {i \in 1..(Len(input.buf) + 1) :
                          IsPrefix(input.ndl, SubSeq(input.buf, i, Len(input.buf)))}
             result == MemMem(input.buf, input.ndl, 1)
             both   == <<StrDupMem(input.buf), StrDupMem(input.ndl)>>
             joined == StrDupAppend(both[1], both[2])
         IN  /\ result.inside
             /\ result.found = IF places = {} THEN 0 ELSE Min(places)
             /\ StrCmp(both[1], both[2]) <=> input.buf = input.ndl
             /\ joined = input.buf \o input.ndl \o <<NUL>> /\ FreedSize(joined) = Len(joined)
    [] input.kind = "environment" ->
         LET named == {n \in DOMAIN input.envp :
                         IsPrefix(Append(Front(input.key), EqualSign), input.envp[n])}
             value == Getenv(input.envp, input.key)
         IN  IF named = {} THEN value = <<>>
             ELSE input.envp[Min(named)] = Front(input.key) \o <<EqualSign>> \o value
    [] OTHER -> TRUE

(* The value of a string of decimal digits.                                *)
Decimal(digits) == FoldLeft(LAMBDA v, d : 10 * v + d, 0, digits)

(* "we can accurately detect overflow here" (string.c 96-97): a string is  *)
(* accepted exactly if its value fits in a word, and then read right; and  *)
(* the number is printed as the shortest such string (109-143).  A text is *)
(* as long as it was measured, which is what its buffer on the stack has   *)
(* room for; and what a descriptor shows of it, through any short writes,  *)
(* is all of it or the part before the error that ends the program         *)
(* (printer.c 12-137).                                                     *)
TextExact ==
  CASE input.kind = "string" ->
         LET p == Parse(input.digits)
         IN  /\ p.ok <=> input.digits # <<>> /\ Decimal(input.digits) < Word
             /\ p.ok => /\ p.val = Decimal(input.digits)
                        /\ Parse(Printed(p.val)) = p
                        /\ Len(Printed(p.val)) <= Len(input.digits)
    [] input.kind = "format" ->
         LET text  == PrintS(input.format)
             shown == PrintTo(input.format, input.answers)
         IN  /\ Len(text) = Measured(input.format) + 1
             /\ IsPrefix(shown.shown, Front(text))
             /\ shown.alive <=> shown.shown = Front(text)
    [] OTHER -> TRUE

(* Reads through the buffer give the bytes of the file in order, whatever  *)
(* the sizes, and less than was asked for only at its end.                 *)
BufferedExact(file) ==
  LET bytes == [i \in 1..file.len |-> i]
      start == [bu |-> Fresh, file |-> [bytes |-> bytes, amounts |-> file.amounts],
                given |-> <<>>, ok |-> TRUE]
      step(s, len) ==
        LET r == BufRead(s.bu, s.file, file.size, len, <<>>)
        IN  [bu |-> r.bu, file |-> r.file, given |-> s.given \o r.got,
             ok |-> s.ok /\ Len(r.got) = Min({len, file.len - Len(s.given)})]
      end == FoldLeft(step, start, file.requests)
  IN  end.ok /\ IsPrefix(end.given, bytes)

(* How often an answer is -EAGAIN.                                         *)
Refusals(script) ==
  Cardinality({n \in 1..Len(script) : TryAgain(script[n])})

(* What arrives is what was sent, in order: through short transfers, waits *)
(* for readiness and a buffer of any size, and with the highest octet      *)
(* first on the wire.  A transfer is cut short only by an error or the end *)
(* of the other side, which its thread does not survive, and then as much  *)
(* is on the wire as the writer got rid of; a thread waits in epoll only   *)
(* after -EAGAIN (io.c 46-170, bufio.c 33-71, sysdeps.c 48-63).            *)
StreamsExact ==
  CASE input.kind = "file" -> BufferedExact(input)
    [] input.kind = "stream" ->
         LET thread(script, wire) == [script |-> script, wire |-> wire, waits |-> 0, live |-> TRUE]
             sent == Reverse(InMemory(input.val, input.octets))
         IN  \A w \in {NboWrite(thread(input.out, <<>>), input.val, input.octets)} :
             \A a \in {IoAccept(thread(input.in, w.wire))} :
             \A r \in {IF a.live THEN NboRead(a, input.octets) ELSE [conn |-> a, val |-> 0]} :
               /\ IF w.live THEN w.wire = sent ELSE IsStrictPrefix(w.wire, sent)
               /\ w.waits <= Refusals(input.out) /\ r.conn.waits <= Refusals(input.in)
               /\ a.live <=> -EBADF \notin Range(input.in) \/
                             \E n \in 1..Len(input.in) :
                               /\ input.in[n] >= 0
                               /\ \A m \in 1..n : input.in[m] # -EBADF
               /\ r.conn.live => w.live /\ r.val = input.val /\ r.conn.wire = <<>>
               /\ w.live /\ a.live /\ ~r.conn.live =>
                    \E n \in 2..Len(input.in) : input.in[n] \in {0, -EBADF}
    [] OTHER -> TRUE

(* A message is hashed as the standard pads it: a byte 0x80, as few zeros  *)
(* as fill the block, and the length in bits, which a core that reads big- *)
(* endian words, with swap on this host, finds in its last two (sha256.c   *)
(* 181-270); in parts as at once; and the last blocks fit the array that   *)
(* the code has for them.  The other padding leaves 0x80 out and has the   *)
(* length in words of the host: a core that does not swap finds it in its  *)
(* last two words, on any host, and for a message of the host's words it   *)
(* works on the same words there, which is what this padding is for        *)
(* (175-179).                                                              *)
PaddingExact ==
  input.kind = "message" /\ input.first <= input.len =>
    LET bytes == [i \in 1..input.len |-> i % 2 ^ ByteBits]
        none  == [words |-> <<>>, total |-> 0, ok |-> TRUE]
        word  == 2 ^ (ByteBits * WordBytes)
        \* Without the length, and the length that the last two words hold.
        body(words)   == SubSeq(words, 1, Len(words) - 2)
        length(words) == words[Len(words) - 1] * word + words[Len(words)]
        \* The smallest number of bytes in whole blocks that n bytes fit in.
        blocks(n) == CHOOSE k \in n..(n + Block - 1) : k % Block = 0
        ended  == Append(bytes, Marker)
        filled(text) ==
          text \o Zeros(blocks(Len(text) + LengthBytes) - LengthBytes - Len(text))
        \* A message of words as a host has it in memory.
        numbers == [n \in 1..(input.len \div WordBytes) |-> (5 * n) % word]
        onHost(host) == FoldLeft(LAMBDA text, n : text \o StoreWord(n, host), <<>>, numbers)
    IN  /\ \A host \in {"little", "big"}, swap \in BOOLEAN :
             \A once \in {Calc(none, bytes, swap, 1, host)},
                other \in {Calc(none, bytes, swap, 2, host)} :
               /\ once.ok /\ other.ok
               /\ body(once.words) = Core(filled(ended), swap, host)
               /\ swap = (host = "little") => length(once.words) = 8 * input.len
               /\ body(other.words) = Core(filled(bytes), swap, host)
               /\ ~swap => length(other.words) = 8 * input.len
               /\ \A fini \in {1, 2} :
                    Calc(Calc(none, SubSeq(bytes, 1, input.first), swap, 0, host),
                         SubSeq(bytes, input.first + 1, input.len), swap, fini, host)
                      = IF fini = 1 THEN once ELSE other
        /\ \A swap \in BOOLEAN :
             Calc(none, onHost("little"), swap, 2, "little")
               = Calc(none, onHost("big"), swap, 2, "big")
        /\ \A fini \in {1, 2} :
             Len(LastBlocks(SubSeq(bytes, 1, input.len % Block), input.len, fini, "little"))
               \in {Block, 2 * Block}

(* What a context yields goes to whoever entered it last, and what it is   *)
(* entered with to the place where it yielded, though contexts enter each  *)
(* other and come back to a context by another way than before; no switch  *)
(* leads into frames that are gone (context.c 56-130).  And a new context  *)
(* begins as a function does, eight bytes below a multiple of 16, and all  *)
(* of its frame is in its memory (75-104).                                 *)
ContextsExact ==
  input.kind = "turns" =>
    LET \* The reference: contexts are active from their entry to their yield.
        step(s, n) ==
          LET c == input.turns[n]
          IN  IF c = 0
              THEN IF s.active = <<0>> THEN s
                   ELSE [m |-> YieldContext(s.m, n), active |-> Front(s.active),
                         got |-> Append(s.got, <<Last(Front(s.active)), n>>)]
              ELSE IF c \in Range(s.active) THEN s
                   ELSE [m |-> EnterContext(s.m, c, n), active |-> Append(s.active, c),
                         got |-> Append(s.got, <<c, n>>)]
        end == FoldLeft(step, [m |-> Start, active |-> <<0>>, got |-> <<>>],
                        [n \in 1..MaxTurns |-> n])
    IN  /\ end.m.ok /\ end.m.got = end.got /\ end.m.running = Last(end.active)
        /\ \A base \in 0..Alignment, size \in (6 * Alignment)..(7 * Alignment) :
             LET rsp == FirstRsp(base, size)
             IN  /\ base <= rsp /\ rsp + Frame <= base + size
                 /\ (rsp + Frame) % Alignment = Word8

(* What comes back from this call in a replay is all that came back when   *)
(* it was recorded: of stat's structure only the first word is in the log, *)
(* the length that accept returns is not, exit_group never came back, and  *)
(* the replay of io_submit follows a NULL array.                           *)
Restored(c) ==
  /\ c.wrapper.in = "word" => c.ret < 0
  /\ c.wrapper.in = "address" => c.ret < 0 \/ c.size = c.len
  /\ c.wrapper.in # "never"
  /\ ~NullArray(c)

(* A replay gets from each call what recording got, returned value, memory *)
(* and failures alike, uses up the log exactly, fails no assertion and     *)
(* shows the same; of a log cut off anywhere, for as long as the calls are *)
(* in it (linux.c 263-512).  It does so up to the first call that is not   *)
(* Restored, of which it gets the returned value, and from stat the first  *)
(* word, too; but a NULL array of io_submit ends it.  And epoll_ctl's own  *)
(* result is always another.                                               *)
ReplayExact ==
  input.kind = "calls" =>
    \A rec \in {FoldLeft(Record, Begin(<<>>), input.calls)} :
    \A cut \in 0..Len(rec.log) :
    \A rep \in {FoldLeft(Replay, Begin(SubSeq(rec.log, 1, cut)), input.calls)} :
      LET restored(n) == \A m \in 1..n : Restored(input.calls[m])
          inLog == {n \in 1..Len(rec.seen) : rec.ends[n] <= cut}
      IN  /\ \A n \in {n \in inLog : restored(n - 1)} :
               LET c   == input.calls[n]
                   was == rec.seen[n]
               IN  IF NullArray(c) THEN ~rep.running
                   ELSE LET is == rep.seen[n]
                        IN  /\ is.ret = IF MadeAgain(c) THEN BadDescriptor ELSE was.ret
                            /\ c.wrapper.in = "word" /\ c.pointer =>
                                 Head(is.buffer) = Head(was.buffer)
                            /\ Restored(c) => is = [was EXCEPT !.ret = is.ret]
          /\ cut = Len(rec.log) /\ restored(Len(input.calls)) =>
               rep.running /\ rep.log = <<>> /\ rep.shown = rec.shown
=============================================================================
