------------------------------- MODULE Sha256 -------------------------------
(***************************************************************************)
(* How lb_sha256_calc (sha256.c) cuts a message into blocks and ends it.   *)
(* The state of the hash is the words that lb_sha256_core worked on: what  *)
(* it makes of them is left out.  A block has Block bytes of ByteBits bits *)
(* in words of WordBytes, and the length at the end of the message is two  *)
(* words, where the code has 64, 8 and 4.                                  *)
(*                                                                         *)
(* host is the order of the bytes in a word of the machine, "big" or       *)
(* "little".  The library runs on machines of the second kind; the comment *)
(* at 167-179 speaks of both.                                              *)
(***************************************************************************)
EXTENDS Integers, SequencesExt

CONSTANTS Block, WordBytes, ByteBits

LengthBytes == 2 * WordBytes
LengthLimit == 2 ^ (ByteBits * LengthBytes)

Zeros(n) == [i \in 1..n |-> 0]

(* The byte 0x80.                                                          *)
Marker == 2 ^ (ByteBits - 1)

-----------------------------------------------------------------------------
(* Words in memory.                                                        *)

OtherOrder(order) == IF order = "big" THEN "little" ELSE "big"

(* From big-endian bytes to those of an order, and back.                   *)
InOrder(bytes, order) == IF order = "big" THEN bytes ELSE Reverse(bytes)

(* The word that is in these bytes, and the bytes that a word is put in.   *)
LoadWord(bytes, order) ==
  FoldLeft(LAMBDA word, b : word * 2 ^ ByteBits + b, 0, InOrder(bytes, order))

StoreWord(word, order) ==
  InOrder([i \in 1..WordBytes |->
             (word \div 2 ^ (ByteBits * (WordBytes - i))) % 2 ^ ByteBits], order)

(* lb_sha256_core takes the host's words, and with swap turns them round.  *)
Core(bytes, swap, host) ==
  [n \in 1..(Len(bytes) \div WordBytes) |->
     LoadWord(SubSeq(bytes, (n - 1) * WordBytes + 1, n * WordBytes),
          IF swap THEN OtherOrder(host) ELSE host)]

-----------------------------------------------------------------------------
(* The end of a message.                                                   *)

(* total_saved <<= 3, in a word of twice WordBytes.                        *)
BitsOf(total) == (total * 8) % LengthLimit

(* fini = 1: the length in bytes, the highest first.                       *)
LengthInBytes(total) ==
  [i \in 1..LengthBytes |->
     (BitsOf(total) \div 2 ^ (ByteBits * (LengthBytes - i))) % 2 ^ ByteBits]

(* Mutant: the low word first, as the host would store all of it.          *)
BugLengthInWords(total, host) ==
  LET word == 2 ^ (ByteBits * WordBytes)
  IN  StoreWord(BitsOf(total) % word, host) \o StoreWord(BitsOf(total) \div word, host)

(* fini = 2: the length in two of the host's words, the higher first.      *)
LengthInWords(total, host) ==
  LET word == 2 ^ (ByteBits * WordBytes)
  IN  StoreWord(BitsOf(total) \div word, host) \o StoreWord(BitsOf(total) % word, host)

RoundedUp(len) == ((len + Block - 1) \div Block) * Block

(* Mutant: the byte that ends the message is not counted.                  *)
BugPaddedLen(len, fini) == RoundedUp(len + LengthBytes) - LengthBytes

(* Where the length goes, after len bytes of the last blocks.              *)
PaddedLen(len, fini) ==
  RoundedUp((IF fini = 1 THEN len + 1 ELSE len) + LengthBytes) - LengthBytes

(* The last blocks: what is left of the message, 0x80 if fini is 1, zeros  *)
(* and the length of the whole message.                                    *)
LastBlocks(rest, total, fini, host) ==
  LET ended  == IF fini = 1 THEN Append(rest, Marker) ELSE rest
      length == IF fini = 1 THEN LengthInBytes(total) ELSE LengthInWords(total, host)
  IN  ended \o Zeros(PaddedLen(Len(rest), fini) - Len(ended)) \o length

(* lb_sha256_calc: state is [words: those that the core worked on, total], *)
(* ok whether its assertion held.                                          *)
Calc(state, bytes, swap, fini, host) ==
  LET whole == (Len(bytes) \div Block) * Block
      rest  == SubSeq(bytes, whole + 1, Len(bytes))
      total == state.total + Len(bytes)
      last  == IF fini = 0 THEN <<>> ELSE LastBlocks(rest, total, fini, host)
  IN  [words |-> state.words \o Core(SubSeq(bytes, 1, whole) \o last, swap, host),
       total |-> total,
       ok    |-> state.ok /\ (fini = 0 => rest = <<>>)]
=============================================================================
