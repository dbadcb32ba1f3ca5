----------------------------- MODULE ThreadPages ----------------------------
(***************************************************************************)
(* Where threads keep their stacks (switch.c).  All threads run on one     *)
(* stack, the program's; a thread that does not run has its part of it     *)
(* copied to a list of pages.  Pages come from the allocator and stay with *)
(* the switch: page_list has the free ones.  Thread structures and blocks  *)
(* of other code come from the same allocator and go back to it.           *)
(*                                                                         *)
(* The copy of the stack into pages and back is one step each: nothing     *)
(* else runs meanwhile.  Threads are known by their address.  Which of the *)
(* runnable threads comes next is left open here; see Switch.              *)
(***************************************************************************)
EXTENDS Alloc, FiniteSets, SequencesExt

CONSTANTS PageSize,    \* LB_THREAD_PAGE_SIZE
          ThreadSize,  \* sizeof(lb_thread_t)
          FirstLen,    \* words on the stack that lb_context_initialize makes
          BlockSizes,  \* sizes that other code asks for
          Lengths,     \* bound of the model: words a stack may have
          MaxThreads,  \* and on thread structures
          MaxBlocks,   \* and on blocks of other code
          Nobody       \* no thread: the event loop, or main before it

VARIABLES
  mem,        \* the allocator
  blocks,     \* what other code has: a block or Nobody in each of its places
  threads,    \* the thread structures, by address
  page_list,  \* sw->page_list
  data,       \* tp->data of each page, in words
  current,    \* sw->current
  stack,      \* the words between rsp and stack_base, lowest address first
  left_with   \* the stack that each live thread left, or was created with

vars == <<mem, blocks, threads, page_list, data, current, stack, left_with>>

(* page_capacity, in words: a page starts with its link.                   *)
Capacity == (PageSize - Pointer) \div Pointer

ASSUME PagesAssumption ==
  /\ Capacity \in Nat \ {0}
  /\ FirstLen \in 1..Capacity
  /\ Lengths \subseteq Nat \ {0}
  /\ \A size \in BlockSizes \cup {PageSize, ThreadSize} : Allocable(size)
  /\ Nobody \notin Int /\ Nobody \notin [at : Nat, size : BlockSizes]
  /\ MaxBlocks \in Nat

(* A word says whose it is and how far from the base; the rest of a page,  *)
(* and a page that is free, hold nothing that means anything.              *)
Word == Nat \X Nat
Junk == <<>>
StackOf(a, len) == [i \in 1..len |-> <<a, len - i>>]

Thread == [runnable : BOOLEAN, len : Lengths \cup {FirstLen}, pages : Seq(Nat)]

TypeOK ==
  /\ mem \in Memory
  /\ blocks \in [1..MaxBlocks -> [at : Nat, size : BlockSizes] \cup {Nobody}]
  /\ \A a \in DOMAIN threads : a \in Nat /\ threads[a] \in Thread
  /\ page_list \in Seq(Nat)
  /\ \A p \in DOMAIN data : p \in Nat /\ data[p] \in [1..Capacity -> Word \cup {Junk}]
  /\ current \in DOMAIN threads \cup {Nobody}
  /\ stack \in Seq(Word)
  /\ DOMAIN left_with \subseteq DOMAIN threads
  /\ \A a \in DOMAIN left_with : left_with[a] \in Seq(Word)

Init ==
  /\ mem = NoMemory
  /\ blocks = [i \in 1..MaxBlocks |-> Nobody]
  /\ threads = <<>> /\ page_list = <<>> /\ data = <<>> /\ left_with = <<>>
  /\ current = Nobody /\ stack = <<>>

Put(f, x, v) == [y \in {x} \cup DOMAIN f |-> IF y = x THEN v ELSE f[y]]

-----------------------------------------------------------------------------
(* Pages.                                                                  *)

(* lbi_switch_page_obtain *)
Obtain(m, list) ==
  IF list # <<>> THEN [page |-> Head(list), page_list |-> Tail(list), mem |-> m]
  ELSE [page |-> Place(m, PageSize), page_list |-> list, mem |-> Alloc(m, PageSize)]

(* LBI_SWITCH_PAGE_CONSUME down a list.                                    *)
Return(pages, list) == Reverse(pages) \o list
Scrubbed(d, pages) ==
  [p \in DOMAIN d |-> IF p \in Range(pages) THEN [i \in 1..Capacity |-> Junk]
                      ELSE d[p]]

(* What a page has after a copy of words to its end.                       *)
Filled(words) ==
  [i \in 1..Capacity |->
     IF i > Capacity - Len(words) THEN words[i - (Capacity - Len(words))] ELSE Junk]

(* The sizes of the copies of a stack, from its base on.                   *)
PagesFor(len) == (len + Capacity - 1) \div Capacity
Amounts(len) ==
  [i \in 1..PagesFor(len) |-> IF i <= len \div Capacity THEN Capacity ELSE len % Capacity]

(* Mutant: full pages go first on the way out, too.                        *)
BugOutAmounts(len) == Amounts(len)
OutAmounts(len) == Reverse(Amounts(len))

(* The copy out: from the lowest address on, the rest first; each page     *)
(* obtained goes to the front of the thread's list.                        *)
CopyPage(s, words, amt) ==
  LET got == Obtain(s.mem, s.page_list)
  IN  [mem |-> got.mem, page_list |-> got.page_list,
       pages |-> <<got.page>> \o s.pages,
       data |-> Put(s.data, got.page, Filled(SubSeq(words, s.rsp + 1, s.rsp + amt))),
       rsp |-> s.rsp + amt]

CopyOut(words) ==
  LET amts == OutAmounts(Len(words))
      after[n \in 0..Len(amts)] ==
        IF n = 0
        THEN [mem |-> mem, page_list |-> page_list, pages |-> <<>>, data |-> data, rsp |-> 0]
        ELSE CopyPage(after[n - 1], words, amts[n])
  IN  after[Len(amts)]

(* The copy in: page after page, each in front of the ones before.         *)
CopyIn(t) ==
  LET copies == Amounts(t.len)
      after[n \in 0..Len(copies)] ==
        IF n = 0 THEN <<>>
        ELSE SubSeq(data[t.pages[n]], Capacity - copies[n] + 1, Capacity) \o after[n - 1]
  IN  after[Len(copies)]

-----------------------------------------------------------------------------
(* Other code and its blocks.                                              *)

LbAlloc(i, size) ==
  /\ blocks[i] = Nobody
  /\ \A j \in 1..(i - 1) : blocks[j] # Nobody
  /\ blocks' = [blocks EXCEPT ![i] = [at |-> Place(mem, size), size |-> size]]
  /\ mem' = Alloc(mem, size)
  /\ UNCHANGED <<threads, page_list, data, current, stack, left_with>>

LbAllocFree(i) ==
  /\ blocks[i] # Nobody
  /\ mem' = Free(mem, blocks[i].at, blocks[i].size)
  /\ blocks' = [blocks EXCEPT ![i] = Nobody]
  /\ UNCHANGED <<threads, page_list, data, current, stack, left_with>>

-----------------------------------------------------------------------------
(* Threads.                                                                *)

(* lb_switch_create_thread: the structure, then one page with the stack    *)
(* that lb_context_initialize lays at its end.                             *)
CreateThread ==
  /\ Cardinality(DOMAIN threads) < MaxThreads
  /\ LET a == Place(mem, ThreadSize)
         s == Obtain(Alloc(mem, ThreadSize), page_list)
         first == StackOf(a, FirstLen)
     IN  /\ mem' = s.mem
         /\ page_list' = s.page_list
         /\ data' = Put(data, s.page, Filled(first))
         /\ threads' = Put(threads, a, [runnable |-> TRUE, len |-> FirstLen,
                                        pages |-> <<s.page>>])
         /\ left_with' = Put(left_with, a, first)
  /\ UNCHANGED <<blocks, current, stack>>

(* A thread that sleeps or waits becomes runnable.                         *)
Wake(a) ==
  /\ a # current /\ ~threads[a].runnable
  /\ threads' = [threads EXCEPT ![a].runnable = TRUE]
  /\ UNCHANGED <<mem, blocks, page_list, data, current, stack, left_with>>

(* The event loop enters a thread: the copy in gives its pages back.  The  *)
(* thread's list is not cleared and points to pages of others from now on. *)
Enter(a) ==
  /\ current = Nobody
  /\ threads[a].runnable /\ threads[a].pages # <<>>
  /\ current' = a
  /\ stack' = CopyIn(threads[a])
  /\ threads' = [threads EXCEPT ![a].runnable = FALSE]
  /\ page_list' = Return(threads[a].pages, page_list)
  /\ data' = Scrubbed(data, threads[a].pages)
  /\ UNCHANGED <<mem, blocks, left_with>>

(* The event loop meets a zombie.                                          *)
FreeZombie(a) ==
  /\ current = Nobody
  /\ threads[a].runnable /\ threads[a].pages = <<>>
  /\ mem' = Free(mem, a, ThreadSize)
  /\ threads' = Restrict(threads, DOMAIN threads \ {a})
  /\ UNCHANGED <<blocks, page_list, data, current, stack, left_with>>

(* The current thread gives way, with a stack of any length.               *)
Leave(len) ==
  /\ current # Nobody
  /\ LET words == StackOf(current, len)
         s == CopyOut(words)
     IN  /\ mem' = s.mem /\ page_list' = s.page_list /\ data' = s.data
         /\ threads' = [threads EXCEPT ![current].len = len,
                                       ![current].pages = s.pages]
         /\ left_with' = [left_with EXCEPT ![current] = words]
  /\ current' = Nobody /\ stack' = <<>>
  /\ UNCHANGED blocks

(* It gives way after it was destructed: its stack is copied out all the   *)
(* same, and lbi_switch_destruct_thread follows.                           *)
LeaveDestructed(len) ==
  /\ current # Nobody
  /\ LET s == CopyOut(StackOf(current, len))
     IN  /\ mem' = Free(s.mem, current, ThreadSize)
         /\ page_list' = Return(s.pages, s.page_list)
         /\ data' = Scrubbed(s.data, s.pages)
  /\ threads' = Restrict(threads, DOMAIN threads \ {current})
  /\ left_with' = Restrict(left_with, DOMAIN left_with \ {current})
  /\ current' = Nobody /\ stack' = <<>>
  /\ UNCHANGED blocks

(* Mutant: the structure of a runnable thread is freed at once.            *)
BugDropThread(a) ==
  /\ threads' = [threads EXCEPT ![a].pages = <<>>]
  /\ mem' = Free(mem, a, ThreadSize)

(* "if the thread is in runnable, we can't axe it right away".             *)
DropThread(a) ==
  IF threads[a].runnable
  THEN threads' = [threads EXCEPT ![a].pages = <<>>] /\ UNCHANGED mem
  ELSE /\ threads' = Restrict(threads, DOMAIN threads \ {a})
       /\ mem' = Free(mem, a, ThreadSize)

(* The current thread destructs another: lbi_switch_destruct_thread.       *)
Destruct(a) ==
  /\ current \notin {Nobody, a} /\ a \in DOMAIN left_with
  /\ page_list' = Return(threads[a].pages, page_list)
  /\ data' = Scrubbed(data, threads[a].pages)
  /\ DropThread(a)
  /\ left_with' = Restrict(left_with, DOMAIN left_with \ {a})
  /\ UNCHANGED <<blocks, current, stack>>

Next ==
  \/ \E i \in 1..MaxBlocks, size \in BlockSizes : LbAlloc(i, size)
  \/ \E i \in 1..MaxBlocks : LbAllocFree(i)
  \/ CreateThread
  \/ \E a \in DOMAIN threads : Wake(a) \/ Enter(a) \/ FreeZombie(a) \/ Destruct(a)
  \/ \E len \in Lengths : Leave(len) \/ LeaveDestructed(len)

Spec == Init /\ [][Next]_vars

-----------------------------------------------------------------------------

(* The pages in which the stack of a thread is.                            *)
Saved(a) == IF a = current THEN <<>> ELSE threads[a].pages

Within(x, at, size) == at <= x /\ x < at + size

(* What the heap is cut into: blocks in use, thread structures, pages with *)
(* stacks, free pages of the switch, and free blocks.                      *)
Piece(owner, at, size) == [of |-> owner, at |-> at, size |-> size]
BlockPieces ==
  {Piece(<<"block", i>>, blocks[i].at, Rounded(blocks[i].size)) :
     i \in {k \in 1..MaxBlocks : blocks[k] # Nobody}}
ThreadPieces == {Piece(<<"thread", a>>, a, Rounded(ThreadSize)) : a \in DOMAIN threads}
SavedPieces ==
  UNION {{Piece(<<"saved", a, i>>, Saved(a)[i], Rounded(PageSize)) :
            i \in DOMAIN Saved(a)} : a \in DOMAIN threads}
ListPieces ==
  {Piece(<<"page", i>>, page_list[i], Rounded(PageSize)) : i \in DOMAIN page_list}
FreePieces ==
  UNION {{Piece(<<"free", b, i>>, mem.head[b][i], BinSize(b)) :
            i \in DOMAIN mem.head[b]} : b \in DOMAIN mem.head}
Pieces == BlockPieces \cup ThreadPieces \cup SavedPieces \cup ListPieces \cup FreePieces

(* Each byte of the heap is in one block, thread structure, page or free   *)
(* block and in no second one: nothing is handed out twice, nothing is     *)
(* lost, through every order of allocations, copies and destructs; and the *)
(* break is where the allocator thinks (alloc.c 32-51, 112-148; switch.c   *)
(* 158-173, 238-290).                                                      *)
HeapPartitioned ==
  /\ LET pieces == Pieces
     IN  /\ \A x \in 0..(mem.cbrk - 1) :
              \E p \in pieces : {q \in pieces : Within(x, q.at, q.size)} = {p}
         /\ \A p \in pieces : p.at + p.size <= mem.cbrk
  /\ mem.cbrk + mem.left = mem.rbrk

(* A thread finds the stack it left, to the word, whatever became of its   *)
(* pages and of the stack meanwhile; and when it is copied in,             *)
(* "LB_ASSURE((tp == NULL))": the length was the right one for the pages   *)
(* (switch.c 349-437).                                                     *)
StackRestored ==
  /\ current # Nobody => stack = left_with[current]
  /\ \A a \in DOMAIN left_with \ {current} :
       Len(threads[a].pages) = PagesFor(threads[a].len)
=============================================================================
