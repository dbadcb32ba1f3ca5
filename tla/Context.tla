------------------------------- MODULE Context ------------------------------
(***************************************************************************)
(* context.c: contexts that enter each other and yield.  The stack 0 is    *)
(* the program's own, and each of 1..Contexts the one of a context.        *)
(*                                                                         *)
(* A switch pushes the registers on the stack that it leaves and hands its *)
(* rsp over, together with a value, by the address of the two.  An rsp is  *)
(* a stack and the number of times that the stack was left: it leads back  *)
(* to where the stack was left last, or else into frames that are gone.    *)
(***************************************************************************)
EXTENDS Integers, SequencesExt

CONSTANT Contexts

Word8 == 8       \* sizeof(uintptr_t)
Alignment == 16
Frame == 7 * Word8  \* six registers and the address to return to

(* lb_context_initialize: the rsp to begin with, on memory that begins at  *)
(* base and has that size.                                                 *)
FirstRsp(base, size) ==
  LET endp == ((base + size) \div Alignment) * Alignment - 4 * Word8
  IN  endp - Frame + Word8

(* Entries that were made from a stack and not come back, the latest last; *)
(* rsp: what cx->rsp is; peer: cs->rsp_peer; left: how often a stack was   *)
(* left; got: by whom and which values were received; ok: no rsp led into  *)
(* frames that are gone.                                                   *)
Start ==
  [running |-> 0, entries |-> [s \in 0..Contexts |-> <<>>],
   rsp |-> [c \in 1..Contexts |-> <<c, 0>>], peer |-> [c \in 1..Contexts |-> <<0, 0>>],
   left |-> [s \in 0..Contexts |-> 0], got |-> <<>>, ok |-> TRUE]

(* lbi_context_switch to an rsp.                                           *)
SwitchTo(s, rsp) ==
  [s EXCEPT !.running = rsp[1], !.left[s.running] = @ + 1,
            !.ok = @ /\ s.left[rsp[1]] = rsp[2]]

(* The rsp of the running stack once it is left.                           *)
OwnRsp(s) == <<s.running, s.left[s.running] + 1>>

(* Mutant: a context that comes back from a yield goes on to yield to      *)
(* whoever entered it first.                                               *)
BugPeer(s, c, rsp) == IF s.left[c] = 0 THEN rsp ELSE s.peer[c]

(* The context takes rsp_peer from whoever entered it: by the copy of *lb  *)
(* on its first turn, after its yield on the others.                       *)
Peer(s, c, rsp) == rsp

(* lb_context_enter, to the point where the context has what it is given.  *)
EnterContext(s, c, value) ==
  LET after == SwitchTo([s EXCEPT !.entries[s.running] = Append(@, c)], s.rsp[c])
  IN  [after EXCEPT !.peer[c] = Peer(s, c, OwnRsp(s)), !.got = Append(@, <<c, value>>)]

(* lb_context_yield, and the rest of the lb_context_enter that it goes to, *)
(* which knows its cx itself.                                              *)
YieldContext(s, value) ==
  LET to    == s.peer[s.running][1]
      after == SwitchTo(s, s.peer[s.running])
      calls == s.entries[to]
  IN  IF calls = <<>> THEN [after EXCEPT !.ok = FALSE]
      ELSE [after EXCEPT !.rsp[Last(calls)] = OwnRsp(s), !.entries[to] = Front(calls),
                         !.got = Append(@, <<to, value>>)]
=============================================================================
