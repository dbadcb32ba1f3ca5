-------------------------------- MODULE Chat --------------------------------
(***************************************************************************)
(* The chat server of test.c, m6 (main_006): what one client sends goes to *)
(* every client.  A connection has two threads that share its socket, one  *)
(* that receives and one that sends; each destructs the other from its     *)
(* cleanup handler, so every end of a connection is a nested destruct.     *)
(* Both also have a watchdog.                                              *)
(*                                                                         *)
(* A thread stands for its record cs.  Threads are as in Switch, with the  *)
(* runnable list in its order; a step is what runs between two calls that  *)
(* can switch, and a destruct is one step.                                 *)
(***************************************************************************)
EXTENDS Naturals, SequencesExt, Filters

CONSTANTS Conns,       \* connections that clients make, each once
          Starter,     \* the thread that accepts, and creates the pairs
          NoThread,    \* sw->current is NULL
          MaxChain     \* bound of the model on the length of gs->chain

Recv(c) == <<c, "recv">>
Send(c) == <<c, "send">>
Peer(t) == <<t[1], IF t[2] = "recv" THEN "send" ELSE "recv">>
Pair(c) == {Recv(c), Send(c)}
Threads == Conns \X {"recv", "send"}

ASSUME NamesAssumption == {Starter, NoThread} \cap Threads = {} /\ Starter # NoThread

VARIABLES
  status,    \* where the switch has each thread
  runnable,  \* sw->runnable_list, its top first
  current,   \* sw->current
  backlog,   \* connections made and not accepted
  hungup,    \* connections that the client closed
  started,   \* threads that ran: handlers pushed
  linked,    \* threads with cs->peer # NULL
  freed,     \* threads whose cs was freed and descriptor closed
  senders,   \* gs->senders
  chain,     \* length of gs->chain
  sent,      \* how much of it each sender has been through
  watched    \* threads whose watchdog is armed

vars == <<status, runnable, current, backlog, hungup, started, linked, freed,
          senders, chain, sent, watched>>

Init ==
  /\ status = [t \in Threads \cup {Starter} |->
                 IF t = Starter THEN "ready" ELSE "none"]
  /\ runnable = <<Starter>> /\ current = NoThread
  /\ backlog = {} /\ hungup = {}
  /\ started = {} /\ linked = {} /\ freed = {} /\ watched = {}
  /\ senders = <<>>
  /\ chain = 0 /\ sent = [c \in Conns |-> 0]

serverVars == <<started, linked, freed, senders, chain, sent, watched>>
clientVars == <<backlog, hungup>>
switchVars == <<status, runnable, current>>

-----------------------------------------------------------------------------
(* Clients.                                                                *)

Connect(c) ==
  /\ status[Recv(c)] = "none" /\ c \notin backlog
  /\ backlog' = backlog \cup {c}
  /\ UNCHANGED <<hungup, switchVars, serverVars>>

Hangup(c) ==
  /\ c \notin hungup /\ status[Recv(c)] # "none"
  /\ hungup' = hungup \cup {c}
  /\ UNCHANGED <<backlog, switchVars, serverVars>>

-----------------------------------------------------------------------------
(* The event loop.                                                         *)

(* The top of the runnable list runs, or is freed if it was destructed.    *)
Dispatch ==
  /\ current = NoThread /\ runnable # <<>>
  /\ runnable' = Tail(runnable)
  /\ LET t == Head(runnable)
     IN  IF status[t] = "zombie"
         THEN status' = [status EXCEPT ![t] = "gone"] /\ UNCHANGED current
         ELSE status' = [status EXCEPT ![t] = "running"] /\ current' = t
  /\ UNCHANGED <<clientVars, serverVars>>

(* epoll reports a descriptor: a thread that waits for it is runnable.     *)
Report(t) ==
  /\ current = NoThread
  /\ status[t] = "epoll"
  /\ status' = [status EXCEPT ![t] = "ready"]
  /\ runnable' = <<t>> \o runnable
  /\ UNCHANGED <<current, clientVars, serverVars>>

(* The current thread gives way.                                           *)
Suspend(how) ==
  /\ status' = [status EXCEPT ![current] = how]
  /\ current' = NoThread
  /\ UNCHANGED runnable

-----------------------------------------------------------------------------
(* The threads.                                                            *)

(* lb_io_accept returned a connection: two threads.                        *)
Accept(c) ==
  /\ current = Starter /\ c \in backlog
  /\ backlog' = backlog \ {c}
  /\ status' = [t \in DOMAIN status |-> IF t \in Pair(c) THEN "ready" ELSE status[t]]
  /\ runnable' = <<Send(c), Recv(c)>> \o runnable
  /\ linked' = linked \cup Pair(c)
  /\ UNCHANGED <<current, hungup, started, freed, senders, chain, sent, watched>>

AcceptWaits ==
  /\ current = Starter /\ backlog = {}
  /\ Suspend("epoll")
  /\ UNCHANGED <<clientVars, serverVars>>

(* The first turn of a thread, up to its loop.  Its watchdog has an        *)
(* interval now, and so is armed.                                          *)
Start ==
  /\ current \in Threads \ started
  /\ started' = started \cup {current}
  /\ senders' = IF current[2] = "send" THEN <<current>> \o senders ELSE senders
  /\ watched' = watched \cup {current}
  /\ UNCHANGED <<switchVars, clientVars, linked, freed, chain, sent>>

Runs(t) == current = t /\ t \in started

(* m6_handler_recv: append what was read and disturb every sender.         *)
Receive(c) ==
  /\ Runs(Recv(c)) /\ c \notin hungup
  /\ chain < MaxChain
  /\ chain' = chain + 1
  /\ LET woken == Kept(senders, {t \in Threads : status[t] = "slumber"})
     IN  /\ runnable' = Reverse(woken) \o runnable
         /\ status' = [t \in DOMAIN status |->
                         IF t \in Range(woken) THEN "ready" ELSE status[t]]
  /\ UNCHANGED <<current, clientVars, started, linked, freed, senders, sent, watched>>

(* lb_io_read or lb_io_write would block.  The watchdog has just been      *)
(* tickled.                                                                *)
MayBlock(t) == t[2] = "recv" \/ sent[t[1]] < chain

Blocks(t) ==
  /\ Runs(t) /\ MayBlock(t)
  /\ Suspend("epoll")
  /\ watched' = watched \cup {t}
  /\ UNCHANGED <<clientVars, started, linked, freed, senders, chain, sent>>

(* m6_handler_send: a link of the chain is written.  This disables the     *)
(* watchdog then.                                                          *)
Write(c) ==
  /\ Runs(Send(c)) /\ sent[c] < chain /\ c \notin hungup
  /\ sent' = [sent EXCEPT ![c] = @ + 1]
  /\ watched' = watched \ {Send(c)}
  /\ UNCHANGED <<switchVars, clientVars, started, linked, freed, senders, chain>>

(* Mutant: the end of the chain is looked for before the last write.       *)
BugThrough(c) == sent[c] + 1 >= chain
Through(c) == sent[c] = chain

Sleep(c) ==
  /\ Runs(Send(c)) /\ Through(c)
  /\ Suspend("slumber")
  /\ UNCHANGED <<clientVars, serverVars>>

-----------------------------------------------------------------------------
(* The end of a connection.                                                *)

(* What a destruct of t takes along: its handlers destruct the peer, if    *)
(* they were pushed.                                                       *)
BugTakenAlong(t) == {t}
TakenAlong(t) == IF t \in started \cap linked THEN {t, Peer(t)} ELSE {t}

(* Mutant: the peer keeps its pointer to the cs that is freed.             *)
BugUnlinked(t) == {t}
Unlinked(t) == IF t \in started \cap linked THEN {t, Peer(t)} ELSE {}

(* Mutant: m6_handler_send_cleanup is m6_handler_recv_cleanup.             *)
BugLeave(gone) == senders
Leave(gone) == Kept(senders, Threads \ gone)

(* The handlers that run: only those of threads that ran before.           *)
Teardown(t) ==
  LET gone == TakenAlong(t)
      handled == gone \cap started
  IN  /\ freed' = freed \cup handled
      /\ linked' = linked \ Unlinked(t)
      /\ senders' = Leave(handled)
      /\ watched' = watched \ gone
      /\ status' = [u \in DOMAIN status |->
                      IF u \notin gone THEN status[u]
                      ELSE IF u \in Range(runnable) THEN "zombie" ELSE "gone"]
      /\ current' = NoThread
      /\ UNCHANGED <<runnable, clientVars, started, chain, sent>>

(* A read or write fails, or returns 0: lb_io_read destructs the thread.   *)
Fails(t) ==
  /\ Runs(t) /\ t[1] \in hungup /\ MayBlock(t)
  /\ Teardown(t)

(* The watchdog's thread destructs it.                                     *)
TimesOut(t) ==
  /\ current = NoThread
  /\ t \in watched
  /\ Teardown(t)

Next ==
  \/ Dispatch \/ AcceptWaits \/ Start
  \/ \E t \in Threads \cup {Starter} : Report(t)
  \/ \E c \in Conns :
       Connect(c) \/ Hangup(c) \/ Accept(c) \/ Receive(c) \/ Write(c) \/ Sleep(c)
  \/ \E t \in Threads : Blocks(t) \/ Fails(t) \/ TimesOut(t)

Spec == Init /\ [][Next]_vars

-----------------------------------------------------------------------------

Live == {t \in Threads : status[t] \notin {"none", "zombie", "gone"}}

(* A connection is served by both threads or by none, and a peer pointer   *)
(* leads to a cs that was not freed, whichever of the two fails, hangs up  *)
(* or times out first, and whether the other ran yet or is on the runnable *)
(* list (test.c 466-490).                                         *)
PairsTogether ==
  \A c \in Conns :
    /\ Recv(c) \in Live <=> Send(c) \in Live
    /\ Pair(c) \subseteq linked \/ Pair(c) \cap linked = {}
    /\ Pair(c) \cap linked # {} => Pair(c) \cap freed = {}

(* gs->senders, which every receiver walks to disturb, holds each live     *)
(* sender that ran once and nothing freed (test.c 478-487, 530-539).       *)
SendersExact ==
  /\ IsInjective(senders)
  /\ Range(senders) = {t \in Live \cap started : t[2] = "send"}

(* A sender that sleeps has sent all of the chain: no disturb comes too    *)
(* early (test.c 530-539, 563-583).                                        *)
NoLostBroadcast ==
  \A c \in Conns : status[Send(c)] = "slumber" => sent[c] = chain
=============================================================================
