----------------------------- MODULE ChatProofs -----------------------------
(***************************************************************************)
(* Proofs about Chat for any number of connections.                        *)
(***************************************************************************)
EXTENDS Chat, SequenceLemmas

Everyone == Threads \cup {Starter}
Status == {"none", "ready", "running", "epoll", "slumber", "zombie", "gone"}

TypeOK ==
  /\ status \in [Everyone -> Status]
  /\ runnable \in Seq(Everyone)
  /\ current \in Everyone \cup {NoThread}
  /\ backlog \in SUBSET Conns /\ hungup \in SUBSET Conns
  /\ started \in SUBSET Threads /\ linked \in SUBSET Threads
  /\ freed \in SUBSET Threads /\ watched \in SUBSET Threads
  /\ senders \in Seq(Threads)
  /\ chain \in Nat /\ sent \in [Conns -> Nat]

(* The runnable list and sw->current agree with where each thread is.      *)
SwitchExact ==
  /\ IsInjective(runnable)
  /\ Range(runnable) = {t \in Everyone : status[t] \in {"ready", "zombie"}}
  /\ \A t \in Everyone : status[t] = "running" <=> current = t

(* The two threads of a connection begin together, and once.               *)
BegunOnce ==
  /\ \A c \in Conns : status[Recv(c)] = "none" <=> status[Send(c)] = "none"
  /\ \A c \in backlog : status[Recv(c)] = "none"
  /\ \A t \in started \cup freed : status[t] # "none"

(* Peer pointers lead between live threads only; watchdogs watch threads   *)
(* that ran, and senders that ran are the only ones that slumber.          *)
LiveExact ==
  /\ linked = Live
  /\ freed \cap Live = {}
  /\ watched \subseteq Live \cap started
  /\ \A t \in Threads : status[t] = "slumber" => t \in started /\ t[2] = "send"

IInv ==
  /\ TypeOK /\ SwitchExact /\ BegunOnce /\ LiveExact
  /\ PairsTogether /\ SendersExact /\ NoLostBroadcast

-----------------------------------------------------------------------------
(* Names of threads.                                                       *)

LEMMA Names ==
  /\ \A c \in Conns :
       /\ Recv(c) \in Threads /\ Send(c) \in Threads
       /\ Recv(c) # Send(c)
       /\ Peer(Recv(c)) = Send(c) /\ Peer(Send(c)) = Recv(c)
       /\ Recv(c)[2] = "recv" /\ Send(c)[2] = "send"
       /\ Recv(c)[1] = c /\ Send(c)[1] = c
  /\ \A c \in Conns, d \in Conns :
       /\ Recv(c) # Send(d)
       /\ Recv(c) = Recv(d) => c = d
       /\ Send(c) = Send(d) => c = d
  /\ \A t \in Threads : \E c \in Conns : t = Recv(c) \/ t = Send(c)
  /\ \A t \in Threads : t # Starter /\ t # NoThread /\ t \in Everyone
  /\ Starter # NoThread /\ Starter \in Everyone /\ Starter \notin Threads
BY NamesAssumption DEF Recv, Send, Peer, Threads, Everyone

Alive == {"ready", "running", "epoll", "slumber"}

LEMMA LiveStatus ==
  ASSUME TypeOK
  PROVE  Live = {t \in Threads : status[t] \in Alive}
BY DEF TypeOK, Live, Alive, Status, Everyone

(* A step by which nobody begins or ends.                                  *)
LEMMA LiveSame ==
  ASSUME IInv,
         UNCHANGED <<started, linked, freed, senders>>,
         Live' = Live,
         \A t \in Threads : status'[t] = "none" <=> status[t] = "none",
         \A c \in backlog' : c \in Conns /\ status[Recv(c)] = "none",
         watched' \subseteq Live \cap started,
         \A t \in Threads : status'[t] = "slumber" => t \in started /\ t[2] = "send"
  PROVE  BegunOnce' /\ LiveExact' /\ PairsTogether' /\ SendersExact'
<1>1. BegunOnce'
  <2>1. started \cup freed \subseteq Threads
    BY DEF IInv, TypeOK
  <2>. QED
    BY <2>1, Names DEF IInv, BegunOnce
<1>2. LiveExact'
  BY DEF IInv, LiveExact
<1>3. PairsTogether'
  BY DEF IInv, PairsTogether
<1>4. SendersExact'
  BY DEF IInv, SendersExact
<1>. QED
  BY <1>1, <1>2, <1>3, <1>4

(* One thread goes from one place to another, both of the living.          *)
LEMMA MoveOne ==
  ASSUME IInv, NEW t \in Everyone, NEW w \in Alive, status[t] \in Alive,
         w = "slumber" => t \in started /\ t[2] = "send",
         status' = [status EXCEPT ![t] = w],
         UNCHANGED <<started, linked, freed, senders, backlog>>,
         watched' \subseteq Live \cap started
  PROVE  /\ status' \in [Everyone -> Status]
         /\ BegunOnce' /\ LiveExact' /\ PairsTogether' /\ SendersExact'
<1>1. TypeOK /\ BegunOnce /\ LiveExact
  BY DEF IInv
<1>2. status' \in [Everyone -> Status]
  BY <1>1 DEF TypeOK, Alive, Status
<1>3. \A v \in Threads : status'[v] = IF v = t THEN w ELSE status[v]
  BY <1>1, Names DEF TypeOK
<1>4. Live' = Live
  BY <1>3 DEF Live, Alive
<1>5. \A v \in Threads : status'[v] = "none" <=> status[v] = "none"
  BY <1>3 DEF Alive
<1>6. \A v \in Threads : status'[v] = "slumber" => v \in started /\ v[2] = "send"
  BY <1>1, <1>3 DEF LiveExact
<1>7. \A c \in backlog' : c \in Conns /\ status[Recv(c)] = "none"
  BY <1>1 DEF TypeOK, BegunOnce
<1>. QED
  BY <1>2, <1>4, <1>5, <1>6, <1>7, LiveSame

-----------------------------------------------------------------------------
(* Clients and the event loop.                                             *)

LEMMA ConnectStep ==
  ASSUME IInv, NEW c \in Conns, Connect(c)
  PROVE  IInv'
<1>1. /\ status[Recv(c)] = "none" /\ backlog' = backlog \cup {c}
      /\ UNCHANGED <<hungup, status, runnable, current, started, linked, freed, senders,
                     chain, sent, watched>>
  BY DEF Connect, switchVars, serverVars
<1>2. TypeOK'
  BY <1>1 DEF IInv, TypeOK
<1>3. SwitchExact' /\ NoLostBroadcast'
  BY <1>1 DEF IInv, SwitchExact, NoLostBroadcast
<1>4. BegunOnce' /\ LiveExact' /\ PairsTogether' /\ SendersExact'
  <2>1. Live' = Live
    BY <1>1 DEF Live
  <2>. QED
    BY <1>1, <2>1, LiveSame DEF IInv, TypeOK, BegunOnce, LiveExact
<1>. QED
  BY <1>2, <1>3, <1>4 DEF IInv

LEMMA HangupStep ==
  ASSUME IInv, NEW c \in Conns, Hangup(c)
  PROVE  IInv'
<1>1. /\ hungup' = hungup \cup {c}
      /\ UNCHANGED <<backlog, status, runnable, current, started, linked, freed, senders,
                     chain, sent, watched>>
  BY DEF Hangup, switchVars, serverVars
<1>. QED
  BY <1>1 DEF IInv, TypeOK, SwitchExact, BegunOnce, LiveExact, Live, PairsTogether,
              SendersExact, NoLostBroadcast

LEMMA DispatchStep ==
  ASSUME IInv, Dispatch
  PROVE  IInv'
<1>. DEFINE h == Head(runnable)
<1>1. TypeOK /\ SwitchExact /\ BegunOnce /\ LiveExact /\ NoLostBroadcast
  BY DEF IInv
<1>2. /\ current = NoThread /\ runnable # <<>> /\ runnable' = Tail(runnable)
      /\ UNCHANGED <<backlog, hungup, started, linked, freed, senders, chain, sent,
                     watched>>
  BY DEF Dispatch, clientVars, serverVars
<1>3. /\ h \in Everyone /\ Tail(runnable) \in Seq(Everyone)
      /\ Range(runnable) = {h} \cup Range(Tail(runnable))
      /\ IsInjective(Tail(runnable)) /\ h \notin Range(Tail(runnable))
  BY <1>1, <1>2, PopFront, PopRange DEF TypeOK, SwitchExact
<1>4. status[h] \in {"ready", "zombie"}
  BY <1>1, <1>3 DEF SwitchExact
<1>5. \A v \in Everyone : status[v] # "running"
  BY <1>1, <1>2, Names DEF SwitchExact, Everyone
<1>6. CASE status[h] = "zombie"
  <2>1. status' = [status EXCEPT ![h] = "gone"] /\ current' = current
    BY <1>6 DEF Dispatch
  <2>. HIDE DEF h
  <2>2. \A v \in Everyone : status'[v] = IF v = h THEN "gone" ELSE status[v]
    BY <1>1, <2>1 DEF TypeOK
  <2>3. TypeOK'
    BY <1>1, <1>2, <1>3, <2>1 DEF TypeOK, Status
  <2>4. SwitchExact'
    <3>1. Range(runnable') = {v \in Everyone : status'[v] \in {"ready", "zombie"}}
      BY <1>1, <1>2, <1>3, <2>2 DEF SwitchExact
    <3>. QED
      BY <1>1, <1>2, <1>3, <1>5, <2>1, <2>2, <3>1, Names DEF SwitchExact
  <2>5. Live' = Live
    BY <1>6, <2>2, Names DEF Live
  <2>6. /\ \A v \in Threads : status'[v] = "none" <=> status[v] = "none"
        /\ \A v \in Threads : status'[v] = "slumber" => status[v] = "slumber"
    BY <1>6, <2>2, Names
  <2>7. BegunOnce' /\ LiveExact' /\ PairsTogether' /\ SendersExact'
    <3>1. \A c \in backlog' : c \in Conns /\ status[Recv(c)] = "none"
      BY <1>1, <1>2 DEF TypeOK, BegunOnce
    <3>2. watched' \subseteq Live \cap started
      BY <1>1, <1>2 DEF LiveExact
    <3>3. \A v \in Threads : status'[v] = "slumber" => v \in started /\ v[2] = "send"
      BY <1>1, <2>6 DEF LiveExact
    <3>. QED
      BY <1>2, <2>5, <2>6, <3>1, <3>2, <3>3, LiveSame
  <2>8. NoLostBroadcast'
    BY <1>1, <1>2, <2>6, Names DEF NoLostBroadcast
  <2>. QED
    BY <2>3, <2>4, <2>7, <2>8 DEF IInv
<1>7. CASE status[h] # "zombie"
  <2>1. status' = [status EXCEPT ![h] = "running"] /\ current' = h /\ status[h] = "ready"
    BY <1>4, <1>7 DEF Dispatch
  <2>. HIDE DEF h
  <2>2. \A v \in Everyone : status'[v] = IF v = h THEN "running" ELSE status[v]
    BY <1>1, <2>1 DEF TypeOK
  <2>3. BegunOnce' /\ LiveExact' /\ PairsTogether' /\ SendersExact'
    <3>1. watched' \subseteq Live \cap started
      BY <1>1, <1>2 DEF LiveExact
    <3>. QED
      BY <1>2, <1>3, <2>1, <3>1, MoveOne DEF Alive
  <2>4. TypeOK'
    BY <1>1, <1>2, <1>3, <2>1 DEF TypeOK, Status
  <2>5. SwitchExact'
    <3>1. Range(runnable') = {v \in Everyone : status'[v] \in {"ready", "zombie"}}
      BY <1>1, <1>2, <1>3, <2>2 DEF SwitchExact
    <3>. QED
      BY <1>1, <1>2, <1>3, <1>5, <2>1, <2>2, <3>1 DEF SwitchExact
  <2>6. NoLostBroadcast'
    BY <1>1, <1>2, <2>2, Names DEF NoLostBroadcast
  <2>. QED
    BY <2>3, <2>4, <2>5, <2>6 DEF IInv
<1>. QED
  BY <1>6, <1>7

LEMMA ReportStep ==
  ASSUME IInv, NEW t \in Everyone, Report(t)
  PROVE  IInv'
<1>1. TypeOK /\ SwitchExact /\ LiveExact /\ NoLostBroadcast
  BY DEF IInv
<1>2. /\ status[t] = "epoll" /\ status' = [status EXCEPT ![t] = "ready"]
      /\ runnable' = <<t>> \o runnable
      /\ UNCHANGED <<current, backlog, hungup, started, linked, freed, senders, chain,
                     sent, watched>>
  BY DEF Report, clientVars, serverVars
<1>3. \A v \in Everyone : status'[v] = IF v = t THEN "ready" ELSE status[v]
  BY <1>1, <1>2 DEF TypeOK
<1>4. t \notin Range(runnable)
  BY <1>1, <1>2 DEF SwitchExact
<1>5. /\ runnable' \in Seq(Everyone)
      /\ Range(runnable') = {t} \cup Range(runnable)
      /\ IsInjective(runnable')
  BY <1>1, <1>2, <1>4, PushFront, PushRange DEF TypeOK, SwitchExact
<1>6. SwitchExact'
  <2>1. Range(runnable') = {v \in Everyone : status'[v] \in {"ready", "zombie"}}
    BY <1>1, <1>3, <1>5 DEF SwitchExact
  <2>. QED
    BY <1>1, <1>2, <1>3, <1>5, <2>1 DEF SwitchExact
<1>7. TypeOK'
  BY <1>1, <1>2, <1>5 DEF TypeOK, Status
<1>8. BegunOnce' /\ LiveExact' /\ PairsTogether' /\ SendersExact'
  <2>1. watched' \subseteq Live \cap started
    BY <1>1, <1>2 DEF LiveExact
  <2>. QED
    BY <1>2, <2>1, MoveOne DEF Alive
<1>9. NoLostBroadcast'
  BY <1>1, <1>2, <1>3, Names DEF NoLostBroadcast
<1>. QED
  BY <1>6, <1>7, <1>8, <1>9 DEF IInv

-----------------------------------------------------------------------------
(* The threads.                                                            *)

(* AcceptWaits, Blocks and Sleep.                                          *)
LEMMA SuspendStep ==
  ASSUME IInv, current \in Everyone, NEW how \in {"epoll", "slumber"}, Suspend(how),
         how = "slumber" =>
           \E c \in Conns : Send(c) \in started /\ current = Send(c) /\ sent[c] = chain,
         watched' \in SUBSET Threads, watched' \subseteq Live \cap started,
         UNCHANGED <<clientVars, started, linked, freed, senders, chain, sent>>
  PROVE  IInv'
<1>1. TypeOK /\ SwitchExact /\ LiveExact /\ NoLostBroadcast
  BY DEF IInv
<1>2. PICK t \in Everyone : t = current
  OBVIOUS
<1>3. /\ status[t] = "running" /\ status' = [status EXCEPT ![t] = how]
      /\ current' = NoThread
      /\ UNCHANGED <<runnable, backlog, hungup, started, linked, freed, senders, chain,
                     sent>>
  BY <1>1, <1>2 DEF Suspend, clientVars, SwitchExact
<1>4. \A v \in Everyone : status'[v] = IF v = t THEN how ELSE status[v]
  BY <1>1, <1>3 DEF TypeOK
<1>5. TypeOK'
  BY <1>1, <1>3 DEF TypeOK, Status
<1>6. SwitchExact'
  <2>1. \A v \in Everyone : status'[v] # "running" /\ v # NoThread
    BY <1>1, <1>2, <1>4, Names DEF SwitchExact, Everyone
  <2>2. {v \in Everyone : status'[v] \in {"ready", "zombie"}} =
          {v \in Everyone : status[v] \in {"ready", "zombie"}}
    BY <1>3, <1>4
  <2>. QED
    BY <1>1, <1>3, <2>1, <2>2 DEF SwitchExact
<1>7. BegunOnce' /\ LiveExact' /\ PairsTogether' /\ SendersExact'
  <2>1. how = "slumber" => t \in started /\ t[2] = "send"
    BY <1>2, Names
  <2>. QED
    BY <1>3, <2>1, MoveOne DEF Alive
<1>8. NoLostBroadcast'
  BY <1>1, <1>2, <1>3, <1>4, Names DEF NoLostBroadcast
<1>. QED
  BY <1>5, <1>6, <1>7, <1>8 DEF IInv

LEMMA WaitSteps ==
  ASSUME IInv, \/ AcceptWaits
               \/ \E t \in Threads : Blocks(t)
               \/ \E c \in Conns : Sleep(c)
  PROVE  IInv'
<1>1. watched \in SUBSET Threads /\ watched \subseteq Live \cap started
  BY DEF IInv, TypeOK, LiveExact
<1>2. CASE AcceptWaits
  BY <1>1, <1>2, SuspendStep, Names DEF AcceptWaits, clientVars, serverVars
<1>3. ASSUME NEW t \in Threads, Blocks(t) PROVE IInv'
  <2>1. current = t /\ t \in started /\ status[t] = "running" /\ t \in Everyone
    BY <1>3, Names DEF Blocks, Runs, IInv, SwitchExact
  <2>2. t \in Live
    BY <2>1 DEF Live
  <2>. QED
    BY <1>1, <1>3, <2>1, <2>2, SuspendStep DEF Blocks, clientVars
<1>4. ASSUME NEW c \in Conns, Sleep(c) PROVE IInv'
  <2>1. Send(c) \in started /\ current = Send(c) /\ sent[c] = chain
    BY <1>4 DEF Sleep, Runs, Through
  <2>2. current \in Everyone
    BY <2>1, Names
  <2>. QED
    BY <1>1, <1>4, <2>1, <2>2, SuspendStep DEF Sleep, clientVars, serverVars
<1>. QED
  BY <1>2, <1>3, <1>4

LEMMA AcceptStep ==
  ASSUME IInv, NEW c \in Conns, Accept(c)
  PROVE  IInv'
<1>. DEFINE r == Recv(c)
            s == Send(c)
<1>1. /\ TypeOK /\ SwitchExact /\ BegunOnce /\ LiveExact /\ PairsTogether
      /\ SendersExact /\ NoLostBroadcast
  BY DEF IInv
<1>2. /\ current = Starter /\ c \in backlog /\ backlog' = backlog \ {c}
      /\ status' = [t \in DOMAIN status |-> IF t \in {r, s} THEN "ready" ELSE status[t]]
      /\ runnable' = <<s, r>> \o runnable
      /\ linked' = linked \cup {r, s}
      /\ UNCHANGED <<current, hungup, started, freed, senders, chain, sent, watched>>
  BY DEF Accept, Pair
<1>3. /\ r \in Threads /\ s \in Threads /\ r # s /\ r \in Everyone /\ s \in Everyone
      /\ r # Starter /\ s # Starter
  BY Names
<1>4. status[r] = "none" /\ status[s] = "none"
  BY <1>1, <1>2 DEF BegunOnce
<1>. HIDE DEF r, s
<1>5. \A v \in Everyone : status'[v] = IF v \in {r, s} THEN "ready" ELSE status[v]
  BY <1>1, <1>2 DEF TypeOK
<1>6. /\ runnable' \in Seq(Everyone)
      /\ Range(runnable') = {r, s} \cup Range(runnable)
      /\ IsInjective(runnable')
  <2>. DEFINE p == <<s, r>>
  <2>1. runnable \in Seq(Everyone) /\ IsInjective(runnable)
    BY <1>1 DEF TypeOK, SwitchExact
  <2>2. p \in Seq(Everyone) /\ Range(p) = {r, s} /\ IsInjective(p)
    <3>1. p \in Seq(Everyone) /\ DOMAIN p = 1..2 /\ p[1] = s /\ p[2] = r
      BY <1>3
    <3>. HIDE DEF p
    <3>2. Range(p) = {r, s}
      BY <3>1 DEF Range
    <3>3. IsInjective(p)
      BY <1>3, <3>1 DEF IsInjective
    <3>. QED
      BY <3>1, <3>2, <3>3
  <2>3. runnable' = p \o runnable
    BY <1>2
  <2>. HIDE DEF p
  <2>4. Range(p) \cap Range(runnable) = {}
    BY <1>1, <1>4, <2>2 DEF SwitchExact
  <2>. QED
    BY <2>1, <2>2, <2>3, <2>4, ConcatRange
<1>7. TypeOK'
  <2>1. status' \in [Everyone -> Status]
    BY <1>1, <1>2 DEF TypeOK, Status
  <2>. QED
    BY <1>1, <1>2, <1>3, <1>6, <2>1 DEF TypeOK
<1>8. SwitchExact'
  <2>1. Range(runnable') = {v \in Everyone : status'[v] \in {"ready", "zombie"}}
    BY <1>1, <1>3, <1>5, <1>6 DEF SwitchExact
  <2>. QED
    BY <1>1, <1>2, <1>3, <1>5, <1>6, <2>1 DEF SwitchExact
<1>9. Live' = Live \cup {r, s} /\ r \notin Live /\ s \notin Live
  BY <1>3, <1>4, <1>5, Names DEF Live
<1>10. ASSUME NEW d \in Conns, d # c
       PROVE  /\ status'[Recv(d)] = status[Recv(d)] /\ status'[Send(d)] = status[Send(d)]
              /\ Recv(d) \notin {r, s} /\ Send(d) \notin {r, s}
  BY <1>5, <1>10, Names DEF r, s
<1>11. BegunOnce'
  <2>1. \A d \in Conns : status'[Recv(d)] = "none" <=> status'[Send(d)] = "none"
    <3>1. status'[Recv(c)] # "none" /\ status'[Send(c)] # "none"
      BY <1>3, <1>5 DEF r, s
    <3>. QED
      BY <1>1, <1>10, <3>1 DEF BegunOnce
  <2>2. \A d \in backlog' : status'[Recv(d)] = "none"
    BY <1>1, <1>2, <1>10 DEF BegunOnce, TypeOK
  <2>3. \A t \in started' \cup freed' : status'[t] # "none"
    BY <1>1, <1>2, <1>5, Names DEF BegunOnce, TypeOK
  <2>. QED
    BY <2>1, <2>2, <2>3 DEF BegunOnce
<1>12. r \notin freed /\ s \notin freed /\ r \notin started /\ s \notin started
  BY <1>1, <1>4 DEF BegunOnce
<1>13. LiveExact'
  BY <1>1, <1>2, <1>5, <1>9, <1>12, Names DEF LiveExact
<1>14. PairsTogether'
  <2>. SUFFICES ASSUME NEW d \in Conns
                PROVE  /\ Recv(d) \in Live' <=> Send(d) \in Live'
                       /\ Pair(d) \subseteq linked' \/ Pair(d) \cap linked' = {}
                       /\ Pair(d) \cap linked' # {} => Pair(d) \cap freed' = {}
    BY DEF PairsTogether
  <2>1. CASE d = c
    <3>1. Pair(d) = {r, s} /\ Recv(d) = r /\ Send(d) = s
      BY <2>1 DEF Pair, r, s
    <3>. QED
      BY <1>2, <1>9, <1>12, <3>1
  <2>2. CASE d # c
    <3>1. /\ Pair(d) = {Recv(d), Send(d)}
          /\ Recv(d) \notin {r, s} /\ Send(d) \notin {r, s}
      BY <1>10, <2>2 DEF Pair
    <3>. QED
      BY <1>1, <1>2, <1>9, <3>1 DEF PairsTogether
  <2>. QED
    BY <2>1, <2>2
<1>15. SendersExact'
  BY <1>1, <1>2, <1>9, <1>12 DEF SendersExact
<1>16. NoLostBroadcast'
  BY <1>1, <1>2, <1>3, <1>5, Names DEF NoLostBroadcast
<1>. QED
  BY <1>7, <1>8, <1>11, <1>13, <1>14, <1>15, <1>16 DEF IInv

LEMMA StartStep ==
  ASSUME IInv, Start
  PROVE  IInv'
<1>1. /\ TypeOK /\ SwitchExact /\ BegunOnce /\ LiveExact /\ PairsTogether
      /\ SendersExact /\ NoLostBroadcast
  BY DEF IInv
<1>2. PICK t \in Threads : t = current /\ t \notin started
  BY <1>1 DEF Start, TypeOK
<1>3. /\ started' = started \cup {t}
      /\ senders' = IF t[2] = "send" THEN <<t>> \o senders ELSE senders
      /\ watched' = watched \cup {t}
      /\ UNCHANGED <<status, runnable, current, backlog, hungup, linked, freed, chain,
                     sent>>
  BY <1>2 DEF Start, switchVars, clientVars
<1>4. status[t] = "running" /\ t \in Live
  BY <1>1, <1>2, Names DEF SwitchExact, Live
<1>5. /\ <<t>> \o senders \in Seq(Threads)
      /\ Range(<<t>> \o senders) = {t} \cup Range(senders)
      /\ IsInjective(<<t>> \o senders)
  <2>1. t \notin Range(senders)
    BY <1>1, <1>2 DEF SendersExact
  <2>. QED
    BY <1>1, <2>1, PushFront, PushRange DEF TypeOK, SendersExact
<1>6. TypeOK'
  BY <1>1, <1>3, <1>5 DEF TypeOK
<1>7. Live' = Live
  BY <1>3 DEF Live
<1>8. SwitchExact' /\ BegunOnce' /\ LiveExact' /\ PairsTogether' /\ NoLostBroadcast'
  BY <1>1, <1>3, <1>4, <1>7
  DEF SwitchExact, BegunOnce, LiveExact, PairsTogether, NoLostBroadcast
<1>9. SendersExact'
  BY <1>1, <1>3, <1>4, <1>5, <1>7 DEF SendersExact
<1>. QED
  BY <1>6, <1>8, <1>9 DEF IInv

LEMMA WriteStep ==
  ASSUME IInv, NEW c \in Conns, Write(c)
  PROVE  IInv'
<1>1. /\ TypeOK /\ SwitchExact /\ LiveExact /\ NoLostBroadcast
  BY DEF IInv
<1>2. /\ current = Send(c) /\ sent' = [sent EXCEPT ![c] = @ + 1]
      /\ watched' = watched \ {Send(c)}
      /\ UNCHANGED <<status, runnable, current, backlog, hungup, started, linked, freed,
                     senders, chain>>
  BY DEF Write, Runs, switchVars, clientVars
<1>3. TypeOK'
  BY <1>1, <1>2 DEF TypeOK
<1>4. NoLostBroadcast'
  <2>1. status[Send(c)] = "running"
    BY <1>1, <1>2, Names DEF SwitchExact
  <2>2. \A d \in Conns : d # c => sent'[d] = sent[d]
    BY <1>1, <1>2 DEF TypeOK
  <2>. QED
    BY <1>1, <1>2, <2>1, <2>2 DEF NoLostBroadcast
<1>5. Live' = Live
  BY <1>2 DEF Live
<1>. QED
  BY <1>1, <1>2, <1>3, <1>4, <1>5
  DEF IInv, SwitchExact, BegunOnce, LiveExact, PairsTogether, SendersExact

(* Who is woken goes from the slumberers onto the runnable list.           *)
LEMMA ReceiveStep ==
  ASSUME IInv, NEW c \in Conns, Receive(c)
  PROVE  IInv'
<1>. DEFINE sleepers == {t \in Threads : status[t] = "slumber"}
            woken == Kept(senders, sleepers)
            back == Reverse(woken)
<1>1. /\ TypeOK /\ SwitchExact /\ BegunOnce /\ LiveExact /\ SendersExact
      /\ NoLostBroadcast
  BY DEF IInv
<1>2. /\ chain' = chain + 1
      /\ runnable' = back \o runnable
      /\ status' = [t \in DOMAIN status |->
                      IF t \in Range(woken) THEN "ready" ELSE status[t]]
      /\ UNCHANGED <<current, backlog, hungup, started, linked, freed, senders, sent,
                     watched>>
  BY DEF Receive, clientVars
<1>3. /\ woken \in Seq(Threads) /\ Range(woken) = Range(senders) \cap sleepers
      /\ IsInjective(woken)
  <2>. HIDE DEF sleepers
  <2>. QED
    BY <1>1, KeptRange DEF TypeOK, SendersExact
<1>4. Range(woken) = sleepers
  BY <1>1, <1>3 DEF SendersExact, LiveExact, Live
<1>. HIDE DEF woken
<1>5. back \in Seq(Threads) /\ Range(back) = sleepers /\ IsInjective(back)
  BY <1>3, <1>4, BackwardsRange DEF Reverse
<1>. HIDE DEF back
<1>6. ASSUME NEW v \in Everyone
      PROVE  status'[v] = IF v \in sleepers THEN "ready" ELSE status[v]
  BY <1>1, <1>2, <1>4 DEF TypeOK
<1>7. /\ runnable' \in Seq(Everyone)
      /\ Range(runnable') = sleepers \cup Range(runnable)
      /\ IsInjective(runnable')
  <2>1. back \in Seq(Everyone)
    <3>1. \A i \in 1..Len(back) : back[i] \in Everyone
      BY <1>5, ElementOfSeq, Names
    <3>2. back = [i \in 1..Len(back) |-> back[i]] /\ Len(back) \in Nat
      BY <1>5, LenProperties
    <3>. QED
      BY <3>1, <3>2, IsASeq
  <2>2. sleepers \cap Range(runnable) = {}
    BY <1>1 DEF SwitchExact
  <2>. HIDE DEF sleepers
  <2>. QED
    BY <1>1, <1>2, <1>5, <2>1, <2>2, ConcatRange DEF TypeOK, SwitchExact
<1>8. TypeOK'
  <2>1. status' \in [Everyone -> Status]
    BY <1>1, <1>2 DEF TypeOK, Status
  <2>. QED
    BY <1>1, <1>2, <1>7, <2>1 DEF TypeOK
<1>9. SwitchExact'
  <2>1. Range(runnable') = {v \in Everyone : status'[v] \in {"ready", "zombie"}}
    BY <1>1, <1>6, <1>7, Names DEF SwitchExact
  <2>2. \A v \in Everyone : status'[v] = "running" <=> status[v] = "running"
    BY <1>6
  <2>. QED
    BY <1>1, <1>2, <1>7, <2>1, <2>2 DEF SwitchExact
<1>10. \A v \in Threads : status'[v] # "slumber"
  BY <1>6, Names
<1>11. BegunOnce' /\ LiveExact' /\ PairsTogether' /\ SendersExact'
  <2>1. Live' = Live
    BY <1>6, Names DEF Live
  <2>2. \A v \in Threads : status'[v] = "none" <=> status[v] = "none"
    BY <1>6, Names
  <2>3. \A d \in backlog' : d \in Conns /\ status[Recv(d)] = "none"
    BY <1>1, <1>2 DEF TypeOK, BegunOnce
  <2>4. watched' \subseteq Live \cap started
    BY <1>1, <1>2 DEF LiveExact
  <2>. QED
    BY <1>2, <1>10, <2>1, <2>2, <2>3, <2>4, LiveSame
<1>12. NoLostBroadcast'
  BY <1>10, Names DEF NoLostBroadcast
<1>. QED
  BY <1>8, <1>9, <1>11, <1>12 DEF IInv

(* Who ends takes its peer along: both were live, and linked.              *)
LEMMA TeardownStep ==
  ASSUME IInv, NEW t \in Threads, t \in Live \cap started, Teardown(t),
         current \in {t, NoThread}
  PROVE  IInv'
<1>1. /\ TypeOK /\ SwitchExact /\ BegunOnce /\ LiveExact /\ PairsTogether
      /\ SendersExact /\ NoLostBroadcast
  BY DEF IInv
<1>2. PICK c \in Conns : {t, Peer(t)} = Pair(c)
  BY Names DEF Pair
<1>. DEFINE pair == Pair(c)
            handled == pair \cap started
<1>3. TakenAlong(t) = pair /\ Unlinked(t) = pair
  BY <1>1, <1>2 DEF TakenAlong, Unlinked, LiveExact
<1>4. /\ freed' = freed \cup handled
      /\ linked' = linked \ pair
      /\ senders' = Kept(senders, Threads \ handled)
      /\ watched' = watched \ pair
      /\ status' = [u \in DOMAIN status |->
                      IF u \notin pair THEN status[u]
                      ELSE IF u \in Range(runnable) THEN "zombie" ELSE "gone"]
      /\ current' = NoThread
      /\ UNCHANGED <<runnable, backlog, hungup, started, chain, sent>>
  BY <1>3 DEF Teardown, Leave, clientVars
<1>5. /\ pair = {Recv(c), Send(c)} /\ pair \subseteq Threads /\ t \in pair
      /\ pair \subseteq Live
  <2>1. pair = {Recv(c), Send(c)} /\ pair \subseteq Threads /\ t \in pair
    BY <1>2, Names DEF Pair
  <2>. QED
    BY <1>1, <2>1 DEF PairsTogether
<1>. HIDE DEF pair
<1>6. ASSUME NEW v \in Everyone
      PROVE  status'[v] = IF v \notin pair THEN status[v]
                          ELSE IF v \in Range(runnable) THEN "zombie" ELSE "gone"
  BY <1>1, <1>4 DEF TypeOK
<1>7. /\ senders' \in Seq(Threads)
      /\ Range(senders') = Range(senders) \ handled
      /\ IsInjective(senders')
  <2>1. Range(senders) \subseteq Threads
    BY <1>1, LenProperties, ElementOfSeq DEF TypeOK, Range
  <2>. HIDE DEF handled
  <2>2. /\ Kept(senders, Threads \ handled) \in Seq(Threads)
        /\ Range(Kept(senders, Threads \ handled)) = Range(senders) \cap (Threads \ handled)
        /\ IsInjective(Kept(senders, Threads \ handled))
    BY <1>1, KeptRange DEF TypeOK, SendersExact
  <2>. QED
    BY <1>4, <2>1, <2>2
<1>8. TypeOK'
  <2>1. status' \in [Everyone -> Status]
    BY <1>1, <1>4 DEF TypeOK, Status
  <2>. QED
    BY <1>1, <1>4, <1>5, <1>7, <2>1 DEF TypeOK
<1>9. SwitchExact'
  <2>1. \A v \in pair : v \in Range(runnable) <=> status[v] = "ready"
    BY <1>1, <1>5, Names DEF SwitchExact, Live
  <2>2. Range(runnable') = {v \in Everyone : status'[v] \in {"ready", "zombie"}}
    BY <1>1, <1>4, <1>5, <1>6, <2>1 DEF SwitchExact
  <2>3. \A v \in Everyone : status'[v] # "running"
    BY <1>1, <1>5, <1>6, Names DEF SwitchExact, Everyone
  <2>4. \A v \in Everyone : v # NoThread
    BY Names DEF Everyone, Threads, NamesAssumption
  <2>. QED
    BY <1>1, <1>4, <2>2, <2>3, <2>4 DEF SwitchExact
<1>10. Live' = Live \ pair
  BY <1>5, <1>6, Names DEF Live
<1>11. \A v \in Threads : status'[v] = "none" <=> status[v] = "none"
  BY <1>5, <1>6, Names DEF Live
<1>12. BegunOnce'
  <2>1. started' \cup freed' \subseteq Threads /\ backlog' \subseteq Conns
    BY <1>8 DEF TypeOK
  <2>2. \A v \in started' \cup freed' : status[v] # "none"
    BY <1>1, <1>4, <1>5 DEF BegunOnce
  <2>. QED
    BY <1>1, <1>4, <1>11, <2>1, <2>2, Names DEF BegunOnce
<1>13. LiveExact'
  <2>1. \A v \in Threads : status'[v] = "slumber" => status[v] = "slumber"
    BY <1>6, Names
  <2>. QED
    BY <1>1, <1>4, <1>10, <2>1 DEF LiveExact
<1>14. PairsTogether'
  <2>. SUFFICES ASSUME NEW d \in Conns
                PROVE  /\ Recv(d) \in Live' <=> Send(d) \in Live'
                       /\ Pair(d) \subseteq linked' \/ Pair(d) \cap linked' = {}
                       /\ Pair(d) \cap linked' # {} => Pair(d) \cap freed' = {}
    BY DEF PairsTogether
  <2>1. CASE d = c
    <3>1. Pair(d) = pair
      BY <2>1 DEF pair
    <3>2. Recv(d) \in pair /\ Send(d) \in pair
      BY <1>5, <2>1
    <3>. QED
      BY <1>4, <1>10, <3>1, <3>2
  <2>2. CASE d # c
    <3>1. /\ Pair(d) = {Recv(d), Send(d)}
          /\ Recv(d) \notin pair /\ Send(d) \notin pair
      BY <1>5, <2>2, Names DEF Pair
    <3>. QED
      BY <1>1, <1>4, <1>10, <3>1 DEF PairsTogether
  <2>. QED
    BY <2>1, <2>2
<1>15. SendersExact'
  BY <1>1, <1>4, <1>7, <1>10 DEF SendersExact
<1>16. NoLostBroadcast'
  BY <1>1, <1>4, <1>6, Names DEF NoLostBroadcast
<1>. QED
  BY <1>8, <1>9, <1>12, <1>13, <1>14, <1>15, <1>16 DEF IInv

LEMMA EndSteps ==
  ASSUME IInv, NEW t \in Threads, Fails(t) \/ TimesOut(t)
  PROVE  IInv'
<1>1. CASE Fails(t)
  <2>1. current = t /\ t \in started /\ status[t] = "running"
    BY <1>1, Names DEF Fails, Runs, IInv, SwitchExact
  <2>. QED
    BY <1>1, <2>1, TeardownStep DEF Fails, Live
<1>2. CASE TimesOut(t)
  BY <1>2, TeardownStep DEF TimesOut, IInv, LiveExact
<1>. QED
  BY <1>1, <1>2

-----------------------------------------------------------------------------

LEMMA InitInductive == Init => IInv
<1>. SUFFICES ASSUME Init PROVE IInv
  OBVIOUS
<1>1. \A t \in Everyone : status[t] = IF t = Starter THEN "ready" ELSE "none"
  BY DEF Init, Everyone
<1>2. /\ \A R : <<>> \in Seq(R)
      /\ Range(<<>>) = {} /\ IsInjective(<<>>)
  BY EmptySeq DEF Range, IsInjective
<1>3. /\ runnable = <<Starter>> /\ runnable \in Seq(Everyone)
      /\ Range(runnable) = {Starter} /\ IsInjective(runnable)
  <2>1. runnable = <<Starter>> /\ runnable \in Seq(Everyone) /\ DOMAIN runnable = 1..1
    BY Names DEF Init
  <2>. QED
    BY <2>1 DEF Range, IsInjective
<1>4. TypeOK
  <2>1. status \in [Everyone -> Status] /\ sent \in [Conns -> Nat]
    BY DEF Init, Everyone, Status
  <2>. QED
    BY <1>2, <1>3, <2>1 DEF Init, TypeOK
<1>5. SwitchExact
  <2>1. \A v \in Everyone : v # NoThread
    BY Names DEF Everyone
  <2>2. Range(runnable) = {v \in Everyone : status[v] \in {"ready", "zombie"}}
    BY <1>1, <1>3, Names
  <2>3. \A v \in Everyone : status[v] # "running"
    BY <1>1
  <2>4. current = NoThread
    BY DEF Init
  <2>. QED
    BY <1>3, <2>1, <2>2, <2>3, <2>4 DEF SwitchExact
<1>6. Live = {} /\ \A t \in Threads : status[t] = "none"
  BY <1>1, Names DEF Live
<1>7. BegunOnce /\ LiveExact /\ PairsTogether /\ SendersExact /\ NoLostBroadcast
  <2>1. BegunOnce
    BY <1>6, Names DEF Init, BegunOnce
  <2>2. LiveExact
    BY <1>6 DEF Init, LiveExact
  <2>3. PairsTogether
    BY <1>6 DEF Init, PairsTogether
  <2>4. SendersExact
    BY <1>2, <1>6 DEF Init, SendersExact
  <2>5. NoLostBroadcast
    BY <1>6, Names DEF NoLostBroadcast
  <2>. QED
    BY <2>1, <2>2, <2>3, <2>4, <2>5
<1>. QED
  BY <1>4, <1>5, <1>7 DEF IInv

LEMMA NextInductive ==
  ASSUME IInv, Next
  PROVE  IInv'
<1>1. CASE Dispatch \/ AcceptWaits \/ Start
  BY <1>1, DispatchStep, WaitSteps, StartStep
<1>2. ASSUME NEW t \in Threads \cup {Starter}, Report(t) PROVE IInv'
  BY <1>2, ReportStep DEF Everyone
<1>3. ASSUME NEW c \in Conns,
             Connect(c) \/ Hangup(c) \/ Accept(c) \/ Receive(c) \/ Write(c) \/ Sleep(c)
      PROVE  IInv'
  BY <1>3, ConnectStep, HangupStep, AcceptStep, ReceiveStep, WriteStep, WaitSteps
<1>4. ASSUME NEW t \in Threads, Blocks(t) \/ Fails(t) \/ TimesOut(t) PROVE IInv'
  BY <1>4, WaitSteps, EndSteps
<1>. QED
  BY <1>1, <1>2, <1>3, <1>4 DEF Next

THEOREM Inductive == Spec => []IInv
<1>1. IInv /\ UNCHANGED vars => IInv'
  BY SMTT(60) DEF vars, IInv, TypeOK, SwitchExact, BegunOnce, LiveExact, Live, PairsTogether,
         SendersExact, NoLostBroadcast
<1>2. IInv /\ [Next]_vars => IInv'
  BY <1>1, NextInductive
<1>. QED
  BY InitInductive, <1>2, PTL DEF Spec

(* The two threads of a connection live and end together, and neither has  *)
(* a pointer to the other's freed record, whichever ends first and how.    *)
THEOREM PairsEndTogether == Spec => []PairsTogether
<1>1. IInv => PairsTogether
  BY DEF IInv
<1>. QED
  BY <1>1, Inductive, PTL

(* The list that receivers walk holds each live sender once, and nothing   *)
(* that was freed.                                                         *)
THEOREM SendersAccounted == Spec => []SendersExact
<1>1. IInv => SendersExact
  BY DEF IInv
<1>. QED
  BY <1>1, Inductive, PTL

(* No sender sleeps through a message.                                     *)
THEOREM BroadcastReaches == Spec => []NoLostBroadcast
<1>1. IInv => NoLostBroadcast
  BY DEF IInv
<1>. QED
  BY <1>1, Inductive, PTL
=============================================================================
