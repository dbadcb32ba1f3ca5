----------------------------- MODULE AioProofs ------------------------------
(***************************************************************************)
(* Proofs about Aio for every set of requests and every capacity.  The     *)
(* properties are inductive together: the counters are right because each  *)
(* request is in one place, and a slot is never idle because the counters  *)
(* are right.  They hold of the hub by itself, and so of the hub on an     *)
(* event loop, which takes no steps but the hub's (AioLoop).               *)
(***************************************************************************)
EXTENDS AioLoop, SequenceLemmas, FiniteSetTheorems

(* The thread comes back to its read with every event reaped.              *)
Reaped == place = "read" => num = 0

IInv == TypeOK /\ NflExact /\ NeverBlocks /\ EachOnce /\ NoIdleSlot /\ Reaped

LEMMA Finiteness ==
  ASSUME TypeOK
  PROVE  /\ IsFiniteSet(inflight) /\ Cardinality(inflight) \in Nat
         /\ IsFiniteSet(ring) /\ Cardinality(ring) \in Nat
BY RequestsAssumption, FS_Subset, FS_CardinalityType DEF TypeOK

LEMMA SmallerFacts ==
  ASSUME NEW m \in Nat, NEW n \in Nat
  PROVE  /\ Smaller(m, n) \in Nat
         /\ Smaller(m, n) <= m /\ Smaller(m, n) <= n
         /\ Smaller(m, n) = m \/ Smaller(m, n) = n
BY DEF Smaller

LEMMA RemoveSubset ==
  ASSUME NEW S, NEW T \in SUBSET S, IsFiniteSet(S)
  PROVE  /\ IsFiniteSet(S \ T) /\ IsFiniteSet(T)
         /\ Cardinality(T) \in Nat /\ Cardinality(S \ T) \in Nat
         /\ Cardinality(S \ T) = Cardinality(S) - Cardinality(T)
<1>1. IsFiniteSet(T) /\ IsFiniteSet(S \ T)
  BY FS_Subset
<1>2. (S \ T) \cup T = S /\ (S \ T) \cap T = {}
  OBVIOUS
<1>3. Cardinality(S) = Cardinality(S \ T) + Cardinality(T) - Cardinality((S \ T) \cap T)
  BY <1>1, <1>2, FS_Union
<1>4. Cardinality(T) \in Nat /\ Cardinality(S \ T) \in Nat
  BY <1>1, FS_CardinalityType
<1>5. Cardinality((S \ T) \cap T) = 0
  BY <1>2, FS_EmptySet
<1>. QED
  BY <1>1, <1>3, <1>4, <1>5

LEMMA InitInductive == Init => IInv
<1>. SUFFICES ASSUME Init PROVE IInv
  OBVIOUS
<1>1. <<>> \in Seq(Requests) /\ Range(<<>>) = {} /\ IsInjective(<<>>)
  BY EmptySeq DEF Range, IsInjective
<1>2. TypeOK
  BY <1>1 DEF Init, TypeOK, Places
<1>3. NflExact /\ NeverBlocks
  BY FS_EmptySet, MaxAssumption DEF Init, NflExact, NeverBlocks
<1>4. EachOnce
  BY <1>1 DEF Init, EachOnce, Waiting
<1>5. NoIdleSlot /\ Reaped
  BY DEF Init, NoIdleSlot, Reaped
<1>. QED
  BY <1>2, <1>3, <1>4, <1>5 DEF IInv

LEMMA SubmitStep == ASSUME IInv, NEW r \in Requests, Submit(r) PROVE IInv'
<1>. USE DEF Submit
<1>1. /\ r \in fresh /\ r \notin inflight /\ r \notin ring /\ r \notin qu_out
      /\ r \notin Waiting
      /\ place = "read" /\ qu_wtg \in Seq(Requests) /\ nfl \in Nat
  BY DEF IInv, EachOnce, TypeOK
<1>2. CASE Room
  <2>1. /\ inflight' = inflight \cup {r} /\ nfl' = nfl + 1 /\ qu_wtg' = qu_wtg
        /\ fresh' = fresh \ {r}
        /\ UNCHANGED <<ring, unsignalled, event_count, place, num, amt, qu_out>>
    BY <1>2 DEF hubVars
  <2>2. Cardinality(inflight') = Cardinality(inflight) + 1
    BY <1>1, <2>1, Finiteness, FS_AddElement DEF IInv
  <2>3. TypeOK'
    BY <1>1, <2>1 DEF IInv, TypeOK
  <2>4. NflExact'
    BY <1>1, <1>2, <2>1, <2>2, Finiteness, MaxAssumption DEF IInv, NflExact, Room
  <2>5. NeverBlocks'
    BY <2>1 DEF IInv, NeverBlocks
  <2>6. EachOnce'
    BY <1>1, <2>1 DEF IInv, EachOnce, Waiting
  <2>7. qu_wtg = <<>>
    BY <1>1, <1>2, MaxAssumption DEF IInv, NoIdleSlot, Room
  <2>8. NoIdleSlot' /\ Reaped'
    BY <1>1, <2>1, <2>7 DEF IInv, NoIdleSlot, Reaped
  <2>. QED
    BY <2>3, <2>4, <2>5, <2>6, <2>8 DEF IInv
<1>3. CASE ~Room
  <2>1. /\ qu_wtg' = Append(qu_wtg, r) /\ fresh' = fresh \ {r}
        /\ UNCHANGED <<inflight, ring, nfl, unsignalled, event_count, place, num, amt, qu_out>>
    BY <1>3 DEF hubVars
  <2>2. /\ qu_wtg' \in Seq(Requests)
        /\ Waiting' = Waiting \cup {r}
        /\ IsInjective(qu_wtg')
    BY <1>1, <2>1, AppendRange DEF IInv, EachOnce, Waiting
  <2>3. TypeOK'
    BY <2>1, <2>2 DEF IInv, TypeOK
  <2>4. NflExact' /\ NeverBlocks'
    BY <2>1 DEF IInv, NflExact, NeverBlocks
  <2>5. EachOnce'
    BY <1>1, <2>1, <2>2 DEF IInv, EachOnce
  <2>6. nfl = Max
    BY <1>1, <1>3, MaxAssumption DEF IInv, NflExact, Room
  <2>7. NoIdleSlot' /\ Reaped'
    BY <1>1, <2>1, <2>6 DEF IInv, NoIdleSlot, Reaped
  <2>. QED
    BY <2>3, <2>4, <2>5, <2>7 DEF IInv
<1>. QED
  BY <1>2, <1>3

LEMMA KernelStep ==
  ASSUME IInv, (\E r \in Requests : Complete(r)) \/ Signal
  PROVE  IInv'
<1>1. ASSUME NEW r \in Requests, Complete(r) PROVE IInv'
  <2>1. /\ r \in inflight /\ inflight' = inflight \ {r} /\ ring' = ring \cup {r}
        /\ unsignalled' = unsignalled + 1
        /\ UNCHANGED <<fresh, qu_wtg, event_count, nfl, place, num, amt, qu_out>>
        /\ r \notin ring
    BY <1>1 DEF Complete, hubVars, IInv, EachOnce
  <2>2. /\ Cardinality(inflight') = Cardinality(inflight) - 1
        /\ Cardinality(ring') = Cardinality(ring) + 1
    BY <2>1, Finiteness, FS_AddElement, FS_RemoveElement DEF IInv
  <2>3. TypeOK'
    BY <2>1 DEF IInv, TypeOK
  <2>4. NflExact'
    BY <2>1, <2>2, Finiteness DEF IInv, NflExact
  <2>5. NeverBlocks'
    BY <2>1, <2>2, Finiteness DEF IInv, NeverBlocks, TypeOK
  <2>6. EachOnce'
    BY <2>1 DEF IInv, EachOnce, Waiting
  <2>7. NoIdleSlot' /\ Reaped'
    BY <2>1 DEF IInv, NoIdleSlot, Reaped
  <2>. QED
    BY <2>3, <2>4, <2>5, <2>6, <2>7 DEF IInv
<1>2. CASE Signal
  <2>1. /\ unsignalled > 0 /\ unsignalled' = unsignalled - 1 /\ event_count' = event_count + 1
        /\ UNCHANGED <<fresh, qu_wtg, inflight, ring, nfl, place, num, amt, qu_out>>
    BY <1>2 DEF Signal, hubVars
  <2>2. TypeOK'
    BY <2>1 DEF IInv, TypeOK
  <2>3. NeverBlocks'
    BY <2>1, Finiteness DEF IInv, NeverBlocks, TypeOK
  <2>4. NflExact' /\ EachOnce' /\ NoIdleSlot' /\ Reaped'
    BY <2>1 DEF IInv, NflExact, EachOnce, Waiting, NoIdleSlot, Reaped
  <2>. QED
    BY <2>2, <2>3, <2>4 DEF IInv
<1>. QED
  BY <1>1, <1>2

LEMMA ReadStep == ASSUME IInv, ReadEvents PROVE IInv'
<1>1. /\ place = "read" /\ event_count > 0 /\ num' = event_count /\ event_count' = 0
      /\ place' = "reap"
      /\ UNCHANGED <<fresh, qu_wtg, inflight, ring, unsignalled, nfl, amt, qu_out>>
  BY DEF ReadEvents
<1>2. num = 0
  BY <1>1 DEF IInv, Reaped
<1>3. TypeOK'
  BY <1>1 DEF IInv, TypeOK, Places
<1>4. NeverBlocks'
  BY <1>1, <1>2 DEF IInv, NeverBlocks, TypeOK
<1>5. NflExact' /\ EachOnce' /\ NoIdleSlot' /\ Reaped'
  BY <1>1 DEF IInv, NflExact, EachOnce, Waiting, NoIdleSlot, Reaped
<1>. QED
  BY <1>3, <1>4, <1>5 DEF IInv

LEMMA ReapStep == ASSUME IInv, Reap PROVE IInv'
<1>1. PICK events \in SUBSET ring :
        LET k == Cardinality(events)
        IN  /\ 0 < k /\ k <= num
            /\ ring' = ring \ events
            /\ num' = num - k
            /\ nfl' = nfl - k
            /\ qu_out' = qu_out \cup events
            /\ amt' = Freed(k)
  BY DEF Reap
<1>. DEFINE k == Cardinality(events)
<1>2. /\ place = "reap" /\ place' = "resubmit"
      /\ UNCHANGED <<fresh, qu_wtg, inflight, unsignalled, event_count>>
  BY DEF Reap
<1>3. k \in Nat /\ Cardinality(ring') = Cardinality(ring) - k
  BY <1>1, Finiteness, RemoveSubset DEF IInv
<1>4. Cardinality(ring') \in Nat
  BY <1>1, Finiteness, RemoveSubset DEF IInv
<1>5. /\ qu_wtg \in Seq(Requests) /\ Len(qu_wtg) \in Nat /\ num \in Nat /\ nfl \in Nat
      /\ Cardinality(inflight) \in Nat /\ Cardinality(ring) \in Nat
      /\ nfl = Cardinality(inflight) + Cardinality(ring) /\ nfl <= Max
  BY LenProperties, Finiteness DEF IInv, TypeOK, NflExact
<1>. HIDE DEF k
<1>6. nfl' = nfl - k /\ num' = num - k /\ k <= num
  BY <1>1 DEF k
<1>7. nfl' = Cardinality(inflight') + Cardinality(ring') /\ nfl' <= Max /\ nfl' \in Nat
  BY <1>2, <1>3, <1>4, <1>5, <1>6, MaxAssumption
<1>8. Max - nfl' \in Nat
  BY <1>7, MaxAssumption
<1>9. amt' = Smaller(Len(qu_wtg'), Max - nfl')
  BY <1>1, <1>2, <1>6 DEF Freed, k
<1>10. amt' \in Nat
  BY <1>2, <1>5, <1>8, <1>9, SmallerFacts
<1>11. num' \in Nat
  BY <1>3, <1>5, <1>6
<1>12. TypeOK'
  BY <1>1, <1>2, <1>7, <1>10, <1>11 DEF IInv, TypeOK, Places
<1>13. NflExact'
  BY <1>7 DEF NflExact
<1>14. NeverBlocks'
  BY <1>2, <1>3, <1>5, <1>6 DEF IInv, NeverBlocks, TypeOK
<1>15. EachOnce'
  BY <1>1, <1>2 DEF IInv, EachOnce, Waiting
<1>16. NoIdleSlot' /\ Reaped'
  BY <1>2, <1>9 DEF NoIdleSlot, Reaped
<1>. QED
  BY <1>12, <1>13, <1>14, <1>15, <1>16 DEF IInv

LEMMA ResubmitStep == ASSUME IInv, Resubmit PROVE IInv'
<1>. DEFINE r == Head(qu_wtg)
<1>1. /\ place = "resubmit" /\ amt > 0 /\ amt' = amt - 1
      /\ inflight' = inflight \cup {r} /\ qu_wtg' = Tail(qu_wtg) /\ nfl' = nfl + 1
      /\ UNCHANGED <<fresh, ring, unsignalled, event_count, place, num, qu_out>>
  BY DEF Resubmit, CountUp
<1>2. /\ qu_wtg \in Seq(Requests) /\ Len(qu_wtg) \in Nat /\ nfl \in Nat /\ amt \in Nat
      /\ nfl = Cardinality(inflight) + Cardinality(ring) /\ nfl <= Max
      /\ Cardinality(inflight) \in Nat /\ Cardinality(ring) \in Nat
      /\ amt = Smaller(Len(qu_wtg), Max - nfl)
  BY <1>1, LenProperties, Finiteness DEF IInv, TypeOK, NflExact, NoIdleSlot
<1>3. Max - nfl \in Nat
  BY <1>2, MaxAssumption
<1>4. amt <= Len(qu_wtg) /\ amt <= Max - nfl
  BY <1>2, <1>3, SmallerFacts
<1>5. qu_wtg # <<>>
  BY <1>1, <1>2, <1>4, EmptySeq
<1>6. /\ r \in Requests /\ qu_wtg' \in Seq(Requests)
      /\ Len(qu_wtg') = Len(qu_wtg) - 1
      /\ Waiting = {r} \cup Waiting'
      /\ IsInjective(qu_wtg') /\ r \notin Waiting'
  BY <1>1, <1>2, <1>5, PopRange, HeadTailProperties, SMTT(60) DEF IInv, EachOnce, Waiting
<1>7. r \notin inflight /\ r \notin fresh /\ r \notin ring /\ r \notin qu_out
  BY <1>6 DEF IInv, EachOnce
<1>8. Cardinality(inflight') = Cardinality(inflight) + 1
  BY <1>1, <1>7, Finiteness, FS_AddElement DEF IInv
<1>. HIDE DEF r
<1>9. TypeOK'
  BY <1>1, <1>2, <1>6 DEF IInv, TypeOK
<1>10. NflExact'
  <2>1. nfl + 1 <= Max
    BY <1>1, <1>2, <1>4, MaxAssumption
  <2>2. nfl + 1 = Cardinality(inflight') + Cardinality(ring)
    BY <1>2, <1>8
  <2>. QED
    BY <1>1, <2>1, <2>2 DEF NflExact
<1>11. NeverBlocks'
  BY <1>1 DEF IInv, NeverBlocks
<1>12. EachOnce'
  BY <1>1, <1>6, <1>7 DEF IInv, EachOnce
<1>13. NoIdleSlot' /\ Reaped'
  <2>1. amt' = Smaller(Len(qu_wtg'), Max - nfl')
    <3>1. Len(qu_wtg') = Len(qu_wtg) - 1 /\ Max - nfl' = (Max - nfl) - 1
      BY <1>1, <1>2, <1>6, MaxAssumption
    <3>2. Smaller(Len(qu_wtg), Max - nfl) - 1 = Smaller(Len(qu_wtg) - 1, (Max - nfl) - 1)
      BY <1>2, <1>3 DEF Smaller
    <3>. QED
      BY <1>1, <1>2, <3>1, <3>2
  <2>. QED
    BY <1>1, <2>1 DEF NoIdleSlot, Reaped
<1>. QED
  BY <1>9, <1>10, <1>11, <1>12, <1>13 DEF IInv

LEMMA DoneStep == ASSUME IInv, ResubmitDone PROVE IInv'
<1>1. /\ place = "resubmit" /\ amt = 0 /\ place' = NextPlace
      /\ UNCHANGED <<fresh, qu_wtg, inflight, ring, unsignalled, event_count, nfl, num, amt, qu_out>>
  BY DEF ResubmitDone, kernelVars
<1>2. place' \in {"reap", "read"} /\ (place' = "read" => num = 0)
  BY <1>1 DEF NextPlace, IInv, TypeOK
<1>3. TypeOK' /\ NflExact' /\ NeverBlocks' /\ EachOnce' /\ Reaped'
  BY <1>1, <1>2 DEF IInv, TypeOK, Places, NflExact, NeverBlocks, EachOnce, Waiting, Reaped
<1>4. NoIdleSlot'
  <2>1. qu_wtg \in Seq(Requests) /\ Len(qu_wtg) \in Nat /\ nfl \in Nat /\ nfl <= Max
    BY LenProperties DEF IInv, TypeOK, NflExact
  <2>2. Smaller(Len(qu_wtg), Max - nfl) = 0
    BY <1>1 DEF IInv, NoIdleSlot
  <2>3. Len(qu_wtg) = 0 \/ Max - nfl = 0
    BY <2>2 DEF Smaller
  <2>4. qu_wtg # <<>> => nfl = Max
    BY <2>1, <2>3, MaxAssumption, EmptySeq
  <2>. QED
    BY <1>1, <1>2, <2>4 DEF NoIdleSlot
<1>. QED
  BY <1>3, <1>4 DEF IInv

(* The joint invariant of the hub, from which the theorems below follow.   *)
THEOREM Inductive == Spec => []IInv
<1>1. Init => IInv
  BY InitInductive
<1>2. IInv /\ [Next]_vars => IInv'
  <2>. SUFFICES ASSUME IInv, [Next]_vars PROVE IInv'
    OBVIOUS
  <2>1. CASE UNCHANGED vars
    BY <2>1 DEF vars, kernelVars, hubVars, IInv, TypeOK, NflExact, NeverBlocks,
                EachOnce, Waiting, NoIdleSlot, Reaped
  <2>. QED
    BY <2>1, SubmitStep, KernelStep, ReadStep, ReapStep, ResubmitStep, DoneStep
       DEF Next, Hub
<1>. QED
  BY <1>1, <1>2, PTL DEF Spec

(* The hub's counter is what the kernel holds, and within its capacity:    *)
(* io_submit always finds room.                                            *)
THEOREM CounterCorrect == Spec => []NflExact
<1>1. IInv => NflExact
  BY DEF IInv
<1>. QED
  BY <1>1, Inductive, PTL

(* io_getevents is only asked for events that have come.                   *)
THEOREM GetEventsReturns == Spec => []NeverBlocks
<1>1. IInv => NeverBlocks
  BY DEF IInv
<1>. QED
  BY <1>1, Inductive, PTL

(* No request is lost or delivered twice.                                  *)
THEOREM RequestsConserved == Spec => []EachOnce
<1>1. IInv => EachOnce
  BY DEF IInv
<1>. QED
  BY <1>1, Inductive, PTL

(* A request waits in the queue only while the kernel is full.             *)
THEOREM SlotsUsed == Spec => []NoIdleSlot
<1>1. IInv => NoIdleSlot
  BY DEF IInv
<1>. QED
  BY <1>1, Inductive, PTL

-----------------------------------------------------------------------------
(* A step of the event loop is one of the hub or of the kernel, or leaves  *)
(* both alone.                                                             *)
LEMMA LoopStep ==
  ASSUME [LoopNext]_loopVars
  PROVE  [Next]_vars
<1>1. CASE Kernel
  BY <1>1 DEF Kernel, Next
<1>2. CASE HubWorks
  BY <1>2 DEF HubWorks, Next
<1>3. CASE ClientSubmits
  BY <1>3 DEF ClientSubmits, Next
<1>4. CASE \/ PollHub \/ PollClients \/ HubRuns \/ HubWaits
           \/ ClientRuns \/ ClientYields
  BY <1>4 DEF PollHub, PollClients, HubRuns, HubWaits, ClientRuns, ClientYields
<1>5. CASE UNCHANGED loopVars
  BY <1>5 DEF loopVars
<1>. QED
  BY <1>1, <1>2, <1>3, <1>4, <1>5 DEF LoopNext

(* The hub on an event loop is a hub, whoever else is on that loop and in  *)
(* whatever order it runs them.                                            *)
THEOREM LoopImplements == LoopSpec => Spec
<1>1. LoopInit => Init
  BY DEF LoopInit
<1>2. [LoopNext]_loopVars => [Next]_vars
  BY LoopStep
<1>. QED
  BY <1>1, <1>2, PTL DEF LoopSpec, Spec

(* So all of the above holds of it.                                        *)
THEOREM HubOnLoopSound ==
  LoopSpec => [](NflExact /\ NeverBlocks /\ EachOnce /\ NoIdleSlot)
<1>1. IInv => NflExact /\ NeverBlocks /\ EachOnce /\ NoIdleSlot
  BY DEF IInv
<1>. QED
  BY <1>1, LoopImplements, Inductive, PTL

=============================================================================
