------------------------- MODULE MixSchedulerProofs -------------------------
(***************************************************************************)
(* Proofs about MixScheduler for every number of requests and every queue  *)
(* limit: its tickets are accounted for, its queue is bounded, nothing is  *)
(* stranded when Run ends, polls keep their cadence, and it implements     *)
(* MixTickets.                                                             *)
(***************************************************************************)
EXTENDS MixScheduler, FiniteSetTheorems, SequenceTheorems, TLAPS

USE DEF shared, runLocal, history, vars, Nil, Release, MayAppend, Drained

-----------------------------------------------------------------------------
(* Sequences.                                                              *)

\* Moving the head of the second sequence behind the first one keeps the
\* concatenation.
LEMMA MoveHead ==
  ASSUME NEW S, NEW p \in Seq(S), NEW q \in Seq(S), q # << >>
  PROVE  Append(p, Head(q)) \o Tail(q) = p \o q
OBVIOUS

\* Appending to the last of two sequences appends to their concatenation.
LEMMA AppendBehind ==
  \A p, q \in Seq(Requests) : \A r \in Requests :
    Append(p \o q, r) = p \o Append(q, r)
OBVIOUS

-----------------------------------------------------------------------------
(* Types.                                                                  *)

\* Initially all variables have their types.
LEMMA TypeInit == Init => TypeOK
<1> SUFFICES ASSUME Init PROVE TypeOK
  OBVIOUS
<1>1. running \in BOOLEAN /\ pollSlot \in BOOLEAN
  BY DEF Init
<1> QED
  BY <1>1 DEF Init, TypeOK, Errors, RunPCs

\* A step keeps the types; that reservations stays a natural number rests
\* on every preparing Enqueue holding one.
LEMMA TypeStep ==
  ASSUME TypeOK, CapacityAccounted, [Next]_vars
  PROVE  TypeOK'
<1> USE DEF TypeOK, Errors, RunPCs, ReturnWith
<1>1. CASE RunStart
  BY <1>1 DEF RunStart
<1>2. CASE RunStop
  BY <1>2 DEF RunStop
<1>3. CASE RunTimer
  BY <1>3 DEF RunTimer
<1>4. CASE DispatchCoverFails
  BY <1>4 DEF DispatchCoverFails
<1>5. CASE DispatchTakeSlot
  <2>1. /\ slots' \in Nat
        /\ pollSlot' \in BOOLEAN
    BY <1>5, SlotWrapPositive, PollEverySlotsAtLeastTwo DEF DispatchTakeSlot, IsPollSlot
  <2>2. CASE pollSlot' \/ queue = << >>
    BY <1>5, <2>1, <2>2 DEF DispatchTakeSlot
  <2>3. CASE ~(pollSlot' \/ queue = << >>)
    <3>1. /\ Head(queue) \in Requests
          /\ Tail(queue) \in Seq(Requests)
          /\ Append(resolved, Head(queue)) \in Seq(Requests)
          /\ <<Head(queue)>> \in Seq(Requests)
      BY <2>3, HeadTailProperties, AppendProperties
    <3>2. CASE Head(queue) \in now
      BY <1>5, <2>1, <2>3, <3>1, <3>2 DEF DispatchTakeSlot
    <3>3. CASE Head(queue) \notin now
      BY <1>5, <2>1, <2>3, <3>1, <3>3 DEF DispatchTakeSlot
    <3> QED
      BY <3>2, <3>3
  <2> QED
    BY <2>2, <2>3
<1>6. CASE DispatchPollFails
  BY <1>6 DEF DispatchPollFails
<1>7. CASE DispatchSend
  <2>1. PICK outcome \in SendOutcomes : AfterSend(outcome) /\ Answer(outcome)
    BY <1>7 DEF DispatchSend
  <2>2. /\ runPC' \in RunPCs
        /\ runErr' \in Errors \cup {Nil}
    BY <2>1 DEF AfterSend, SendOutcomes
  <2>3. /\ queued' \in Seq(Requests)
        /\ resolved' \in Seq(Requests)
        /\ result' \in [Requests -> {"empty", "sent", "expired", "failed", "taken"}]
    <3>1. CASE queued = << >>
      BY <2>1, <3>1 DEF Answer
    <3>2. CASE queued # << >>
      <4>1. Head(queued) \in Requests /\ Append(resolved, Head(queued)) \in Seq(Requests)
        BY <3>2, HeadTailProperties, AppendProperties
      <4>2. queued' = << >> /\ resolved' = Append(resolved, Head(queued))
        BY <2>1, <3>2 DEF Answer
      <4>3. result' = [result EXCEPT ![Head(queued)] =
                         IF outcome = "failed" THEN "failed" ELSE "sent"]
        BY <2>1, <3>2 DEF Answer
      <4> QED
        BY <4>1, <4>2, <4>3
    <3> QED
      BY <3>1, <3>2
  <2>4. sincePoll' \in Nat
    BY <1>7 DEF DispatchSend
  <2> QED
    BY <1>7, <2>2, <2>3, <2>4 DEF DispatchSend
<1>8. CASE RunReturn
  BY <1>8 DEF RunReturn
<1>9. CASE FailQueued
  BY <1>9 DEF FailQueued
<1>10. CASE FailQueuedNext
  <2>1. /\ Head(draining) \in Requests
        /\ Tail(draining) \in Seq(Requests)
        /\ Append(resolved, Head(draining)) \in Seq(Requests)
    BY <1>10, HeadTailProperties, AppendProperties DEF FailQueuedNext
  <2> QED
    BY <1>10, <2>1 DEF FailQueuedNext
<1>11. ASSUME NEW r \in Requests, CallerStep(r) \/ Expire(r)
       PROVE  TypeOK'
  <2>1. CASE EnqueueReserve(r)
    BY <2>1 DEF EnqueueReserve
  <2>2. CASE EnqueueRefuse(r)
    BY <2>2 DEF EnqueueRefuse
  <2>3. call[r] = "preparing" => reservations - 1 \in Nat
    <3> SUFFICES ASSUME call[r] = "preparing" PROVE reservations # 0
      OBVIOUS
    <3>1. r \in Preparing /\ IsFiniteSet(Preparing)
      BY RequestsFinite, FS_Subset DEF Preparing
    <3>2. Cardinality(Preparing) # 0
      BY <3>1, FS_EmptySet
    <3> QED
      BY <3>2 DEF CapacityAccounted
  <2>4. CASE EnqueuePrepareFails(r)
    BY <2>3, <2>4 DEF EnqueuePrepareFails
  <2>5. CASE EnqueueAppend(r)
    <3>1. Append(queue, r) \in Seq(Requests) /\ Append(accepted, r) \in Seq(Requests)
      BY AppendProperties
    <3>2. CASE terminalErr = Nil
      BY <2>3, <2>5, <3>1, <3>2 DEF EnqueueAppend
    <3>3. CASE terminalErr # Nil
      BY <2>3, <2>5, <3>3 DEF EnqueueAppend
    <3> QED
      BY <3>2, <3>3
  <2>6. CASE Wait(r)
    BY <2>6 DEF Wait
  <2>7. CASE Expire(r)
    BY <2>7 DEF Expire
  <2> QED
    BY <1>11, <2>1, <2>2, <2>4, <2>5, <2>6, <2>7 DEF CallerStep
<1>12. CASE UNCHANGED vars
  BY <1>12
<1> QED
  BY <1>1, <1>2, <1>3, <1>4, <1>5, <1>6, <1>7, <1>8, <1>9, <1>10, <1>11, <1>12
     DEF Next, RunStep

-----------------------------------------------------------------------------
(* Capacity.                                                               *)

\* Initially nothing is reserved.
LEMMA CapacityInit == Init => CapacityAccounted
<1> SUFFICES ASSUME Init PROVE CapacityAccounted
  OBVIOUS
<1>1. Preparing = {}
  BY DEF Init, Preparing
<1> QED
  BY <1>1, FS_EmptySet, MaxQueuePositive DEF Init, CapacityAccounted

\* A step keeps reservations equal to the number of preparing calls and the
\* queue within its limit: only EnqueueReserve, EnqueuePrepareFails and
\* EnqueueAppend change either, and the queue otherwise only shrinks.
LEMMA CapacityStep ==
  ASSUME TypeOK, CapacityAccounted, [Next]_vars
  PROVE  CapacityAccounted'
<1> USE DEF TypeOK
<1>0. IsFiniteSet(Preparing) /\ Cardinality(Preparing) \in Nat
  BY RequestsFinite, FS_Subset, FS_CardinalityType DEF Preparing
<1>1. ASSUME UNCHANGED <<call, reservations>>,
             queue' = queue \/ queue' = << >> \/ (queue # << >> /\ queue' = Tail(queue))
      PROVE  CapacityAccounted'
  <2>1. Preparing' = Preparing
    BY <1>1 DEF Preparing
  <2>2. Len(queue') \in Nat /\ Len(queue') <= Len(queue)
    BY <1>1, HeadTailProperties, LenProperties, EmptySeq
  <2> QED
    BY <1>1, <2>1, <2>2, MaxQueuePositive, LenProperties DEF CapacityAccounted
<1>2. CASE RunStart \/ RunStep \/ UNCHANGED vars
  BY <1>1, <1>2
     DEF RunStart, RunStep, RunStop, RunTimer, DispatchCoverFails, DispatchTakeSlot,
         DispatchPollFails, DispatchSend, RunReturn, FailQueued, FailQueuedNext
<1>3. ASSUME NEW r \in Requests, CallerStep(r) \/ Expire(r)
      PROVE  CapacityAccounted'
  <2>1. CASE EnqueueReserve(r)
    <3>1. r \notin Preparing /\ Preparing' = Preparing \cup {r}
      BY <2>1 DEF EnqueueReserve, Preparing
    <3>2. Cardinality(Preparing') = Cardinality(Preparing) + 1
      BY <1>0, <3>1, FS_AddElement
    <3> QED
      BY <2>1, <3>2, LenProperties, MaxQueuePositive
         DEF EnqueueReserve, CanReserve, CapacityAccounted
  <2>2. CASE EnqueueRefuse(r)
    <3>1. Preparing' = Preparing
      BY <2>2 DEF EnqueueRefuse, Preparing
    <3> QED
      BY <2>2, <3>1 DEF EnqueueRefuse, CapacityAccounted
  <2>3. ASSUME call[r] = "preparing", call'[r] # "preparing",
               \A q \in Requests \ {r} : call'[q] = call[q]
        PROVE  Cardinality(Preparing') = Cardinality(Preparing) - 1
    <3>1. r \in Preparing /\ Preparing' = Preparing \ {r}
      BY <2>3 DEF Preparing
    <3> QED
      BY <1>0, <3>1, FS_RemoveElement
  <2>4. CASE EnqueuePrepareFails(r)
    <3>1. Cardinality(Preparing') = Cardinality(Preparing) - 1
      BY <2>3, <2>4 DEF EnqueuePrepareFails
    <3> QED
      BY <1>0, <2>4, <3>1, LenProperties, MaxQueuePositive
         DEF EnqueuePrepareFails, CapacityAccounted
  <2>5. CASE EnqueueAppend(r)
    <3>1. Cardinality(Preparing') = Cardinality(Preparing) - 1
      BY <2>3, <2>5 DEF EnqueueAppend
    <3>2. Len(queue) \in Nat /\ Len(queue') \in Nat /\ Len(queue') <= Len(queue) + 1
      BY <2>5, LenProperties, AppendProperties DEF EnqueueAppend
    <3> QED
      BY <1>0, <2>5, <3>1, <3>2, MaxQueuePositive DEF EnqueueAppend, CapacityAccounted
  <2>6. CASE Wait(r)
    BY <1>1, <2>6 DEF Wait
  <2>7. CASE Expire(r)
    BY <1>1, <2>7 DEF Expire
  <2> QED
    BY <1>3, <2>1, <2>2, <2>4, <2>5, <2>6, <2>7 DEF CallerStep
<1> QED
  BY <1>2, <1>3 DEF Next

-----------------------------------------------------------------------------
(* Phases of Run.                                                          *)

\* Initially Run has not been called.
LEMMA PhasesInit == Init => PhasesAgree
BY DEF Init, PhasesAgree

\* A step keeps shared state and Run's locals in agreement.  An append is
\* possible only while there is no terminal error, hence not after
\* failQueued has taken the queue.
LEMMA PhasesStep ==
  ASSUME TypeOK, PhasesAgree, [Next]_vars
  PROVE  PhasesAgree'
<1> USE DEF PhasesAgree, TypeOK, Errors, RunPCs, ReturnWith
<1>1. CASE RunStart
  BY <1>1 DEF RunStart, CanStart
<1>2. CASE RunStop
  BY <1>2 DEF RunStop
<1>3. CASE RunTimer
  BY <1>3 DEF RunTimer
<1>4. CASE DispatchCoverFails
  BY <1>4 DEF DispatchCoverFails
<1>5. CASE DispatchTakeSlot
  <2>1. queue # << >> => Head(queue) \in Requests
    BY HeadTailProperties
  <2>2. queued' # << >> => ~pollSlot' /\ \E r \in Requests : queued' = <<r>>
    BY <1>5, <2>1 DEF DispatchTakeSlot
  <2> QED
    BY <1>5, <2>2 DEF DispatchTakeSlot
<1>6. CASE DispatchPollFails
  BY <1>6 DEF DispatchPollFails
<1>7. CASE DispatchSend
  <2>1. PICK outcome \in SendOutcomes : AfterSend(outcome) /\ Answer(outcome)
    BY <1>7 DEF DispatchSend
  <2>2. queued' = << >>
    BY <2>1 DEF Answer
  <2>3. \/ runPC' = "select"
        \/ runPC' = "return" /\ runErr' # Nil
    BY <2>1 DEF AfterSend, SendOutcomes
  <2> QED
    BY <1>7, <2>2, <2>3 DEF DispatchSend
<1>8. CASE RunReturn
  BY <1>8 DEF RunReturn
<1>9. CASE FailQueued
  BY <1>9 DEF FailQueued
<1>10. CASE FailQueuedNext
  BY <1>10 DEF FailQueuedNext
<1>11. ASSUME NEW r \in Requests, CallerStep(r) \/ Expire(r)
       PROVE  PhasesAgree'
  BY <1>11 DEF CallerStep, EnqueueReserve, EnqueueRefuse, EnqueuePrepareFails,
               EnqueueAppend, Wait, Expire
<1>12. CASE UNCHANGED vars
  BY <1>12
<1> QED
  BY <1>1, <1>2, <1>3, <1>4, <1>5, <1>6, <1>7, <1>8, <1>9, <1>10, <1>11, <1>12
     DEF Next, RunStep

-----------------------------------------------------------------------------
(* Accounting of tickets.                                                  *)

\* Initially there are no tickets.
LEMMA AccountedInit == Init => TicketsAccounted
BY DEF Init, TicketsAccounted

\* A step keeps the accepted requests equal to the answered ones, the taken
\* one, the drained ones and the queue.
LEMMA AccountedStep ==
  ASSUME TypeOK, PhasesAgree, TicketsAccounted, [Next]_vars
  PROVE  TicketsAccounted'
<1> USE DEF TypeOK
<1>0. /\ \A s \in Seq(Requests) : s \o << >> = s /\ << >> \o s = s
      /\ << >> \in Seq(Requests)
  BY ConcatEmptySeq, EmptySeq
<1>1. ASSUME UNCHANGED <<accepted, resolved, queued, draining, queue>>
      PROVE  TicketsAccounted'
  BY <1>1 DEF TicketsAccounted
<1>2. CASE RunStart \/ RunStop \/ RunTimer \/ DispatchCoverFails \/ DispatchPollFails
           \/ RunReturn \/ UNCHANGED vars
  BY <1>1, <1>2
     DEF RunStart, RunStop, RunTimer, DispatchCoverFails, DispatchPollFails, RunReturn
<1>3. CASE DispatchTakeSlot
  <2>1. queued = << >> /\ draining = << >> /\ runPC = "cover"
    BY <1>3 DEF DispatchTakeSlot, PhasesAgree
  <2>2. accepted = resolved \o queue
    BY <1>0, <2>1 DEF TicketsAccounted
  <2>3. CASE pollSlot' \/ queue = << >>
    BY <1>1, <1>3, <2>3 DEF DispatchTakeSlot
  <2>4. CASE ~(pollSlot' \/ queue = << >>)
    <3>1. /\ Head(queue) \in Requests
          /\ Tail(queue) \in Seq(Requests)
          /\ Append(resolved, Head(queue)) \in Seq(Requests)
          /\ Append(resolved, Head(queue)) = resolved \o <<Head(queue)>>
      BY <2>4, HeadTailProperties, AppendProperties, AppendIsConcat
    <3>2. accepted = Append(resolved, Head(queue)) \o Tail(queue)
      BY <2>2, <2>4, MoveHead
    <3>3. resolved' \o queued' = Append(resolved, Head(queue))
      BY <1>0, <1>3, <2>1, <2>4, <3>1 DEF DispatchTakeSlot
    <3>4. UNCHANGED <<accepted, draining>> /\ queue' = Tail(queue)
      BY <1>3, <2>4 DEF DispatchTakeSlot
    <3> QED
      BY <1>0, <2>1, <3>1, <3>2, <3>3, <3>4 DEF TicketsAccounted
  <2> QED
    BY <2>3, <2>4
<1>4. CASE DispatchSend
  <2>1. PICK outcome \in SendOutcomes : AfterSend(outcome) /\ Answer(outcome)
    BY <1>4 DEF DispatchSend
  <2>2. CASE queued = << >>
    BY <1>1, <1>4, <2>1, <2>2 DEF DispatchSend, Answer
  <2>3. CASE queued # << >>
    <3>1. PICK r \in Requests : queued = <<r>>
      BY <2>3 DEF PhasesAgree
    <3>2. resolved' = Append(resolved, r) /\ queued' = << >>
      BY <2>1, <2>3, <3>1 DEF Answer
    <3>3. resolved' \in Seq(Requests) /\ resolved' = resolved \o queued
      BY <3>1, <3>2, AppendProperties, AppendIsConcat
    <3> QED
      BY <1>0, <1>4, <3>2, <3>3 DEF DispatchSend, TicketsAccounted
  <2> QED
    BY <2>2, <2>3
<1>5. CASE FailQueued
  <2>1. queued = << >> /\ draining = << >>
    BY <1>5 DEF FailQueued, PhasesAgree
  <2>2. resolved \o queue \in Seq(Requests)
    BY ConcatProperties
  <2> QED
    BY <1>0, <1>5, <2>1, <2>2 DEF FailQueued, TicketsAccounted
<1>6. CASE FailQueuedNext
  <2>1. queued = << >> /\ queue = << >>
    BY <1>6 DEF FailQueuedNext, PhasesAgree
  <2>2. /\ Head(draining) \in Requests
        /\ Tail(draining) \in Seq(Requests)
        /\ Append(resolved, Head(draining)) \in Seq(Requests)
    BY <1>6, HeadTailProperties, AppendProperties DEF FailQueuedNext
  <2>3. resolved \o draining \in Seq(Requests)
    BY ConcatProperties
  <2>4. Append(resolved, Head(draining)) \o Tail(draining) = resolved \o draining
    BY <1>6, MoveHead DEF FailQueuedNext
  <2> QED
    BY <1>0, <1>6, <2>1, <2>2, <2>3, <2>4 DEF FailQueuedNext, TicketsAccounted
<1>7. ASSUME NEW r \in Requests, CallerStep(r) \/ Expire(r)
      PROVE  TicketsAccounted'
  <2>1. CASE EnqueueAppend(r) /\ terminalErr = Nil
    <3>1. resolved \o queued \o draining \in Seq(Requests)
      BY ConcatProperties
    <3>2. Append((resolved \o queued \o draining) \o queue, r)
            = (resolved \o queued \o draining) \o Append(queue, r)
      BY <3>1, AppendBehind
    <3> QED
      BY <2>1, <3>1, <3>2 DEF EnqueueAppend, TicketsAccounted
  <2>2. CASE ~(EnqueueAppend(r) /\ terminalErr = Nil)
    BY <1>1, <1>7, <2>2
       DEF CallerStep, EnqueueReserve, EnqueueRefuse, EnqueuePrepareFails,
           EnqueueAppend, Wait, Expire
  <2> QED
    BY <2>1, <2>2
<1> QED
  BY <1>2, <1>3, <1>4, <1>5, <1>6, <1>7 DEF Next, RunStep

-----------------------------------------------------------------------------
(* Results.                                                                *)

\* Initially there are neither tickets nor results.
LEMMA ResultsInit == Init => ResultsAgree
BY DEF Init, ResultsAgree

\* A step keeps tickets and accepted requests the same and gives a result
\* to every request it answers.
LEMMA ResultsStep ==
  ASSUME TypeOK, PhasesAgree, ResultsAgree, [Next]_vars
  PROVE  ResultsAgree'
<1> USE DEF TypeOK
<1>1. ASSUME UNCHANGED <<call, accepted, resolved, result>>
      PROVE  ResultsAgree'
  BY <1>1 DEF ResultsAgree
<1>2. ASSUME NEW r \in Requests, NEW v, v # "empty",
             UNCHANGED <<call, accepted>>,
             resolved' = Append(resolved, r),
             result' = [result EXCEPT ![r] = v]
      PROVE  ResultsAgree'
  <2>1. /\ Len(resolved') = Len(resolved) + 1
        /\ \A i \in 1..Len(resolved) : resolved'[i] = resolved[i]
        /\ resolved'[Len(resolved) + 1] = r
    BY <1>2, AppendProperties
  <2>2. \A i \in 1..Len(resolved) : resolved[i] \in Requests
    BY ElementOfSeq
  <2>3. Len(resolved) \in Nat
    BY LenProperties
  <2>4. ASSUME NEW i \in 1..Len(resolved')
        PROVE  result'[resolved'[i]] # "empty"
    <3>1. CASE i \in 1..Len(resolved)
      BY <1>2, <2>1, <2>2, <3>1 DEF ResultsAgree
    <3>2. CASE i = Len(resolved) + 1
      BY <1>2, <2>1, <3>2
    <3> QED
      BY <2>1, <2>3, <3>1, <3>2
  <2> QED
    BY <1>2, <2>4 DEF ResultsAgree
<1>3. CASE RunStart \/ RunStop \/ RunTimer \/ DispatchCoverFails \/ DispatchPollFails
           \/ RunReturn \/ FailQueued \/ UNCHANGED vars
  BY <1>1, <1>3
     DEF RunStart, RunStop, RunTimer, DispatchCoverFails, DispatchPollFails, RunReturn,
         FailQueued
<1>4. CASE DispatchTakeSlot
  <2>1. queue # << >> => Head(queue) \in Requests
    BY HeadTailProperties
  <2>2. CASE ~(pollSlot' \/ queue = << >>) /\ Head(queue) \in now
    BY <1>2, <1>4, <2>1, <2>2 DEF DispatchTakeSlot
  <2>3. CASE ~(~(pollSlot' \/ queue = << >>) /\ Head(queue) \in now)
    BY <1>1, <1>4, <2>3 DEF DispatchTakeSlot
  <2> QED
    BY <2>2, <2>3
<1>5. CASE DispatchSend
  <2>1. PICK outcome \in SendOutcomes : Answer(outcome)
    BY <1>5 DEF DispatchSend
  <2>2. CASE queued = << >>
    BY <1>1, <1>5, <2>1, <2>2 DEF DispatchSend, Answer
  <2>3. CASE queued # << >>
    <3>1. Head(queued) \in Requests
      BY <2>3, HeadTailProperties
    <3>2. resolved' = Append(resolved, Head(queued)) /\ UNCHANGED <<call, accepted>>
      BY <1>5, <2>1, <2>3 DEF Answer, DispatchSend
    <3>3. result' = [result EXCEPT ![Head(queued)] =
                       IF outcome = "failed" THEN "failed" ELSE "sent"]
      BY <2>1, <2>3 DEF Answer
    <3> QED
      BY <1>2, <3>1, <3>2, <3>3
  <2> QED
    BY <2>2, <2>3
<1>6. CASE FailQueuedNext
  <2>1. Head(draining) \in Requests
    BY <1>6, HeadTailProperties DEF FailQueuedNext
  <2> QED
    BY <1>2, <1>6, <2>1 DEF FailQueuedNext
<1>7. ASSUME NEW r \in Requests, CallerStep(r) \/ Expire(r)
      PROVE  ResultsAgree'
  <2>1. CASE EnqueueAppend(r) /\ terminalErr = Nil
    <3>1. /\ Len(accepted') = Len(accepted) + 1
          /\ Len(accepted) \in Nat
          /\ \A i \in 1..Len(accepted) : accepted'[i] = accepted[i]
          /\ accepted'[Len(accepted) + 1] = r
      BY <2>1, AppendProperties, LenProperties DEF EnqueueAppend
    <3>2. ASSUME NEW q \in Requests
          PROVE  call'[q] = "ticket" <=> \E i \in 1..Len(accepted') : accepted'[i] = q
      <4>1. CASE q = r
        <5>1. call'[q] = "ticket"
          BY <2>1, <4>1 DEF EnqueueAppend
        <5>2. Len(accepted) + 1 \in 1..Len(accepted')
          BY <3>1
        <5> QED
          BY <3>1, <4>1, <5>1, <5>2
      <4>2. CASE q # r
        <5>1. call'[q] = call[q]
          BY <2>1, <4>2 DEF EnqueueAppend
        <5>2. ASSUME NEW i \in 1..Len(accepted'), accepted'[i] = q
              PROVE  \E j \in 1..Len(accepted) : accepted[j] = q
          <6>1. i # Len(accepted) + 1
            BY <3>1, <4>2, <5>2
          <6>2. i \in 1..Len(accepted)
            BY <3>1, <6>1
          <6> QED
            BY <3>1, <5>2, <6>2
        <5>3. ASSUME NEW i \in 1..Len(accepted), accepted[i] = q
              PROVE  \E j \in 1..Len(accepted') : accepted'[j] = q
          <6>1. i \in 1..Len(accepted')
            BY <3>1
          <6> QED
            BY <3>1, <5>3, <6>1
        <5> QED
          BY <5>1, <5>2, <5>3 DEF ResultsAgree
      <4> QED
        BY <4>1, <4>2
    <3> QED
      BY <2>1, <3>2 DEF EnqueueAppend, ResultsAgree
  <2>2. CASE Wait(r)
    <3>1. \A i \in 1..Len(resolved) : resolved[i] \in Requests
      BY ElementOfSeq
    <3> QED
      BY <2>2, <3>1 DEF Wait, ResultsAgree
  <2>3. CASE ~(EnqueueAppend(r) /\ terminalErr = Nil) /\ ~Wait(r)
    <3>1. UNCHANGED <<accepted, resolved, result>>
      BY <1>7, <2>3
         DEF CallerStep, EnqueueReserve, EnqueueRefuse, EnqueuePrepareFails,
             EnqueueAppend, Expire
    <3>2. \A q \in Requests : call'[q] = "ticket" <=> call[q] = "ticket"
      BY <1>7, <2>3
         DEF CallerStep, EnqueueReserve, EnqueueRefuse, EnqueuePrepareFails,
             EnqueueAppend, Expire
    <3> QED
      BY <3>1, <3>2 DEF ResultsAgree
  <2> QED
    BY <2>1, <2>2, <2>3
<1> QED
  BY <1>3, <1>4, <1>5, <1>6, <1>7 DEF Next, RunStep

-----------------------------------------------------------------------------
(* The invariant and the theorems.                                         *)

\* Every reachable state satisfies the inductive invariant.
THEOREM Invariance == Spec => []IInv
<1>1. Init => IInv
  BY TypeInit, CapacityInit, PhasesInit, AccountedInit, ResultsInit DEF IInv
<1>2. IInv /\ [Next]_vars => IInv'
  BY TypeStep, CapacityStep, PhasesStep, AccountedStep, ResultsStep DEF IInv
<1> QED
  BY <1>1, <1>2, PTL DEF Spec

\* Type correctness.
THEOREM TypeCorrect == Spec => []TypeOK
<1>1. IInv => TypeOK
  BY DEF IInv
<1> QED
  BY <1>1, Invariance, PTL

\* Enqueue never exceeds MaxQueue and never leaks a reservation.
THEOREM CapacitySafe == Spec => []CapacityAccounted
<1>1. IInv => CapacityAccounted
  BY DEF IInv
<1> QED
  BY <1>1, Invariance, PTL

\* No ticket is lost, answered twice or answered out of order.
THEOREM AccountingSafe == Spec => []TicketsAccounted
<1>1. IInv => TicketsAccounted
  BY DEF IInv
<1> QED
  BY <1>1, Invariance, PTL

\* When Run has ended, every ticket has a result.
THEOREM NothingStranded == Spec => []NoStrandedTicket
<1>1. IInv => NoStrandedTicket
  <2> SUFFICES ASSUME IInv, RunEnded, NEW r \in Requests, call[r] = "ticket"
               PROVE  result[r] # "empty"
    BY DEF NoStrandedTicket
  <2>1. queued = << >> /\ queue = << >> /\ draining = << >>
    BY DEF IInv, PhasesAgree, RunEnded
  <2>2. accepted = resolved
    BY <2>1 DEF IInv, TicketsAccounted, TypeOK
  <2> QED
    BY <2>2 DEF IInv, ResultsAgree
<1> QED
  BY <1>1, Invariance, PTL

\* An ended scheduler stays ended.
THEOREM EndedForGood == Spec => StaysEnded
<1>1. IInv /\ [Next]_vars =>
        [terminalErr # Nil =>
           UNCHANGED <<terminalErr, running, slots, accepted, sincePoll>>]_vars
  <2> SUFFICES ASSUME IInv, Next, terminalErr # Nil
               PROVE  UNCHANGED <<terminalErr, running, slots, accepted, sincePoll>>
    OBVIOUS
  <2>1. runPC \in {"fail", "drain"} /\ ~CanStart
    BY DEF IInv, PhasesAgree, CanStart
  <2> QED
    BY <2>1
       DEF Next, RunStart, RunStep, RunStop, RunTimer, DispatchCoverFails,
           DispatchTakeSlot, DispatchPollFails, DispatchSend, RunReturn, FailQueued,
           FailQueuedNext, CallerStep, EnqueueReserve, EnqueueRefuse,
           EnqueuePrepareFails, EnqueueAppend, Wait, Expire
<1> QED
  BY <1>1, Invariance, PTL DEF Spec, StaysEnded

-----------------------------------------------------------------------------
(* Refinement of the ticket service.                                       *)

\* Every step of the scheduler is a step of the ticket service or leaves
\* its variables unchanged.
LEMMA StepRefines ==
  ASSUME IInv, Next
  PROVE  [Tickets!Next]_(Tickets!vars)
<1> USE DEF Tickets!vars, Tickets!Next
<1>1. ASSUME UNCHANGED <<accepted, resolved, terminalErr>>,
             runPC # "idle", runPC' # "idle"
      PROVE  UNCHANGED Tickets!vars
  BY <1>1
<1>2. ASSUME UNCHANGED <<accepted, terminalErr>>,
             runPC # "idle", runPC' # "idle", NEW q \in Seq(Requests), q # << >>,
             resolved' = Append(resolved, Head(q)),
             accepted = resolved \o q
      PROVE  Tickets!Resolve
  <2>1. /\ Len(resolved) < Len(accepted)
        /\ accepted[Len(resolved) + 1] = Head(q)
    BY <1>2 DEF IInv, TypeOK
  <2> QED
    BY <1>2, <2>1 DEF Tickets!Resolve
<1>3. CASE RunStart
  <2>1. runPC = "idle" /\ runPC' = "select" /\ UNCHANGED <<accepted, resolved, terminalErr>>
    BY <1>3 DEF RunStart, CanStart, IInv, PhasesAgree, TypeOK, RunPCs
  <2> QED
    BY <2>1 DEF Tickets!Start
<1>4. CASE RunStop \/ RunTimer \/ DispatchCoverFails \/ DispatchPollFails \/ FailQueued
  BY <1>1, <1>4
     DEF RunStop, RunTimer, DispatchCoverFails, DispatchPollFails, FailQueued, ReturnWith
<1>5. CASE DispatchTakeSlot
  <2>1. queued = << >> /\ draining = << >> /\ runPC = "cover" /\ runPC' = "send"
    BY <1>5 DEF DispatchTakeSlot, IInv, PhasesAgree
  <2>2. accepted = resolved \o queue
    BY <2>1 DEF IInv, TicketsAccounted, TypeOK
  <2>3. CASE ~(pollSlot' \/ queue = << >>) /\ Head(queue) \in now
    BY <1>2, <1>5, <2>1, <2>2, <2>3 DEF DispatchTakeSlot, IInv, TypeOK
  <2>4. CASE ~(~(pollSlot' \/ queue = << >>) /\ Head(queue) \in now)
    BY <1>1, <1>5, <2>1, <2>4 DEF DispatchTakeSlot
  <2> QED
    BY <2>3, <2>4
<1>6. CASE DispatchSend
  <2>1. PICK outcome \in SendOutcomes : AfterSend(outcome) /\ Answer(outcome)
    BY <1>6 DEF DispatchSend
  <2>2. runPC = "send" /\ runPC' # "idle" /\ UNCHANGED <<accepted, terminalErr>>
    BY <1>6, <2>1 DEF DispatchSend, AfterSend, SendOutcomes, ReturnWith
  <2>3. CASE queued = << >>
    BY <1>1, <2>1, <2>2, <2>3 DEF Answer
  <2>4. CASE queued # << >>
    <3>1. PICK r \in Requests : queued = <<r>>
      BY <2>4 DEF IInv, PhasesAgree
    <3>2. draining = << >>
      BY <2>2 DEF IInv, PhasesAgree
    <3>3. /\ <<r>> \o queue \in Seq(Requests)
          /\ <<r>> \o queue # << >>
          /\ Head(<<r>> \o queue) = r
      BY DEF IInv, TypeOK
    <3>4. accepted = resolved \o (<<r>> \o queue)
      BY <3>1, <3>2 DEF IInv, TicketsAccounted, TypeOK
    <3>5. resolved' = Append(resolved, r)
      BY <2>1, <2>4, <3>1 DEF Answer
    <3> QED
      BY <1>2, <2>2, <3>3, <3>4, <3>5
  <2> QED
    BY <2>3, <2>4
<1>7. CASE RunReturn
  <2>1. /\ runPC = "return" /\ runPC' = "fail"
        /\ terminalErr = Nil /\ terminalErr' # Nil
        /\ UNCHANGED <<accepted, resolved>>
    BY <1>7 DEF RunReturn, IInv, PhasesAgree
  <2> QED
    BY <2>1 DEF Tickets!Close
<1>8. CASE FailQueuedNext
  <2>1. queued = << >> /\ queue = << >>
    BY <1>8 DEF FailQueuedNext, IInv, PhasesAgree
  <2>2. accepted = resolved \o draining
    BY <2>1 DEF IInv, TicketsAccounted, TypeOK
  <2> QED
    BY <1>2, <1>8, <2>2 DEF FailQueuedNext, IInv, TypeOK
<1>9. ASSUME NEW r \in Requests, CallerStep(r) \/ Expire(r)
      PROVE  [Tickets!Next]_(Tickets!vars)
  <2>1. CASE EnqueueAppend(r) /\ terminalErr = Nil
    <3>1. \A i \in 1..Len(accepted) : accepted[i] # r
      BY <2>1 DEF EnqueueAppend, IInv, ResultsAgree
    <3>2. Tickets!Accept(r)
      BY <2>1, <3>1 DEF EnqueueAppend, Tickets!Accept
    <3> QED
      BY <3>2
  <2>2. CASE ~(EnqueueAppend(r) /\ terminalErr = Nil)
    <3>1. UNCHANGED <<accepted, resolved, terminalErr, runPC>>
      BY <1>9, <2>2
         DEF CallerStep, EnqueueReserve, EnqueueRefuse, EnqueuePrepareFails,
             EnqueueAppend, Wait, Expire
    <3> QED
      BY <3>1
  <2> QED
    BY <2>1, <2>2
<1> QED
  BY <1>3, <1>4, <1>5, <1>6, <1>7, <1>8, <1>9 DEF Next, RunStep

\* The scheduler implements the safety part of the ticket service.
THEOREM Refinement == Spec => Tickets!Safety
<1>1. Init => Tickets!Init
  BY DEF Init, Tickets!Init
<1>2. IInv /\ [Next]_vars => [Tickets!Next]_(Tickets!vars)
  <2>1. UNCHANGED vars => UNCHANGED Tickets!vars
    BY DEF Tickets!vars
  <2> QED
    BY <2>1, StepRefines
<1> QED
  BY <1>1, <1>2, Invariance, PTL DEF Spec, Tickets!Safety
-----------------------------------------------------------------------------
(* The poll cadence.                                                       *)

\* Quotient and remainder determine each other.
LEMMA SameRemainder ==
  ASSUME NEW P \in Nat \ {0}, NEW s \in Nat, NEW q \in Nat, NEW r \in 0..(P - 1), s = P * q + r
  PROVE  s % P = r
<1> DEFINE p == s \div P
           t == s % P
<1>1. t \in 0..(P - 1) /\ p \in Nat /\ s = P * p + t
  OBVIOUS
<1> HIDE DEF p, t
<1>2. P * (p - q) = r - t /\ P * (q - p) = t - r
  BY <1>1
<1>3. CASE p - q >= 1
  <2>1. P * (p - q) >= P
    BY <1>1, <1>3
  <2> QED BY <1>1, <1>2, <2>1
<1>4. CASE q - p >= 1
  <2>1. P * (q - p) >= P
    BY <1>1, <1>4
  <2> QED BY <1>1, <1>2, <2>1
<1>5. CASE p = q
  <2>1. P * (p - q) = 0
    BY <1>1, <1>5
  <2> QED BY <1>1, <1>2, <2>1 DEF t
<1> QED BY <1>1, <1>3, <1>4, <1>5

\* The remainder counts up and starts again at zero.
LEMMA NextRemainder ==
  ASSUME NEW P \in Nat \ {0, 1}, NEW s \in Nat
  PROVE  s % P \in 0..(P - 1) /\ (s + 1) % P = IF s % P = P - 1 THEN 0 ELSE (s % P) + 1
<1> DEFINE q == s \div P
           r == s % P
<1>1. r \in 0..(P - 1) /\ q \in Nat /\ s = P * q + r
  OBVIOUS
<1> HIDE DEF q, r
<1>2. CASE r = P - 1
  <2>1. s + 1 = P * (q + 1) + 0 /\ s + 1 \in Nat /\ q + 1 \in Nat /\ 0 \in 0..(P - 1)
    BY <1>1, <1>2
  <2>2. (s + 1) % P = 0
    BY <2>1, SameRemainder
  <2> QED BY <1>1, <1>2, <2>2 DEF r
<1>3. CASE r # P - 1
  <2>1. s + 1 = P * q + (r + 1) /\ s + 1 \in Nat /\ r + 1 \in 0..(P - 1)
    BY <1>1, <1>3
  <2>2. (s + 1) % P = r + 1
    BY <1>1, <2>1, SameRemainder
  <2> QED BY <1>1, <1>3, <2>2 DEF r
<1> QED BY <1>2, <1>3

\* The packets since the last poll are the slots since the last multiple of
\* PollEverySlots, one less while a slot is counted and its packet not sent.
Cadence ==
  /\ sincePoll \in 0..(PollEverySlots - 1)
  /\ slots \in 0..(SlotWrap - 1)
  /\ runPC \in {"idle", "select", "cover"} => slots % PollEverySlots = sincePoll
  /\ runPC = "send" =>
       /\ pollSlot <=> slots % PollEverySlots = 0
       /\ slots % PollEverySlots = IF sincePoll = PollEverySlots - 1 THEN 0 ELSE sincePoll + 1

\* The slot counter does not come round, or comes round in step.
InStep == SlotWrap % PollEverySlots = 0 \/ slots + 1 < SlotWrap

\* Initially no slot is counted and no packet sent.
LEMMA CadenceInit == Init => Cadence
<1> SUFFICES ASSUME Init PROVE Cadence
  OBVIOUS
<1>1. 0 = PollEverySlots * 0 + 0 /\ 0 \in 0..(PollEverySlots - 1)
  BY PollEverySlotsAtLeastTwo
<1>2. 0 % PollEverySlots = 0
  BY <1>1, PollEverySlotsAtLeastTwo, SameRemainder
<1> QED BY <1>1, <1>2, SlotWrapPositive DEF Init, Cadence

\* Counting a slot goes one on, also where the counter comes round.
LEMMA SlotCounted ==
  ASSUME slots \in 0..(SlotWrap - 1), InStep
  PROVE  /\ (slots + 1) % SlotWrap \in 0..(SlotWrap - 1)
         /\ ((slots + 1) % SlotWrap) % PollEverySlots = (slots + 1) % PollEverySlots
<1>0. slots \in Nat /\ slots + 1 \in Nat /\ 0 \in 0..(SlotWrap - 1)
  BY SlotWrapPositive
<1>1. CASE slots + 1 < SlotWrap
  <2>1. slots + 1 = SlotWrap * 0 + (slots + 1) /\ slots + 1 \in 0..(SlotWrap - 1)
    BY <1>0, <1>1, SlotWrapPositive
  <2>2. (slots + 1) % SlotWrap = slots + 1
    BY <1>0, <2>1, SlotWrapPositive, SameRemainder
  <2> QED BY <2>1, <2>2
<1>2. CASE ~(slots + 1 < SlotWrap)
  <2>1. slots + 1 = SlotWrap /\ SlotWrap % PollEverySlots = 0
    BY <1>0, <1>2, SlotWrapPositive DEF InStep
  <2>2. slots + 1 = SlotWrap * 1 + 0
    BY <1>0, <2>1
  <2>3. (slots + 1) % SlotWrap = 0
    BY <1>0, <2>2, SlotWrapPositive, SameRemainder
  <2>4. 0 = PollEverySlots * 0 + 0 /\ 0 \in 0..(PollEverySlots - 1)
    BY PollEverySlotsAtLeastTwo
  <2>5. 0 % PollEverySlots = 0
    BY <2>4, PollEverySlotsAtLeastTwo, SameRemainder
  <2> QED BY <1>0, <2>1, <2>3, <2>5
<1> QED BY <1>1, <1>2

\* A step keeps the cadence.
LEMMA CadenceStep ==
  ASSUME IInv, Cadence, InStep, [Next]_vars
  PROVE  Cadence'
<1>1. CASE RunStart
  <2>1. runPC = "idle"
    BY <1>1 DEF RunStart, CanStart, IInv, PhasesAgree, TypeOK, RunPCs
  <2> QED BY <1>1, <2>1 DEF RunStart, Cadence
<1>2. CASE DispatchTakeSlot
  <2>1. /\ slots' \in 0..(SlotWrap - 1)
        /\ slots' % PollEverySlots = (slots + 1) % PollEverySlots
    BY <1>2, SlotCounted DEF DispatchTakeSlot, Cadence
  <2>2. slots % PollEverySlots = sincePoll /\ slots \in Nat
    BY <1>2 DEF DispatchTakeSlot, Cadence, IInv, TypeOK
  <2>3. slots' % PollEverySlots = IF sincePoll = PollEverySlots - 1 THEN 0 ELSE sincePoll + 1
    BY <2>1, <2>2, PollEverySlotsAtLeastTwo, NextRemainder
  <2>4. /\ pollSlot' <=> slots' % PollEverySlots = 0
        /\ runPC' = "send" /\ sincePoll' = sincePoll
    BY <1>2 DEF DispatchTakeSlot, IsPollSlot
  <2> QED BY <2>1, <2>3, <2>4 DEF Cadence
<1>3. CASE DispatchSend
  <2>1. /\ sincePoll' = IF pollSlot THEN 0 ELSE sincePoll + 1
        /\ slots' = slots /\ runPC' \in {"select", "return"} /\ runPC = "send"
    BY <1>3 DEF DispatchSend, AfterSend, SendOutcomes, ReturnWith
  <2>2. sincePoll' = slots % PollEverySlots /\ sincePoll' \in 0..(PollEverySlots - 1)
    BY <2>1, PollEverySlotsAtLeastTwo DEF Cadence
  <2> QED BY <2>1, <2>2 DEF Cadence
<1>4. CASE /\ UNCHANGED <<slots, sincePoll, pollSlot>>
           /\ (runPC' = runPC \/ (runPC = "select" /\ runPC' = "cover") \/ runPC' \in {"return", "fail", "drain"})
  BY <1>4 DEF Cadence
<1> QED
  BY <1>1, <1>2, <1>3, <1>4 DEF Next, RunStep, CallerStep, RunStop, RunTimer, DispatchCoverFails, DispatchPollFails,
     RunReturn, FailQueued, FailQueuedNext, ReturnWith, EnqueueReserve, EnqueueRefuse, EnqueuePrepareFails,
     EnqueueAppend, Wait, Expire

\* A poll is sent in every PollEverySlots-th slot and in no other, for any
\* rate of polls and whatever the queue holds, until the 64-bit counter
\* comes round; beyond it if the rate divides the counter's range.
THEOREM PollsInCadence == Spec /\ []InStep => []PollCadence
<1>1. IInv /\ Cadence /\ InStep /\ [Next]_vars => Cadence'
  BY CadenceStep
<1>2. Cadence => PollCadence
  BY PollEverySlotsAtLeastTwo DEF Cadence, PollCadence
<1> QED BY <1>1, <1>2, CadenceInit, Invariance, PTL DEF Spec
=============================================================================
