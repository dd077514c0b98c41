---------------------------- MODULE MixScheduler ----------------------------
(***************************************************************************)
(* The constant-rate ENIG-Mix scheduler, mixtransport/scheduler.go.        *)
(*                                                                         *)
(* Application goroutines call Enqueue; one goroutine executes Run.  They  *)
(* share queue, reservations, slots, running and terminalErr under the     *)
(* mutex mu, so one action is one critical section together with the       *)
(* unlocked work that follows it and that nobody else can observe.         *)
(*                                                                         *)
(* Abstractions: a request stands for one call of Enqueue with its queued  *)
(* packet, its ticket and the ticket's result channel of capacity one; an  *)
(* error is its class; the clock is the set of requests whose ExpiresAt    *)
(* has passed.  The packet provider and the packet sink are external: each *)
(* of their calls may succeed or fail.                                     *)
(***************************************************************************)
EXTENDS Naturals, Sequences, FiniteSets

CONSTANTS
  Requests,         \* the calls of Enqueue
  MaxQueue,         \* Config.MaxQueue
  PollEverySlots,   \* Config.PollEverySlots, 6 in the reference schedule
  SlotWrap          \* the modulus of the uint64 slot counter, 2^64

ASSUME RequestsFinite == IsFiniteSet(Requests)
ASSUME MaxQueuePositive == MaxQueue \in Nat \ {0}
ASSUME PollEverySlotsAtLeastTwo == PollEverySlots \in Nat \ {0, 1}
ASSUME SlotWrapPositive == SlotWrap \in Nat \ {0}

VARIABLES
  queue,            \* Scheduler.queue, FIFO
  reservations,     \* Scheduler.reservations
  slots,            \* Scheduler.slots
  running,          \* Scheduler.running
  terminalErr,      \* Scheduler.terminalErr
  call,             \* per request: the progress of its Enqueue
  result,           \* per request: the content of its result channel
  runPC,            \* the progress of Run and of the dispatchSlot it is in
  runErr,           \* Run's named result
  queued,           \* dispatchSlot's queued: no request or one
  pollSlot,         \* dispatchSlot's pollSlot
  now,              \* the requests expired at the time Run read for the slot
  draining,         \* the local queue of failQueued
  expired,          \* the clock: requests whose ExpiresAt has passed
  accepted,         \* history: requests in the order they were queued
  resolved,         \* history: requests in the order their result was sent
  sincePoll         \* history: packets sent since the last poll

shared == <<queue, reservations, slots, running, terminalErr>>
runLocal == <<runPC, runErr, queued, pollSlot, now, draining>>
history == <<accepted, resolved, sincePoll>>
vars == <<shared, call, result, runLocal, expired, history>>

Nil == "nil"

\* What Run returns: ctx.Err(), ErrScheduleDiscontinuity, the error of dispatchSlot.
Errors == {"ctx", "schedule", "slot"}

Init ==
  /\ queue = << >>
  /\ reservations = 0
  /\ slots = 0
  /\ running = FALSE
  /\ terminalErr = Nil
  /\ call = [r \in Requests |-> "new"]
  /\ result = [r \in Requests |-> "empty"]
  /\ runPC = "idle"
  /\ runErr = Nil
  /\ queued = << >>
  /\ pollSlot = FALSE
  /\ now = {}
  /\ draining = << >>
  /\ expired = {}
  /\ accepted = << >>
  /\ resolved = << >>
  /\ sincePoll = 0

-----------------------------------------------------------------------------
(* The clock and the ticket holder.                                        *)

\* The clock passes ExpiresAt of a request.
Expire(r) ==
  /\ r \notin expired
  /\ expired' = expired \cup {r}
  /\ UNCHANGED <<shared, call, result, runLocal, history>>

\* Ticket.Wait receives from the result channel.
Wait(r) ==
  /\ call[r] = "ticket"
  /\ result[r] \in {"sent", "expired", "failed"}
  /\ result' = [result EXCEPT ![r] = "taken"]
  /\ UNCHANGED <<shared, call, runLocal, expired, history>>

-----------------------------------------------------------------------------
(* Enqueue.  ValidateCommand compares ExpiresAt with a time the caller     *)
(* supplies, so even a request that has expired may enter.                 *)

CanReserveUncounted == terminalErr = Nil /\ Len(queue) < MaxQueue

CanReserve == terminalErr = Nil /\ Len(queue) + reservations < MaxQueue

EnqueueReserve(r) ==
  /\ call[r] = "new"
  /\ CanReserve
  /\ reservations' = reservations + 1
  /\ call' = [call EXCEPT ![r] = "preparing"]
  /\ UNCHANGED <<queue, slots, running, terminalErr, result, runLocal, expired, history>>

\* The early returns before the reservation: an invalid command, the
\* terminal error, ErrQueueFull.
EnqueueRefuse(r) ==
  /\ call[r] = "new"
  /\ call' = [call EXCEPT ![r] = "error"]
  /\ UNCHANGED <<shared, result, runLocal, expired, history>>

Release == reservations' = reservations - 1

\* EncodeCommand, PrepareReal or validatePrepared fails; the deferred
\* function gives the reservation back.
EnqueuePrepareFails(r) ==
  /\ call[r] = "preparing"
  /\ Release
  /\ call' = [call EXCEPT ![r] = "error"]
  /\ UNCHANGED <<queue, slots, running, terminalErr, result, runLocal, expired, history>>

MayAppendAlways == TRUE

MayAppend == terminalErr = Nil

\* The second critical section: the reservation becomes a queue entry,
\* unless Run ended while the packet was prepared.
EnqueueAppend(r) ==
  /\ call[r] = "preparing"
  /\ Release
  /\ IF MayAppend
       THEN /\ queue' = Append(queue, r)
            /\ accepted' = Append(accepted, r)
            /\ call' = [call EXCEPT ![r] = "ticket"]
       ELSE /\ call' = [call EXCEPT ![r] = "error"]
            /\ UNCHANGED <<queue, accepted>>
  /\ UNCHANGED <<slots, running, terminalErr, result, runLocal, expired, resolved, sincePoll>>

-----------------------------------------------------------------------------
(* Run.                                                                    *)

CanStartAgain == ~running

CanStart == ~running /\ terminalErr = Nil

\* A call that finds the scheduler running or ended returns an error and
\* changes nothing.
RunStart ==
  /\ CanStart
  /\ running' = TRUE
  /\ runPC' = "select"
  /\ UNCHANGED <<queue, reservations, slots, terminalErr, call, result>>
  /\ UNCHANGED <<runErr, queued, pollSlot, now, draining, expired, history>>

\* Run executes its return statement with an error.
ReturnWith(err) == runErr' = err /\ runPC' = "return"

\* The select takes ctx.Done, or the timer fires later than MaxLateness.
RunStop ==
  /\ runPC = "select"
  /\ \E err \in {"ctx", "schedule"} : ReturnWith(err)
  /\ UNCHANGED <<shared, call, result, queued, pollSlot, now, draining, expired, history>>

\* The timer fires in time; the slot's time is read once, here.
RunTimer ==
  /\ runPC = "select"
  /\ now' = expired
  /\ runPC' = "cover"
  /\ UNCHANGED <<shared, call, result, runErr, queued, pollSlot, draining, expired, history>>

\* The deferred function: publish the terminal error, then fail the queue.
RunReturn ==
  /\ runPC = "return"
  /\ running' = FALSE
  /\ terminalErr' = runErr
  /\ runPC' = "fail"
  /\ UNCHANGED <<queue, reservations, slots, call, result>>
  /\ UNCHANGED <<runErr, queued, pollSlot, now, draining, expired, history>>

-----------------------------------------------------------------------------
(* dispatchSlot.                                                           *)

\* PrepareCover fails before anything is taken from the queue.
DispatchCoverFails ==
  /\ runPC = "cover"
  /\ ReturnWith("slot")
  /\ UNCHANGED <<shared, call, result, queued, pollSlot, now, draining, expired, history>>

IsPollSlotAlways(n) == TRUE

IsPollSlotOneOff(n) == n % PollEverySlots = 1

IsPollSlot(n) == n % PollEverySlots = 0

\* The critical section: count the slot and, outside poll slots, take the
\* head of the queue.  An expired head is answered at once and its slot
\* carries cover.
DispatchTakeSlot ==
  /\ runPC = "cover"
  /\ slots' = (slots + 1) % SlotWrap
  /\ pollSlot' = IsPollSlot(slots')
  /\ runPC' = "send"
  /\ IF pollSlot' \/ queue = << >>
       THEN UNCHANGED <<queue, queued, result, resolved>>
       ELSE /\ queue' = Tail(queue)
            /\ IF Head(queue) \in now
                 THEN /\ result' = [result EXCEPT ![Head(queue)] = "expired"]
                      /\ resolved' = Append(resolved, Head(queue))
                      /\ UNCHANGED queued
                 ELSE /\ queued' = <<Head(queue)>>
                      /\ UNCHANGED <<result, resolved>>
  /\ UNCHANGED <<reservations, running, terminalErr, call, runErr, now, draining>>
  /\ UNCHANGED <<expired, accepted, sincePoll>>

\* PreparePoll fails; nothing was taken from the queue in a poll slot.
DispatchPollFails ==
  /\ runPC = "send"
  /\ pollSlot
  /\ ReturnWith("slot")
  /\ UNCHANGED <<shared, call, result, queued, pollSlot, now, draining, expired, history>>

\* The outcomes of a slot's Send: sent in time, sent but Run finds the next
\* slot already past, or failed or over the dispatch budget.
SendOutcomes == {"sent", "missed", "failed"}

AfterSend(outcome) ==
  CASE outcome = "sent"   -> runPC' = "select" /\ UNCHANGED runErr
    [] outcome = "missed" -> ReturnWith("schedule")
    [] outcome = "failed" -> ReturnWith("slot")

\* The taken request gets the outcome of the send as its result.
Answer(outcome) ==
  IF queued = << >>
    THEN UNCHANGED <<queued, result, resolved>>
    ELSE /\ result' = [result EXCEPT ![Head(queued)] =
                         IF outcome = "failed" THEN "failed" ELSE "sent"]
         /\ resolved' = Append(resolved, Head(queued))
         /\ queued' = << >>

DispatchSend ==
  /\ runPC = "send"
  /\ sincePoll' = IF pollSlot THEN 0 ELSE sincePoll + 1
  /\ \E outcome \in SendOutcomes : AfterSend(outcome) /\ Answer(outcome)
  /\ UNCHANGED <<shared, call, pollSlot, now, draining, expired, accepted>>

-----------------------------------------------------------------------------
(* failQueued.                                                             *)

Drained == queue

FailQueued ==
  /\ runPC = "fail"
  /\ draining' = Drained
  /\ queue' = << >>
  /\ runPC' = "drain"
  /\ UNCHANGED <<reservations, slots, running, terminalErr, call, result>>
  /\ UNCHANGED <<runErr, queued, pollSlot, now, expired, history>>

\* One round of the loop that answers the drained requests.
FailQueuedNext ==
  /\ runPC = "drain"
  /\ draining # << >>
  /\ result' = [result EXCEPT ![Head(draining)] = "failed"]
  /\ resolved' = Append(resolved, Head(draining))
  /\ draining' = Tail(draining)
  /\ UNCHANGED <<shared, call, runPC, runErr, queued, pollSlot, now>>
  /\ UNCHANGED <<expired, accepted, sincePoll>>

-----------------------------------------------------------------------------
(* The specification.                                                      *)

\* A step of the goroutine that executes Run.
RunStep ==
  \/ RunStop
  \/ RunTimer
  \/ DispatchCoverFails
  \/ DispatchTakeSlot
  \/ DispatchPollFails
  \/ DispatchSend
  \/ RunReturn
  \/ FailQueued
  \/ FailQueuedNext

\* A step of a goroutine that enqueues request r and waits for its ticket.
CallerStep(r) ==
  \/ EnqueueReserve(r)
  \/ EnqueueRefuse(r)
  \/ EnqueuePrepareFails(r)
  \/ EnqueueAppend(r)
  \/ Wait(r)

Next ==
  \/ RunStart
  \/ RunStep
  \/ \E r \in Requests : CallerStep(r) \/ Expire(r)

Spec == Init /\ [][Next]_vars

\* Once Run executes, the Go scheduler lets it go on; provider and sink
\* return because their context carries the dispatch budget.  Nobody is
\* obliged to call Enqueue, Run or Wait.
FairSpec == Spec /\ WF_vars(RunStep)

-----------------------------------------------------------------------------
(* Properties.                                                             *)

RunPCs == {"idle", "select", "cover", "send", "return", "fail", "drain"}

\* Types of all variables.
TypeOK ==
  /\ queue \in Seq(Requests)
  /\ reservations \in Nat
  /\ slots \in Nat
  /\ running \in BOOLEAN
  /\ terminalErr \in Errors \cup {Nil}
  /\ call \in [Requests -> {"new", "preparing", "ticket", "error"}]
  /\ result \in [Requests -> {"empty", "sent", "expired", "failed", "taken"}]
  /\ runPC \in RunPCs
  /\ runErr \in Errors \cup {Nil}
  /\ queued \in Seq(Requests)
  /\ pollSlot \in BOOLEAN
  /\ now \subseteq Requests
  /\ draining \in Seq(Requests)
  /\ expired \subseteq Requests
  /\ accepted \in Seq(Requests)
  /\ resolved \in Seq(Requests)
  /\ sincePoll \in Nat

Preparing == {r \in Requests : call[r] = "preparing"}

\* Every reservation belongs to an Enqueue that is still preparing its
\* packet, and queue entries and reservations together never exceed
\* MaxQueue: Enqueue checks the limit in one critical section and appends
\* in another, while Run takes entries out in between.
CapacityAccounted ==
  /\ reservations = Cardinality(Preparing)
  /\ Len(queue) + reservations <= MaxQueue

\* No ticket is lost, answered twice or answered out of order: the accepted
\* requests are the answered ones, then the one dispatchSlot holds, then
\* those failQueued holds, then the queue.
TicketsAccounted == accepted = resolved \o queued \o draining \o queue

RunEnded == runPC = "drain" /\ draining = << >>

\* When Run and its deferred failQueued are over, no ticket is left without
\* a result, although Enqueue calls may have been preparing packets all the
\* while.
NoStrandedTicket ==
  RunEnded => \A r \in Requests : call[r] = "ticket" => result[r] # "empty"

\* What the phases of Run say about the shared state and Run's locals.
PhasesAgree ==
  /\ terminalErr # Nil <=> runPC \in {"fail", "drain"}
  /\ running <=> runPC \in {"select", "cover", "send", "return"}
  /\ runPC \in {"return", "fail", "drain"} => runErr # Nil
  /\ queued # << >> =>
       runPC = "send" /\ ~pollSlot /\ \E r \in Requests : queued = <<r>>
  /\ draining # << >> => runPC = "drain"
  /\ runPC = "drain" => queue = << >>

\* Tickets are the accepted requests, and answered requests have a result.
ResultsAgree ==
  /\ \A r \in Requests :
       call[r] = "ticket" <=> \E i \in 1..Len(accepted) : accepted[i] = r
  /\ \A i \in 1..Len(resolved) : result[resolved[i]] # "empty"

\* The inductive invariant behind the properties above.
IInv ==
  /\ TypeOK
  /\ CapacityAccounted
  /\ PhasesAgree
  /\ TicketsAccounted
  /\ ResultsAgree

\* A poll is sent in a slot exactly when PollEverySlots - 1 other packets
\* were sent since the last poll, whatever the queue holds (slots modulo
\* SlotWrap, a multiple of PollEverySlots here).
PollCadence ==
  runPC = "send" => (pollSlot <=> sincePoll = PollEverySlots - 1)

\* An ended scheduler stays ended: no slot is counted, no packet sent, no
\* request accepted, and the error that Run returned stays the one that
\* later calls report.
StaysEnded ==
  [][terminalErr # Nil =>
       UNCHANGED <<terminalErr, running, slots, accepted, sincePoll>>]_vars

\* Once Run was started, every ticket is answered: by its slot or by
\* failQueued.
EveryTicketAnswered ==
  \A r \in Requests :
    (runPC # "idle" /\ call[r] = "ticket") ~> (result[r] # "empty")

\* The scheduler implements the ticket service.
Tickets ==
  INSTANCE MixTickets WITH started <- runPC # "idle", closed <- terminalErr # Nil

ImplementsTickets == Tickets!Spec
=============================================================================
