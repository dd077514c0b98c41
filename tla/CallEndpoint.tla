----------------------------- MODULE CallEndpoint -----------------------------
(***************************************************************************)
(* Direct calls (call/call.go).  An endpoint sets calls up, answers them   *)
(* and closes them from several goroutines, within MaxConcurrent calls and *)
(* with a cache of the call IDs it has taken.  Signals travel through the  *)
(* message channel and may arrive late and more than once.  Clocks differ. *)
(*                                                                         *)
(* A slot is one use of Start or Accept and the Session it leads to.  The  *)
(* mutexes of Endpoint and Session make acquire, release, ApplyAnswer and  *)
(* the first half of Close single steps; verification, WebRTC setup and    *)
(* closing the connection happen between them.                             *)
(***************************************************************************)
EXTENDS Integers, FiniteSets

CONSTANTS
  Endpoints,
  Callers,               \* the endpoints whose users place calls
  Slots,                 \* the slots of each endpoint
  Calls,                 \* call IDs; 0 stands for the empty ID
  MaxConcurrent, MaxRememberedCallIDs,
  MaxSignalLifetime, ClockSkew, SignalLifetime, CallDuration,
  Offset,                \* how far each endpoint's clock is ahead
  MaxTime                \* bound on the time explored

ASSUME LimitsAreNumbers == MaxConcurrent \in Nat \ {0} /\ MaxRememberedCallIDs \in Nat /\ MaxTime \in Nat
ASSUME DurationsAreNumbers ==
  /\ ClockSkew \in Nat /\ MaxSignalLifetime \in Nat
  /\ SignalLifetime \in 1..MaxSignalLifetime /\ CallDuration \in Nat \ {0}
ASSUME ClocksAreNumbers == Offset \in [Endpoints -> Nat]
ASSUME CallersAreEndpoints == Callers \subseteq Endpoints
ASSUME SlotsAreFinite == \A e \in Endpoints : IsFiniteSet(Slots[e])
ASSUME CallIDs == Calls \subseteq Nat \ {0}

VARIABLES
  now,       \* real time
  active,    \* Endpoint.active
  seen,      \* Endpoint.seen: when the ID is forgotten, 0 if it is not there
  slots,
  signals,   \* every offer and answer sent; delivery removes nothing
  taken      \* history: the offers each endpoint has taken up

vars == <<now, active, seen, slots, signals, taken>>

Idle == [st |-> "idle", call |-> 0, peer |-> 0, initiator |-> FALSE, answered |-> FALSE,
         due |-> 0, releases |-> 0]

Init ==
  /\ now = 0 /\ signals = {} /\ taken = {}
  /\ active = [e \in Endpoints |-> 0]
  /\ seen = [e \in Endpoints |-> [c \in Calls |-> 0]]
  /\ slots = [e \in Endpoints |-> [k \in Slots[e] |-> Idle]]

Clock(e) == now + Offset[e]

Set(e, k, s) == slots' = [slots EXCEPT ![e][k] = s]

Purged(e) == [c \in Calls |-> IF seen[e][c] > Clock(e) THEN seen[e][c] ELSE 0]

Remembered(ids) == {c \in Calls : ids[c] # 0}

(* Mutant: without the skew that verifySignal grants. *)
RetentionUnskewed == MaxSignalLifetime

Retention == MaxSignalLifetime + ClockSkew

HasPlace(e) == active[e] < MaxConcurrent

(* acquire: the cache is purged even when the call is refused. *)
CanAcquire(e, call) ==
  /\ call # 0 => Purged(e)[call] = 0 /\ Cardinality(Remembered(Purged(e))) < MaxRememberedCallIDs
  /\ HasPlace(e)

Acquire(e, call) ==
  /\ CanAcquire(e, call)
  /\ active' = [active EXCEPT ![e] = @ + 1]
  /\ seen' = [seen EXCEPT ![e] =
       [c \in Calls |-> IF c = call THEN Clock(e) + Retention ELSE Purged(e)[c]]]

Refuse(e, call) ==
  /\ ~CanAcquire(e, call)
  /\ seen' = [seen EXCEPT ![e] = Purged(e)] /\ UNCHANGED active

Release(e) == active' = [active EXCEPT ![e] = IF @ > 0 THEN @ - 1 ELSE 0]

(* verifySignal's conditions on time. *)
Fresh(s, clock) ==
  /\ s.created <= clock + ClockSkew /\ s.expires > clock
  /\ s.expires > s.created /\ s.expires - s.created <= MaxSignalLifetime

Signal(type, call, e, peer) ==
  [type |-> type, call |-> call, from |-> e, to |-> peer,
   created |-> Clock(e), expires |-> Clock(e) + SignalLifetime]

Earliest(t) == IF t < MaxTime THEN t ELSE MaxTime

(* session(): the timer is set.  A timer due after MaxTime rings then. *)
Opened(e, k, call) ==
  [slots[e][k] EXCEPT !.st = "open", !.call = call, !.due = Earliest(now + CallDuration)]

-----------------------------------------------------------------------------
(* Start *)

Start(e, k, peer) ==
  /\ slots[e][k].st = "idle" /\ e \in Callers /\ peer # e
  /\ \/ Acquire(e, 0) /\ Set(e, k, [Idle EXCEPT !.st = "setup", !.peer = peer, !.initiator = TRUE])
     \/ Refuse(e, 0) /\ UNCHANGED slots
  /\ UNCHANGED <<now, signals, taken>>

(* The call ID is random: one that nobody has used. *)
Started(e, k) ==
  /\ slots[e][k].st = "setup" /\ slots[e][k].initiator
  /\ \E call \in Calls :
       /\ \A s \in signals : s.call # call
       /\ signals' = signals \cup {Signal("offer", call, e, slots[e][k].peer)}
       /\ Set(e, k, Opened(e, k, call))
  /\ UNCHANGED <<now, active, seen, taken>>

-----------------------------------------------------------------------------
(* Accept *)

(* The time is read before the signature is verified. *)
Accept(e, k, offer) ==
  /\ slots[e][k].st = "idle"
  /\ offer.type = "offer" /\ offer.to = e /\ Fresh(offer, Clock(e))
  /\ Set(e, k, [Idle EXCEPT !.st = "verified", !.call = offer.call, !.peer = offer.from])
  /\ UNCHANGED <<now, active, seen, signals, taken>>

AcceptAcquire(e, k) ==
  LET call == slots[e][k].call IN
  /\ slots[e][k].st = "verified"
  /\ \/ /\ Acquire(e, call)
        /\ Set(e, k, [slots[e][k] EXCEPT !.st = "setup"])
        /\ taken' = taken \cup {<<e, call>>}
     \/ Refuse(e, call) /\ Set(e, k, Idle) /\ UNCHANGED taken
  /\ UNCHANGED <<now, signals>>

Accepted(e, k) ==
  /\ slots[e][k].st = "setup" /\ ~slots[e][k].initiator
  /\ signals' = signals \cup {Signal("answer", slots[e][k].call, e, slots[e][k].peer)}
  /\ Set(e, k, Opened(e, k, slots[e][k].call))
  /\ UNCHANGED <<now, active, seen, taken>>

(* WebRTC, signing or the context of Start or Accept fails. *)
SetupFails(e, k) ==
  /\ slots[e][k].st = "setup"
  /\ Release(e) /\ Set(e, k, Idle)
  /\ UNCHANGED <<now, seen, signals, taken>>

-----------------------------------------------------------------------------
(* Session *)

ApplyAnswer(e, k, answer) ==
  LET s == slots[e][k] IN
  /\ s.st = "open" /\ s.initiator /\ ~s.answered
  /\ answer.type = "answer" /\ answer.call = s.call /\ answer.to = e /\ answer.from = s.peer
  /\ Fresh(answer, Clock(e))
  /\ Set(e, k, [s EXCEPT !.answered = TRUE])
  /\ UNCHANGED <<now, active, seen, signals, taken>>

(* Mutant: the closed flag is not looked at. *)
NotClosedUnchecked(s) == s.st \in {"open", "closing"} /\ s.releases < 2

NotClosed(s) == s.st = "open"

(* The locked half of Close; a second call returns at once. *)
CloseBegin(e, k) ==
  /\ NotClosed(slots[e][k])
  /\ Set(e, k, [slots[e][k] EXCEPT !.st = "closing", !.releases = @ + 1])
  /\ UNCHANGED <<now, active, seen, signals, taken>>

(* Mutant: the timer is never started. *)
RingsNever(s) == FALSE

Rings(s) == now >= s.due

Timer(e, k) == Rings(slots[e][k]) /\ CloseBegin(e, k)

(* The connection is closed and the slot of the endpoint released. *)
CloseEnd(e, k) ==
  LET s == slots[e][k] IN
  /\ s.st = "closing" /\ s.releases > 0
  /\ Release(e)
  /\ Set(e, k, IF s.releases = 1 THEN Idle ELSE [s EXCEPT !.releases = @ - 1])
  /\ UNCHANGED <<now, seen, signals, taken>>

Tick == now < MaxTime /\ now' = now + 1 /\ UNCHANGED <<active, seen, slots, signals, taken>>

Next ==
  \/ Tick
  \/ \E e \in Endpoints : \E k \in Slots[e] :
       \/ \E peer \in Endpoints : Start(e, k, peer)
       \/ \E s \in signals : Accept(e, k, s) \/ ApplyAnswer(e, k, s)
       \/ Started(e, k) \/ AcceptAcquire(e, k) \/ Accepted(e, k) \/ SetupFails(e, k)
       \/ CloseBegin(e, k) \/ Timer(e, k) \/ CloseEnd(e, k)

Spec == Init /\ [][Next]_vars

(* Time passes, timers ring, and code that was entered returns: set-up     *)
(* succeeds or fails, a mutex is granted, closing a connection ends.       *)
FairSpec ==
  /\ Spec /\ WF_vars(Tick)
  /\ \A e \in Endpoints : \A k \in Slots[e] :
       /\ WF_vars(AcceptAcquire(e, k)) /\ WF_vars(Timer(e, k)) /\ WF_vars(CloseEnd(e, k))
       /\ WF_vars(Started(e, k) \/ Accepted(e, k) \/ SetupFails(e, k))

-----------------------------------------------------------------------------
(* Properties *)

Busy(e) == {k \in Slots[e] : slots[e][k].st \in {"setup", "open", "closing"}}

ActiveExact == \A e \in Endpoints : active[e] = Cardinality(Busy(e))

(* Every place taken by acquire is given back exactly once, whichever of   *)
(* a failed set-up, Close and the timer comes first, or together: the      *)
(* counter is exact, and no more than MaxConcurrent calls run at a time.   *)
PlacesExact == ActiveExact /\ \A e \in Endpoints : Cardinality(Busy(e)) <= MaxConcurrent

(* An offer can be taken up a second time only when it has expired: the    *)
(* cache keeps its ID for as long as any clock within the skew makes       *)
(* verifySignal accept it.                                                 *)
SecondTimeOnlyExpired ==
  [][\A e \in Endpoints : \A k \in Slots[e] :
       slots[e][k].st = "verified" /\ slots'[e][k].st = "setup" /\ <<e, slots[e][k].call>> \in taken
         => \A s \in signals : s.type = "offer" /\ s.call = slots[e][k].call => s.expires <= Clock(e)]_vars

(* No call and no half-finished set-up occupies a place for ever, even if  *)
(* nobody calls Close.                                                     *)
PlacesFreed == \A e \in Endpoints : \A k \in Slots[e] : slots[e][k].st # "idle" ~> slots[e][k].st = "idle"
=============================================================================
