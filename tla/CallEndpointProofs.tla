------------------------- MODULE CallEndpointProofs -------------------------
(***************************************************************************)
(* For any endpoints, goroutines, limits, durations and clocks: the count  *)
(* of active calls is exact, and an offer is taken up again only when it   *)
(* has expired.                                                            *)
(***************************************************************************)
EXTENDS CallEndpoint, TLAPS

Records ==
  [st : {"idle", "verified", "setup", "open", "closing"}, call : Calls \cup {0}, peer : Endpoints \cup {0},
   initiator : BOOLEAN, answered : BOOLEAN, due : Int, releases : Nat]

Signals ==
  [type : {"offer", "answer"}, call : Calls \cup {0}, from : Endpoints, to : Endpoints \cup {0},
   created : Int, expires : Int]

SlotsOK ==
  /\ slots = [e \in Endpoints |-> [k \in Slots[e] |-> slots[e][k]]]
  /\ \A e \in Endpoints : \A k \in Slots[e] : slots[e][k] \in Records

(* A session that closes owes one release, any other none. *)
OneRelease ==
  \A e \in Endpoints : \A k \in Slots[e] :
    slots[e][k].releases = IF slots[e][k].st = "closing" THEN 1 ELSE 0

RestOK ==
  /\ now \in Nat /\ active \in [Endpoints -> Int]
  /\ seen \in [Endpoints -> [Calls -> Nat]]
  /\ signals \subseteq Signals

PlacesInv == SlotsOK /\ OneRelease /\ RestOK /\ ActiveExact

UnderLimit == \A e \in Endpoints : active[e] <= MaxConcurrent

OffersOf(c) == {s \in signals : s.type = "offer" /\ s.call = c}

(* An offer that passed verifySignal expires within the retention. *)
VerifiedOK ==
  \A e \in Endpoints : \A k \in Slots[e] :
    slots[e][k].st = "verified" =>
      LET c == slots[e][k].call IN
      /\ c \in Calls /\ OffersOf(c) # {}
      /\ \A s \in OffersOf(c) : s.expires <= Clock(e) + Retention

(* The ID of an offer that was taken up is kept until the offer expires. *)
TakenOK ==
  \A e \in Endpoints : \A c \in Calls :
    <<e, c>> \in taken =>
      /\ OffersOf(c) # {}
      /\ \A s \in OffersOf(c) : s.expires <= seen[e][c] \/ s.expires <= Clock(e)

OffersOK ==
  /\ \A s \in signals : s.type = "offer" => s.call \in Calls
  /\ \A s, t \in signals : s.type = "offer" /\ t.type = "offer" /\ s.call = t.call => s = t

ReplayInv == VerifiedOK /\ TakenOK /\ OffersOK

-----------------------------------------------------------------------------
(* Set changes one slot. *)
LEMMA SetSlot ==
  ASSUME SlotsOK, NEW e \in Endpoints, NEW k \in Slots[e], NEW s \in Records, Set(e, k, s)
  PROVE  /\ SlotsOK' /\ slots'[e][k] = s
         /\ \A f \in Endpoints : \A j \in Slots[f] : f # e \/ j # k => slots'[f][j] = slots[f][j]
<1>1. slots'[e][k] = s BY DEF Set, SlotsOK
<1>2. \A f \in Endpoints : \A j \in Slots[f] : f # e \/ j # k => slots'[f][j] = slots[f][j] BY DEF Set, SlotsOK
<1>3. slots' = [f \in Endpoints |-> [j \in Slots[f] |-> slots'[f][j]]] BY DEF Set, SlotsOK
<1>4. \A f \in Endpoints : \A j \in Slots[f] : slots'[f][j] \in Records BY <1>1, <1>2 DEF SlotsOK
<1> QED BY <1>1, <1>2, <1>3, <1>4 DEF SlotsOK

(* Clocks and retention are numbers, and purging keeps the cache's type. *)
LEMMA Times ==
  ASSUME RestOK, NEW e \in Endpoints
  PROVE  Clock(e) \in Nat /\ Retention \in Nat /\ Purged(e) \in [Calls -> Nat]
<1>1. Clock(e) \in Nat BY ClocksAreNumbers DEF RestOK, Clock
<1>2. Retention \in Nat BY DurationsAreNumbers DEF Retention
<1>3. Purged(e) \in [Calls -> Nat] BY <1>1 DEF RestOK, Purged
<1> QED BY <1>1, <1>2, <1>3

(* A signal has its type, and the type and call it was made with. *)
LEMMA SignalType ==
  ASSUME RestOK, NEW e \in Endpoints, NEW type \in {"offer", "answer"}, NEW c \in Calls \cup {0},
         NEW p \in Endpoints \cup {0}
  PROVE  /\ Signal(type, c, e, p) \in Signals
         /\ Signal(type, c, e, p).type = type /\ Signal(type, c, e, p).call = c
<1>1. Clock(e) \in Int /\ Clock(e) + SignalLifetime \in Int BY Times, DurationsAreNumbers
<1> QED BY <1>1 DEF Signal, Signals

(* acquire, granted or refused, keeps the cache a map from IDs to times. *)
LEMMA SeenType ==
  ASSUME RestOK, NEW e \in Endpoints, NEW call \in Calls \cup {0}, Acquire(e, call) \/ Refuse(e, call)
  PROVE  seen' \in [Endpoints -> [Calls -> Nat]]
<1>1. Clock(e) + Retention \in Nat BY Times
<1>2. Purged(e) \in [Calls -> Nat] BY Times
<1>3. [c \in Calls |-> IF c = call THEN Clock(e) + Retention ELSE Purged(e)[c]] \in [Calls -> Nat] BY <1>1, <1>2
<1>4. PICK g \in [Calls -> Nat] : seen' = [seen EXCEPT ![e] = g] BY <1>2, <1>3 DEF Acquire, Refuse
<1> QED BY <1>4 DEF RestOK

-----------------------------------------------------------------------------
(* Purging the cache drops only IDs whose offers have expired. *)
LEMMA CacheKept ==
  ASSUME RestOK, NEW e \in Endpoints, NEW call \in Calls \cup {0}, Acquire(e, call) \/ Refuse(e, call),
         NEW f \in Endpoints, NEW c \in Calls, NEW t \in Int, t <= seen[f][c] \/ t <= Clock(f)
  PROVE  t <= seen'[f][c] \/ t <= Clock(f)
<1>1. CASE f # e
  <2>1. seen'[f] = seen[f] BY <1>1 DEF Acquire, Refuse, RestOK
  <2> QED BY <2>1
<1>2. CASE f = e
  <2>1. Clock(e) \in Nat /\ Retention \in Nat /\ seen[e][c] \in Nat BY Times DEF RestOK
  <2>2. seen'[e][c] \in {Purged(e)[c], Clock(e) + Retention} BY DEF Acquire, Refuse, RestOK
  <2>3. seen'[e][c] = Purged(e)[c] \/ (c = call /\ Purged(e)[c] = 0 /\ seen'[e][c] = Clock(e) + Retention)
    BY CallIDs DEF Acquire, Refuse, RestOK, CanAcquire
  <2>4. Purged(e)[c] = IF seen[e][c] > Clock(e) THEN seen[e][c] ELSE 0 BY DEF Purged
  <2> QED BY <1>2, <2>1, <2>3, <2>4
<1> QED BY <1>1, <1>2

(* Offers are signals with a time. *)
LEMMA OfferTypes ==
  ASSUME RestOK, NEW c, NEW s \in OffersOf(c)
  PROVE  s \in signals /\ s.type = "offer" /\ s.call = c /\ s.expires \in Int /\ s.created \in Int
BY DEF RestOK, OffersOf, Signals

(* Slots apart, nothing changes, and no other slot becomes verified. *)
LEMMA ReplayFrame ==
  ASSUME ReplayInv, UNCHANGED <<now, seen, signals, taken>>,
         \A f \in Endpoints : \A j \in Slots[f] :
           slots'[f][j].st = "verified" => slots[f][j].st = "verified" /\ slots'[f][j].call = slots[f][j].call
  PROVE  ReplayInv'
BY DEF ReplayInv, VerifiedOK, TakenOK, OffersOK, OffersOf, Clock

(* A slot that is set up, opened, answered, closed or emptied. *)
LEMMA SlotOnly ==
  ASSUME SlotsOK, ReplayInv, NEW e \in Endpoints, NEW k \in Slots[e], NEW s \in Records, Set(e, k, s),
         s.st # "verified", UNCHANGED <<now, seen, signals, taken>>
  PROVE  ReplayInv'
<1>1. \A f \in Endpoints : \A j \in Slots[f] :
        slots'[f][j].st = "verified" => slots[f][j].st = "verified" /\ slots'[f][j].call = slots[f][j].call
  BY SetSlot
<1> QED BY <1>1, ReplayFrame

(* A new signal is an answer, or an offer with an ID of its own. *)
LEMMA SignalSent ==
  ASSUME PlacesInv, ReplayInv, NEW e \in Endpoints, NEW k \in Slots[e], NEW r \in Records, Set(e, k, r),
         r.st = "open", UNCHANGED <<now, seen, taken>>, NEW o \in Signals, signals' = signals \cup {o},
         o.type = "answer" \/ (o.call \in Calls /\ \A s \in signals : s.call # o.call)
  PROVE  ReplayInv'
<1>1. \A f \in Endpoints : \A j \in Slots[f] :
        slots'[f][j].st = "verified" => slots[f][j].st = "verified" /\ slots'[f][j].call = slots[f][j].call
  BY SetSlot DEF PlacesInv
<1>2. \A c : OffersOf(c) # {} => OffersOf(c)' = OffersOf(c) BY DEF OffersOf
<1>3. \A f \in Endpoints : Clock(f)' = Clock(f) BY DEF Clock
<1>4. VerifiedOK' BY <1>1, <1>2, <1>3 DEF ReplayInv, VerifiedOK
<1>5. TakenOK' BY <1>2, <1>3 DEF ReplayInv, TakenOK
<1>6. OffersOK' BY DEF ReplayInv, OffersOK
<1> QED BY <1>4, <1>5, <1>6 DEF ReplayInv

(* acquire for a call ID, or for none: what was taken stays covered. *)
LEMMA TakenKept ==
  ASSUME RestOK, ReplayInv, NEW e \in Endpoints, NEW call \in Calls \cup {0}, Acquire(e, call) \/ Refuse(e, call),
         UNCHANGED <<now, signals>>,
         taken' = taken \/ (/\ taken' = taken \cup {<<e, call>>} /\ Acquire(e, call) /\ OffersOf(call) # {}
                            /\ \A s \in OffersOf(call) : s.expires <= Clock(e) + Retention)
  PROVE  TakenOK'
<1>1. \A c : OffersOf(c)' = OffersOf(c) BY DEF OffersOf
<1>2. SUFFICES ASSUME NEW f \in Endpoints, NEW c \in Calls, <<f, c>> \in taken'
               PROVE  /\ OffersOf(c) # {}
                      /\ \A s \in OffersOf(c) : s.expires <= seen'[f][c] \/ s.expires <= Clock(f)
  BY <1>1 DEF TakenOK, Clock
<1>3. CASE <<f, c>> \in taken
  <2>1. ASSUME NEW s \in OffersOf(c) PROVE s.expires <= seen'[f][c] \/ s.expires <= Clock(f)
    <3>1. s.expires \in Int BY OfferTypes
    <3>2. s.expires <= seen[f][c] \/ s.expires <= Clock(f) BY <1>3 DEF ReplayInv, TakenOK
    <3> QED BY <3>1, <3>2, CacheKept
  <2> QED BY <1>3, <2>1 DEF ReplayInv, TakenOK
<1>4. CASE <<f, c>> \notin taken
  <2>1. f = e /\ c = call BY <1>2, <1>4
  <2>2. Acquire(e, call) BY <1>2, <1>4
  <2>3. seen'[e][call] = Clock(e) + Retention BY <2>1, <2>2 DEF Acquire, RestOK
  <2> QED BY <1>2, <1>4, <2>1, <2>3
<1> QED BY <1>3, <1>4

(* The slot whose verified offer has been taken before is set up only when *)
(* that offer has expired.                                                 *)
Again(e, k) ==
  slots[e][k].st = "verified" /\ slots'[e][k].st = "setup" /\ <<e, slots[e][k].call>> \in taken
    => \A s \in signals : s.type = "offer" /\ s.call = slots[e][k].call => s.expires <= Clock(e)

(* A step that takes no verified slot to its set-up. *)
LEMMA NotAgain ==
  ASSUME SlotsOK, NEW e \in Endpoints, NEW k \in Slots[e], NEW s \in Records, Set(e, k, s),
         slots[e][k].st # "verified" \/ s.st # "setup"
  PROVE  \A f \in Endpoints : \A j \in Slots[f] : Again(f, j)
<1>1. ASSUME NEW f \in Endpoints, NEW j \in Slots[f]
      PROVE  ~(slots[f][j].st = "verified" /\ slots'[f][j].st = "setup")
  <2>1. CASE f = e /\ j = k BY <2>1, SetSlot
  <2>2. CASE f # e \/ j # k
    <3>1. slots'[f][j] = slots[f][j] BY <2>2, SetSlot
    <3> QED BY <3>1
  <2> QED BY <2>1, <2>2
<1> QED BY <1>1 DEF Again

(* An ID that acquire grants is not in the cache, so its offers expired. *)
LEMMA GrantedAgain ==
  ASSUME RestOK, TakenOK, NEW e \in Endpoints, NEW c \in Calls, Acquire(e, c), <<e, c>> \in taken,
         NEW s \in OffersOf(c)
  PROVE  s.expires <= Clock(e)
<1>1. seen[e][c] \in Nat /\ Clock(e) \in Nat BY Times DEF RestOK
<1>2. Purged(e)[c] = 0 BY CallIDs DEF Acquire, CanAcquire
<1>3. seen[e][c] <= Clock(e) BY <1>1, <1>2 DEF Purged
<1>4. s.expires \in Int BY OfferTypes
<1>5. s.expires <= seen[e][c] \/ s.expires <= Clock(e) BY DEF TakenOK
<1> QED BY <1>1, <1>3, <1>4, <1>5

(* Accept takes up a verified offer, or is refused. *)
LEMMA AcquireStep ==
  ASSUME PlacesInv, ReplayInv, NEW e \in Endpoints, NEW k \in Slots[e], AcceptAcquire(e, k)
  PROVE  ReplayInv' /\ \A f \in Endpoints : \A j \in Slots[f] : Again(f, j)
<1> DEFINE x == slots[e][k]
           y == [x EXCEPT !.st = "setup"]
<1>0. SlotsOK /\ RestOK /\ TakenOK BY DEF PlacesInv, ReplayInv
<1>1. x.st = "verified" /\ UNCHANGED <<now, signals>> BY DEF AcceptAcquire
<1>2. /\ x.call \in Calls /\ OffersOf(x.call) # {}
      /\ \A s \in OffersOf(x.call) : s.expires <= Clock(e) + Retention
  BY <1>1 DEF ReplayInv, VerifiedOK
<1>3. y \in Records /\ y.st = "setup" /\ Idle \in Records /\ Idle.st = "idle"
  <2>1. x \in Records BY <1>0 DEF SlotsOK
  <2> QED BY <2>1 DEF Records, Idle
<1>4. \/ Acquire(e, x.call) /\ Set(e, k, y) /\ taken' = taken \cup {<<e, x.call>>}
      \/ Refuse(e, x.call) /\ Set(e, k, Idle) /\ taken' = taken
  BY DEF AcceptAcquire
<1> HIDE DEF y
<1>5. TakenOK' BY <1>0, <1>1, <1>2, <1>4, TakenKept
<1>6. \A f \in Endpoints : \A j \in Slots[f] :
        slots'[f][j].st = "verified" => slots[f][j].st = "verified" /\ slots'[f][j].call = slots[f][j].call
  <2>1. PICK s \in Records : Set(e, k, s) /\ s.st # "verified" BY <1>3, <1>4
  <2> QED BY <1>0, <2>1, SetSlot
<1>7. VerifiedOK' /\ OffersOK'
  <2>1. \A c : OffersOf(c)' = OffersOf(c) BY <1>1 DEF OffersOf
  <2>2. \A f \in Endpoints : Clock(f)' = Clock(f) BY <1>1 DEF Clock
  <2>3. VerifiedOK' BY <1>6, <2>1, <2>2 DEF ReplayInv, VerifiedOK
  <2> QED BY <1>1, <2>3 DEF ReplayInv, OffersOK
<1>8. ASSUME NEW f \in Endpoints, NEW j \in Slots[f] PROVE Again(f, j)
  <2>1. CASE Set(e, k, Idle) BY <1>0, <1>3, <2>1, NotAgain
  <2>2. CASE Acquire(e, x.call) /\ Set(e, k, y)
    <3>1. CASE f # e \/ j # k
      <4>1. slots'[f][j] = slots[f][j] BY <1>0, <1>3, <2>2, <3>1, SetSlot
      <4> QED BY <4>1 DEF Again
    <3>2. CASE f = e /\ j = k
      <4>1. <<e, x.call>> \in taken => \A s \in OffersOf(x.call) : s.expires <= Clock(e)
        BY <1>0, <1>2, <2>2, GrantedAgain
      <4> QED BY <3>2, <4>1 DEF Again, OffersOf
    <3> QED BY <3>1, <3>2
  <2> QED BY <1>4, <2>1, <2>2
<1> QED BY <1>5, <1>7, <1>8 DEF ReplayInv

(* Every step keeps the cache ahead of the offers, and a verified offer    *)
(* whose ID was taken before is set up only when it has expired.           *)
LEMMA ReplayStep ==
  ASSUME PlacesInv, ReplayInv, [Next]_vars
  PROVE  /\ ReplayInv'
         /\ \A e \in Endpoints : \A k \in Slots[e] :
              slots[e][k].st = "verified" /\ slots'[e][k].st = "setup" /\ <<e, slots[e][k].call>> \in taken
                => \A s \in signals : s.type = "offer" /\ s.call = slots[e][k].call => s.expires <= Clock(e)
<1> SUFFICES ReplayInv' /\ \A e \in Endpoints : \A k \in Slots[e] : Again(e, k) BY DEF Again
<1> USE DEF PlacesInv
<1>1. CASE Tick
  <2>1. UNCHANGED <<seen, slots, signals, taken>> /\ now' = now + 1 BY <1>1 DEF Tick
  <2>2. \A e \in Endpoints : Clock(e) \in Nat /\ Clock(e)' = Clock(e) + 1 BY <2>1, ClocksAreNumbers DEF Clock, RestOK
  <2>3. \A c : OffersOf(c)' = OffersOf(c) BY <2>1 DEF OffersOf
  <2>4. \A c : \A s \in OffersOf(c) : s.expires \in Int BY OfferTypes
  <2>5. VerifiedOK'
    <3>1. SUFFICES ASSUME NEW e \in Endpoints, NEW k \in Slots[e], slots[e][k].st = "verified"
                   PROVE  /\ slots[e][k].call \in Calls /\ OffersOf(slots[e][k].call) # {}
                          /\ \A s \in OffersOf(slots[e][k].call) : s.expires <= Clock(e) + 1 + Retention
      BY <2>1, <2>2, <2>3 DEF VerifiedOK
    <3>2. Retention \in Nat BY Times
    <3> QED BY <3>1, <3>2, <2>2, <2>4 DEF ReplayInv, VerifiedOK
  <2>6. TakenOK'
    <3>1. SUFFICES ASSUME NEW e \in Endpoints, NEW c \in Calls, <<e, c>> \in taken
                   PROVE  /\ OffersOf(c) # {}
                          /\ \A s \in OffersOf(c) : s.expires <= seen[e][c] \/ s.expires <= Clock(e) + 1
      BY <2>1, <2>2, <2>3 DEF TakenOK
    <3> QED BY <3>1, <2>2, <2>4 DEF ReplayInv, TakenOK
  <2>7. OffersOK' BY <2>1 DEF ReplayInv, OffersOK
  <2> QED BY <2>1, <2>5, <2>6, <2>7 DEF ReplayInv, Again
<1>2. CASE UNCHANGED vars BY <1>2, ReplayFrame DEF vars, Again
<1>3. ASSUME NEW e \in Endpoints, NEW k \in Slots[e],
             \/ \E peer \in Endpoints : Start(e, k, peer)
             \/ \E s \in signals : Accept(e, k, s) \/ ApplyAnswer(e, k, s)
             \/ Started(e, k) \/ AcceptAcquire(e, k) \/ Accepted(e, k) \/ SetupFails(e, k)
             \/ CloseBegin(e, k) \/ Timer(e, k) \/ CloseEnd(e, k)
      PROVE  ReplayInv' /\ \A f \in Endpoints : \A j \in Slots[f] : Again(f, j)
  <2> DEFINE x == slots[e][k]
  <2>0. x \in Records /\ Idle \in Records /\ Idle.st = "idle"
    <3>1. x \in Records BY DEF SlotsOK
    <3> QED BY <3>1 DEF Records, Idle
  <2>1. ASSUME NEW s \in Records, Set(e, k, s), x.st # "verified" \/ s.st # "setup"
        PROVE  \A f \in Endpoints : \A j \in Slots[f] : Again(f, j)
    BY <2>1, NotAgain
  <2>2. ASSUME NEW s \in Records, Set(e, k, s), s.st # "verified", s.st # "setup",
               UNCHANGED <<now, seen, signals, taken>>
        PROVE  ReplayInv' /\ \A f \in Endpoints : \A j \in Slots[f] : Again(f, j)
    BY <2>1, <2>2, SlotOnly
  <2>3. CASE SetupFails(e, k) BY <2>3, <2>2, <2>0 DEF SetupFails
  <2>4. CASE CloseEnd(e, k)
    <3>1. x.releases = 1 BY <2>4 DEF CloseEnd, OneRelease
    <3> QED BY <2>4, <3>1, <2>2, <2>0 DEF CloseEnd
  <2>5. CASE CloseBegin(e, k)
    <3> DEFINE m == x.releases + 1
               y == [x EXCEPT !.st = "closing", !.releases = m]
    <3>1. Set(e, k, y) /\ UNCHANGED <<now, seen, signals, taken>> BY <2>5 DEF CloseBegin
    <3>2. m \in Nat BY <2>0 DEF Records
    <3> HIDE DEF m
    <3>3. y \in Records /\ y.st = "closing" BY <3>2, <2>0 DEF Records
    <3> HIDE DEF y
    <3> QED BY <2>2, <3>1, <3>3
  <2>6. ASSUME NEW s \in signals, ApplyAnswer(e, k, s)
        PROVE  ReplayInv' /\ \A f \in Endpoints : \A j \in Slots[f] : Again(f, j)
    <3> DEFINE y == [x EXCEPT !.answered = TRUE]
    <3>1. y \in Records /\ y.st = x.st BY <2>0 DEF Records
    <3>2. x.st = "open" /\ Set(e, k, y) /\ UNCHANGED <<now, seen, signals, taken>> BY <2>6 DEF ApplyAnswer
    <3> HIDE DEF y
    <3> QED BY <2>2, <3>1, <3>2
  <2>7. ASSUME NEW peer \in Endpoints, Start(e, k, peer)
        PROVE  ReplayInv' /\ \A f \in Endpoints : \A j \in Slots[f] : Again(f, j)
    <3>1. (Acquire(e, 0) \/ Refuse(e, 0)) /\ UNCHANGED <<now, signals, taken>> /\ x.st = "idle" BY <2>7 DEF Start
    <3>2. TakenOK' BY <3>1, TakenKept
    <3> DEFINE y == [Idle EXCEPT !.st = "setup", !.peer = peer, !.initiator = TRUE]
    <3>3. y \in Records /\ y.st = "setup" BY <2>0 DEF Records, Idle
    <3>4. Set(e, k, y) \/ slots' = slots BY <2>7 DEF Start
    <3> HIDE DEF y
    <3>5. \A f \in Endpoints : \A j \in Slots[f] : Again(f, j)
      <4>1. CASE Set(e, k, y) BY <4>1, <3>1, <3>3, <2>1
      <4>2. CASE slots' = slots BY <4>2 DEF Again
      <4> QED BY <3>4, <4>1, <4>2
    <3>6. \A f \in Endpoints : \A j \in Slots[f] :
            slots'[f][j].st = "verified" => slots[f][j].st = "verified" /\ slots'[f][j].call = slots[f][j].call
      BY <3>3, <3>4, SetSlot
    <3>7. /\ \A c : OffersOf(c)' = OffersOf(c)
          /\ \A f \in Endpoints : (Clock(f) + Retention)' = Clock(f) + Retention
      BY <3>1 DEF OffersOf, Clock, Retention
    <3>8. VerifiedOK' BY <3>6, <3>7 DEF ReplayInv, VerifiedOK
    <3>9. OffersOK' BY <3>1 DEF ReplayInv, OffersOK
    <3> QED BY <3>2, <3>5, <3>8, <3>9 DEF ReplayInv
  <2>8. ASSUME NEW c \in Calls \cup {0} PROVE Opened(e, k, c) \in Records /\ Opened(e, k, c).st = "open"
    <3>1. Earliest(now + CallDuration) \in Int BY LimitsAreNumbers, DurationsAreNumbers DEF Earliest, RestOK
    <3> QED BY <3>1, <2>0 DEF Opened, Records
  <2>9. x.peer \in Endpoints \cup {0} /\ x.call \in Calls \cup {0} BY <2>0 DEF Records
  <2>10. CASE Started(e, k)
    <3>1. PICK call \in Calls : /\ \A s \in signals : s.call # call
                               /\ signals' = signals \cup {Signal("offer", call, e, x.peer)}
                               /\ Set(e, k, Opened(e, k, call))
      BY <2>10 DEF Started
    <3>2. Signal("offer", call, e, x.peer) \in Signals /\ Signal("offer", call, e, x.peer).call = call BY <2>9, SignalType
    <3>3. x.st = "setup" /\ UNCHANGED <<now, seen, taken>> BY <2>10 DEF Started
    <3>4. ReplayInv' BY <3>1, <3>2, <3>3, <2>8, SignalSent
    <3> QED BY <3>1, <3>3, <3>4, <2>1, <2>8
  <2>11. CASE Accepted(e, k)
    <3>1. Signal("answer", x.call, e, x.peer) \in Signals BY <2>9, SignalType
    <3>2. Signal("answer", x.call, e, x.peer).type = "answer" BY DEF Signal
    <3>3. /\ x.st = "setup" /\ UNCHANGED <<now, seen, taken>> /\ Set(e, k, Opened(e, k, x.call))
          /\ signals' = signals \cup {Signal("answer", x.call, e, x.peer)}
      BY <2>11 DEF Accepted
    <3>4. ReplayInv' BY <3>1, <3>2, <3>3, <2>8, <2>9, SignalSent
    <3> QED BY <3>3, <3>4, <2>1, <2>8, <2>9
  <2>12. ASSUME NEW s \in signals, Accept(e, k, s)
         PROVE  ReplayInv' /\ \A f \in Endpoints : \A j \in Slots[f] : Again(f, j)
    <3> DEFINE y == [Idle EXCEPT !.st = "verified", !.call = s.call, !.peer = s.from]
    <3>1. /\ Set(e, k, y) /\ UNCHANGED <<now, seen, signals, taken>>
          /\ s.type = "offer" /\ Fresh(s, Clock(e))
      BY <2>12 DEF Accept
    <3>2. s \in Signals /\ s.call \in Calls BY <3>1 DEF RestOK, ReplayInv, OffersOK
    <3>3. y \in Records /\ y.st = "verified" /\ y.call = s.call BY <3>2, <2>0 DEF Records, Idle, Signals
    <3> HIDE DEF y
    <3>4. \A f \in Endpoints : \A j \in Slots[f] : Again(f, j) BY <3>1, <3>3, <2>1
    <3>5. s.expires <= Clock(e) + Retention
      <4>1. Clock(e) \in Nat BY Times
      <4>2. s.created \in Int /\ s.expires \in Int BY <3>2 DEF Signals
      <4>3. s.created <= Clock(e) + ClockSkew /\ s.expires - s.created <= MaxSignalLifetime BY <3>1 DEF Fresh
      <4> QED BY <4>1, <4>2, <4>3, DurationsAreNumbers DEF Retention
    <3>6. OffersOf(s.call) = {s} BY <3>1 DEF OffersOf, ReplayInv, OffersOK
    <3>7. \A c : OffersOf(c)' = OffersOf(c) BY <3>1 DEF OffersOf
    <3>8. \A f \in Endpoints : Clock(f)' = Clock(f) BY <3>1 DEF Clock
    <3>9. ASSUME NEW f \in Endpoints, NEW j \in Slots[f], slots'[f][j].st = "verified"
          PROVE  /\ slots'[f][j].call \in Calls /\ OffersOf(slots'[f][j].call) # {}
                 /\ \A t \in OffersOf(slots'[f][j].call) : t.expires <= Clock(f) + Retention
      <4>1. CASE f = e /\ j = k
        <5>1. slots'[f][j].call = s.call BY <3>1, <3>3, <4>1, SetSlot
        <5> QED BY <4>1, <5>1, <3>2, <3>5, <3>6
      <4>2. CASE f # e \/ j # k
        <5>1. slots'[f][j] = slots[f][j] BY <3>1, <3>3, <4>2, SetSlot
        <5>2. slots[f][j].st = "verified" BY <3>9, <5>1
        <5>3. /\ slots[f][j].call \in Calls /\ OffersOf(slots[f][j].call) # {}
              /\ \A t \in OffersOf(slots[f][j].call) : t.expires <= Clock(f) + Retention
          BY <5>2 DEF ReplayInv, VerifiedOK
        <5> QED BY <5>1, <5>3
      <4> QED BY <4>1, <4>2
    <3>10. VerifiedOK' BY <3>7, <3>8, <3>9 DEF VerifiedOK
    <3>11. TakenOK' /\ OffersOK' BY <3>1, <3>7, <3>8 DEF ReplayInv, TakenOK, OffersOK
    <3> QED BY <3>4, <3>10, <3>11 DEF ReplayInv
  <2>13. CASE AcceptAcquire(e, k) BY <2>13, AcquireStep
  <2> QED BY <1>3, <2>3, <2>4, <2>5, <2>6, <2>7, <2>10, <2>11, <2>12, <2>13 DEF Timer
<1> QED BY <1>1, <1>2, <1>3 DEF Next

-----------------------------------------------------------------------------
(* From here on, sets are counted. *)
INSTANCE FiniteSetTheorems

InUse == {"setup", "open", "closing"}

(* The busy slots are counted one by one. *)
LEMMA CountSlot ==
  ASSUME SlotsOK, NEW e \in Endpoints, NEW k \in Slots[e], NEW s \in Records, Set(e, k, s)
  PROVE  /\ \A f \in Endpoints : Cardinality(Busy(f)) \in Nat
         /\ \A f \in Endpoints : f # e => Busy(f)' = Busy(f)
         /\ slots[e][k].st \in InUse => Cardinality(Busy(e)) > 0
         /\ Cardinality(Busy(e))' = Cardinality(Busy(e))
              + (IF s.st \in InUse THEN 1 ELSE 0) - (IF slots[e][k].st \in InUse THEN 1 ELSE 0)
<1>1. ASSUME NEW f \in Endpoints PROVE IsFiniteSet(Busy(f)) /\ Cardinality(Busy(f)) \in Nat
  <2>1. Busy(f) \in SUBSET Slots[f] BY DEF Busy
  <2>2. IsFiniteSet(Busy(f)) BY <2>1, SlotsAreFinite, FS_Subset
  <2> QED BY <2>2, FS_CardinalityType
<1>2. ASSUME NEW f \in Endpoints, f # e PROVE Busy(f)' = Busy(f) BY <1>2, SetSlot DEF Busy
<1>3. Busy(e)' = IF s.st \in InUse THEN Busy(e) \cup {k} ELSE Busy(e) \ {k}
  <2>1. \A j \in Slots[e] : j # k => slots'[e][j] = slots[e][j] BY SetSlot
  <2>2. slots'[e][k] = s BY SetSlot
  <2> QED BY <2>1, <2>2 DEF Busy, InUse
<1>4. k \in Busy(e) <=> slots[e][k].st \in InUse BY DEF Busy, InUse
<1>5. k \in Busy(e) => Cardinality(Busy(e)) > 0
  <2>1. Cardinality(Busy(e)) = 0 => Busy(e) = {} BY <1>1, FS_EmptySet
  <2> QED BY <2>1, <1>1
<1>6. /\ Cardinality(Busy(e) \cup {k}) = IF k \in Busy(e) THEN Cardinality(Busy(e)) ELSE Cardinality(Busy(e)) + 1
      /\ Cardinality(Busy(e) \ {k}) = IF k \in Busy(e) THEN Cardinality(Busy(e)) - 1 ELSE Cardinality(Busy(e))
  BY <1>1, FS_AddElement, FS_RemoveElement
<1>7. Cardinality(Busy(e))' = Cardinality(Busy(e)') OBVIOUS
<1>8. Cardinality(Busy(e)) \in Nat BY <1>1
<1>9. CASE s.st \in InUse BY <1>1, <1>2, <1>3, <1>4, <1>5, <1>6, <1>7, <1>8, <1>9
<1>10. CASE s.st \notin InUse BY <1>1, <1>2, <1>3, <1>4, <1>5, <1>6, <1>7, <1>8, <1>10
<1> QED BY <1>9, <1>10

(* A step that moves a slot and the counter together keeps the count. *)
LEMMA Counted ==
  ASSUME PlacesInv, NEW e \in Endpoints, NEW k \in Slots[e], NEW s \in Records, Set(e, k, s),
         s.releases = IF s.st = "closing" THEN 1 ELSE 0,
         \/ slots[e][k].st \notin InUse /\ s.st \in InUse /\ active' = [active EXCEPT ![e] = @ + 1]
         \/ slots[e][k].st \in InUse /\ s.st \notin InUse /\ active' = [active EXCEPT ![e] = @ - 1]
         \/ (slots[e][k].st \in InUse <=> s.st \in InUse) /\ active' = active
  PROVE  SlotsOK' /\ OneRelease' /\ ActiveExact' /\ active' \in [Endpoints -> Int]
<1> USE DEF PlacesInv
<1>1. SlotsOK' /\ OneRelease' BY SetSlot DEF OneRelease
<1>2. active[e] \in Int BY DEF RestOK
<1>3. active' \in [Endpoints -> Int] BY <1>2 DEF RestOK
<1>4. ASSUME NEW f \in Endpoints PROVE active'[f] = Cardinality(Busy(f)')
  <2>1. CASE f # e
    <3>1. active'[f] = active[f] BY <2>1 DEF RestOK
    <3>2. Busy(f)' = Busy(f) BY <2>1, CountSlot
    <3> QED BY <3>1, <3>2 DEF ActiveExact
  <2>2. CASE f = e
    <3>1. active'[e] = active[e] + (IF s.st \in InUse THEN 1 ELSE 0) - (IF slots[e][k].st \in InUse THEN 1 ELSE 0)
      BY <1>2 DEF RestOK
    <3>2. active[e] = Cardinality(Busy(e)) BY DEF ActiveExact
    <3>3. Cardinality(Busy(e))' = Cardinality(Busy(e))
            + (IF s.st \in InUse THEN 1 ELSE 0) - (IF slots[e][k].st \in InUse THEN 1 ELSE 0)
      BY CountSlot
    <3> QED BY <2>2, <3>1, <3>2, <3>3
  <2> QED BY <2>1, <2>2
<1> QED BY <1>1, <1>3, <1>4 DEF ActiveExact

(* Release takes one place, and there is one to take. *)
LEMMA Released ==
  ASSUME PlacesInv, NEW e \in Endpoints, NEW k \in Slots[e], slots[e][k].st \in InUse, Release(e)
  PROVE  active' = [active EXCEPT ![e] = @ - 1]
<1>1. Busy(e) \in SUBSET Slots[e] /\ k \in Busy(e) BY DEF Busy, InUse
<1>2. IsFiniteSet(Busy(e)) BY <1>1, SlotsAreFinite, FS_Subset
<1>3. Cardinality(Busy(e)) \in Nat /\ Cardinality(Busy(e)) # 0 BY <1>1, <1>2, FS_CardinalityType, FS_EmptySet
<1>4. active[e] > 0 BY <1>3 DEF PlacesInv, ActiveExact
<1> QED BY <1>4 DEF Release

(* Every step keeps the count of active calls exact. *)
LEMMA PlacesStep ==
  ASSUME PlacesInv, [Next]_vars
  PROVE  PlacesInv'
<1> USE DEF PlacesInv
<1>0. ASSUME UNCHANGED <<active, slots>>, RestOK' PROVE PlacesInv'
  BY <1>0 DEF SlotsOK, OneRelease, ActiveExact, Busy
<1>1. CASE Tick BY <1>1, <1>0 DEF Tick, RestOK
<1>2. CASE UNCHANGED vars BY <1>2, <1>0 DEF vars, RestOK
<1>3. ASSUME NEW e \in Endpoints, NEW k \in Slots[e],
             \/ \E peer \in Endpoints : Start(e, k, peer)
             \/ \E s \in signals : Accept(e, k, s) \/ ApplyAnswer(e, k, s)
             \/ Started(e, k) \/ AcceptAcquire(e, k) \/ Accepted(e, k) \/ SetupFails(e, k)
             \/ CloseBegin(e, k) \/ Timer(e, k) \/ CloseEnd(e, k)
      PROVE  PlacesInv'
  <2> DEFINE x == slots[e][k]
  <2>0. /\ x \in Records /\ x.releases = (IF x.st = "closing" THEN 1 ELSE 0)
        /\ Idle \in Records /\ Idle.st = "idle" /\ Idle.releases = 0
    <3>1. x \in Records BY DEF SlotsOK
    <3>2. x.releases = (IF x.st = "closing" THEN 1 ELSE 0) BY DEF OneRelease
    <3>3. Idle \in Records /\ Idle.st = "idle" /\ Idle.releases = 0 BY DEF Records, Idle
    <3> QED BY <3>1, <3>2, <3>3
  <2>1. ASSUME NEW peer \in Endpoints, Start(e, k, peer) PROVE PlacesInv'
    <3>1. CASE Acquire(e, 0) /\ Set(e, k, [Idle EXCEPT !.st = "setup", !.peer = peer, !.initiator = TRUE])
      <4> DEFINE y == [Idle EXCEPT !.st = "setup", !.peer = peer, !.initiator = TRUE]
      <4>1. y \in Records /\ y.st = "setup" /\ y.releases = 0 BY <2>0 DEF Records, Idle
      <4>2. x.st = "idle" /\ UNCHANGED <<now, signals>> BY <2>1 DEF Start
      <4>3. active' = [active EXCEPT ![e] = @ + 1] BY <3>1 DEF Acquire
      <4>4. Set(e, k, y) BY <3>1
      <4> HIDE DEF y
      <4>5. SlotsOK' /\ OneRelease' /\ ActiveExact' /\ active' \in [Endpoints -> Int]
        BY <4>4, <4>1, <4>2, <4>3, Counted DEF InUse
      <4>6. seen' \in [Endpoints -> [Calls -> Nat]] BY <3>1, SeenType
      <4> QED BY <4>2, <4>5, <4>6 DEF RestOK
    <3>2. CASE Refuse(e, 0) /\ UNCHANGED slots
      <4>1. seen' \in [Endpoints -> [Calls -> Nat]] BY <3>2, SeenType
      <4> QED BY <3>2, <4>1, <2>1, <1>0 DEF RestOK, Start, Refuse
    <3> QED BY <2>1, <3>1, <3>2 DEF Start
  <2>2. ASSUME NEW s \in signals, Accept(e, k, s) PROVE PlacesInv'
    <3> DEFINE y == [Idle EXCEPT !.st = "verified", !.call = s.call, !.peer = s.from]
    <3>1. y \in Records /\ y.st = "verified" /\ y.releases = 0 BY <2>0 DEF Records, Idle, RestOK, Signals
    <3>2. x.st = "idle" /\ Set(e, k, y) /\ UNCHANGED <<now, active, seen, signals>> BY <2>2 DEF Accept
    <3> HIDE DEF y
    <3>3. SlotsOK' /\ OneRelease' /\ ActiveExact' BY <3>1, <3>2, Counted DEF InUse
    <3> QED BY <3>2, <3>3 DEF RestOK
  <2>3. ASSUME NEW s \in signals, ApplyAnswer(e, k, s) PROVE PlacesInv'
    <3> DEFINE y == [x EXCEPT !.answered = TRUE]
    <3>1. y \in Records /\ y.st = x.st /\ y.releases = x.releases BY <2>0 DEF Records
    <3>2. x.st = "open" /\ Set(e, k, y) /\ UNCHANGED <<now, active, seen, signals>> BY <2>3 DEF ApplyAnswer
    <3>3. SlotsOK' /\ OneRelease' /\ ActiveExact' BY <3>1, <3>2, <2>0, Counted DEF InUse
    <3> QED BY <3>2, <3>3 DEF RestOK
  <2>4. ASSUME NEW c \in Calls \cup {0} PROVE Opened(e, k, c) \in Records /\ Opened(e, k, c).st = "open"
                                             /\ Opened(e, k, c).releases = x.releases
    <3>1. Earliest(now + CallDuration) \in Int BY LimitsAreNumbers, DurationsAreNumbers DEF Earliest, RestOK
    <3> QED BY <3>1, <2>0 DEF Opened, Records
  <2>5. ASSUME NEW c \in Calls \cup {0}, x.st = "setup", Set(e, k, Opened(e, k, c)), UNCHANGED <<now, active, seen>>,
               NEW type \in {"offer", "answer"}, signals' = signals \cup {Signal(type, c, e, x.peer)}
        PROVE  PlacesInv'
    <3>1. SlotsOK' /\ OneRelease' /\ ActiveExact' BY <2>4, <2>5, <2>0, Counted DEF InUse
    <3>2. x.peer \in Endpoints \cup {0} BY <2>0 DEF Records
    <3>3. Signal(type, c, e, x.peer) \in Signals BY <3>2, SignalType
    <3> QED BY <2>5, <3>1, <3>3 DEF RestOK
  <2>6. CASE Started(e, k) BY <2>6, <2>5 DEF Started
  <2>7. CASE Accepted(e, k)
    <3>1. x.call \in Calls \cup {0} BY <2>0 DEF Records
    <3> QED BY <2>7, <2>5, <3>1 DEF Accepted
  <2>8. CASE AcceptAcquire(e, k)
    <3>0. x.call \in Calls \cup {0} BY <2>0 DEF Records
    <3>1. x.st = "verified" /\ UNCHANGED <<now, signals>> BY <2>8 DEF AcceptAcquire
    <3>2. CASE Acquire(e, x.call) /\ Set(e, k, [x EXCEPT !.st = "setup"])
      <4> DEFINE y == [x EXCEPT !.st = "setup"]
      <4>1. y \in Records /\ y.st = "setup" /\ y.releases = 0 BY <2>0, <3>1 DEF Records
      <4>2. active' = [active EXCEPT ![e] = @ + 1] BY <3>2 DEF Acquire
      <4>3. Set(e, k, y) BY <3>2
      <4> HIDE DEF y
      <4>4. SlotsOK' /\ OneRelease' /\ ActiveExact' /\ active' \in [Endpoints -> Int]
        BY <3>1, <4>1, <4>2, <4>3, Counted DEF InUse
      <4>5. seen' \in [Endpoints -> [Calls -> Nat]] BY <3>0, <3>2, SeenType
      <4> QED BY <3>1, <4>4, <4>5 DEF RestOK
    <3>3. CASE Refuse(e, x.call) /\ Set(e, k, Idle)
      <4>1. active' = active BY <3>3 DEF Refuse
      <4>2. SlotsOK' /\ OneRelease' /\ ActiveExact' BY <3>1, <3>3, <4>1, <2>0, Counted DEF InUse
      <4>3. seen' \in [Endpoints -> [Calls -> Nat]] BY <3>0, <3>3, SeenType
      <4> QED BY <3>1, <4>1, <4>2, <4>3 DEF RestOK
    <3> QED BY <2>8, <3>2, <3>3 DEF AcceptAcquire
  <2>9. ASSUME x.st \in InUse, Release(e), Set(e, k, Idle), UNCHANGED <<now, seen, signals>> PROVE PlacesInv'
    <3>1. active' = [active EXCEPT ![e] = @ - 1] BY <2>9, Released
    <3>2. SlotsOK' /\ OneRelease' /\ ActiveExact' /\ active' \in [Endpoints -> Int]
      BY <2>9, <3>1, <2>0, Counted DEF InUse
    <3> QED BY <2>9, <3>2 DEF RestOK
  <2>10. CASE SetupFails(e, k) BY <2>10, <2>9 DEF SetupFails, InUse
  <2>11. CASE CloseEnd(e, k) BY <2>11, <2>9, <2>0 DEF CloseEnd, InUse
  <2>12. CASE CloseBegin(e, k)
    <3> DEFINE y == [x EXCEPT !.st = "closing", !.releases = @ + 1]
    <3>1. x.st = "open" /\ Set(e, k, y) /\ UNCHANGED <<now, active, seen, signals>> BY <2>12 DEF CloseBegin, NotClosed
    <3>2. x.releases = 0 BY <3>1, <2>0
    <3>3. y = [x EXCEPT !.st = "closing", !.releases = 1] BY <3>2
    <3> HIDE DEF y
    <3>4. y \in Records /\ y.st = "closing" /\ y.releases = 1 BY <3>3, <2>0 DEF Records
    <3>5. SlotsOK' /\ OneRelease' /\ ActiveExact' BY <3>1, <3>4, <2>0, Counted DEF InUse
    <3> QED BY <3>1, <3>5 DEF RestOK
  <2> QED BY <1>3, <2>1, <2>2, <2>3, <2>6, <2>7, <2>8, <2>10, <2>11, <2>12 DEF Timer
<1> QED BY <1>1, <1>2, <1>3 DEF Next

(* Only acquire raises the counter, and only below the limit. *)
LEMMA LimitStep ==
  ASSUME RestOK, UnderLimit, [Next]_vars
  PROVE  UnderLimit'
<1>1. ASSUME NEW e \in Endpoints, NEW call, Acquire(e, call) PROVE UnderLimit'
  <2>1. active[e] < MaxConcurrent /\ active' = [active EXCEPT ![e] = @ + 1]
    BY <1>1 DEF Acquire, CanAcquire, HasPlace
  <2> QED BY <2>1, LimitsAreNumbers DEF UnderLimit, RestOK
<1>2. ASSUME NEW e \in Endpoints, Release(e) PROVE UnderLimit'
  <2>1. active[e] \in Int /\ active[e] <= MaxConcurrent BY DEF RestOK, UnderLimit
  <2>2. \A f \in Endpoints : active'[f] = active[f] \/ (f = e /\ active'[f] \in {active[e] - 1, 0})
    BY <1>2 DEF Release, RestOK
  <2> QED BY <2>1, <2>2, LimitsAreNumbers DEF UnderLimit
<1>3. ASSUME active' = active PROVE UnderLimit' BY <1>3 DEF UnderLimit
<1>4. ASSUME NEW e \in Endpoints, NEW k \in Slots[e], NEW peer \in Endpoints, Start(e, k, peer) PROVE UnderLimit'
  BY <1>1, <1>3, <1>4 DEF Start, Refuse
<1>5. ASSUME NEW e \in Endpoints, NEW k \in Slots[e], AcceptAcquire(e, k) PROVE UnderLimit'
  BY <1>1, <1>3, <1>5 DEF AcceptAcquire, Refuse
<1>6. ASSUME NEW e \in Endpoints, NEW k \in Slots[e], SetupFails(e, k) \/ CloseEnd(e, k) PROVE UnderLimit'
  BY <1>2, <1>6 DEF SetupFails, CloseEnd
<1>7. ASSUME NEW e \in Endpoints, NEW k \in Slots[e],
             \/ \E s \in signals : Accept(e, k, s) \/ ApplyAnswer(e, k, s)
             \/ Started(e, k) \/ Accepted(e, k) \/ CloseBegin(e, k) \/ Timer(e, k)
      PROVE  UnderLimit'
  BY <1>3, <1>7 DEF Accept, ApplyAnswer, Started, Accepted, CloseBegin, Timer
<1>8. CASE Tick \/ UNCHANGED vars BY <1>3, <1>8 DEF Tick, vars
<1> QED BY <1>4, <1>5, <1>6, <1>7, <1>8 DEF Next

-----------------------------------------------------------------------------
(* The inductive invariant holds. *)
LEMMA CallInvariant == Spec => [](PlacesInv /\ ReplayInv)
<1>1. Init => PlacesInv /\ ReplayInv
  <2> SUFFICES ASSUME Init PROVE PlacesInv /\ ReplayInv OBVIOUS
  <2>1. SlotsOK /\ OneRelease BY DEF Init, SlotsOK, OneRelease, Records, Idle
  <2>2. RestOK BY DEF Init, RestOK
  <2>3. \A e \in Endpoints : Busy(e) = {} BY DEF Init, Busy, Idle
  <2>4. ActiveExact BY <2>3, FS_EmptySet DEF Init, ActiveExact
  <2>5. ReplayInv BY DEF Init, ReplayInv, VerifiedOK, TakenOK, OffersOK, Idle
  <2> QED BY <2>1, <2>2, <2>4, <2>5 DEF PlacesInv
<1>2. PlacesInv /\ ReplayInv /\ [Next]_vars => (PlacesInv /\ ReplayInv)' BY PlacesStep, ReplayStep
<1> QED BY <1>1, <1>2, PTL DEF Spec

(* acquire and release balance, whichever of a failed set-up, Close and    *)
(* the timer ends a call: no place is lost, none is given back twice, and  *)
(* no more calls run than MaxConcurrent.                                   *)
THEOREM PlacesBalance == Spec => []PlacesExact
<1>1. Init => UnderLimit BY LimitsAreNumbers DEF Init, UnderLimit
<1>2. PlacesInv /\ UnderLimit /\ [Next]_vars => UnderLimit' BY LimitStep DEF PlacesInv
<1>3. PlacesInv /\ UnderLimit => PlacesExact BY DEF PlacesInv, UnderLimit, ActiveExact, PlacesExact
<1> QED BY <1>1, <1>2, <1>3, CallInvariant, PTL DEF Spec

(* The cache outlives what verifySignal accepts: a call ID is taken up a   *)
(* second time only after its offer has expired.                           *)
THEOREM NoEarlyReplay == Spec => SecondTimeOnlyExpired
<1>1. PlacesInv /\ ReplayInv /\ [Next]_vars =>
        [\A e \in Endpoints : \A k \in Slots[e] :
           slots[e][k].st = "verified" /\ slots'[e][k].st = "setup" /\ <<e, slots[e][k].call>> \in taken
             => \A s \in signals : s.type = "offer" /\ s.call = slots[e][k].call => s.expires <= Clock(e)]_vars
  BY ReplayStep
<1> QED BY <1>1, CallInvariant, PTL DEF Spec, SecondTimeOnlyExpired
=============================================================================
