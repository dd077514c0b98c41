-------------------------- MODULE ClientCoreProofs --------------------------
(***************************************************************************)
(* For any nodes, replica count, write quorum and faults: what a write     *)
(* promised lasts until a deletion is asked for, a record goes only after  *)
(* its replicas, an exclusion is served, the work solved is the cheapest   *)
(* that will do, and a write falls short only for want of nodes.           *)
(***************************************************************************)
EXTENDS ClientCore, FiniteSetTheorems, TLAPS

Scores == [fails : 0..FailureLimit, left : 0..Exclusion]

ScoreOK == score \in [Nodes -> Scores]

(* No score in T is closer to the end of its exclusion than in S. *)
NoneShorter(S, T) == \A n \in Nodes : T[n].left >= S[n].left

-----------------------------------------------------------------------------
(* Success, Failure and Exclude of reputation.go never shorten an exclusion. *)
LEMMA OneScore ==
  ASSUME NEW s \in Scores
  PROVE  /\ Success(s) \in Scores /\ Success(s).left >= s.left
         /\ Failure(s) \in Scores /\ Failure(s).left >= s.left
         /\ Exclude(s) \in Scores /\ Exclude(s).left >= s.left
BY Times DEF Scores, Success, Failure, Exclude, OneMore, FailureLimit

(* Giving some nodes a Success and others a Failure shortens no exclusion. *)
LEMMA ScoredShortensNone ==
  ASSUME ScoreOK, NEW good, NEW bad
  PROVE  Scored(good, bad) \in [Nodes -> Scores] /\ NoneShorter(score, Scored(good, bad))
<1>1. ASSUME NEW n \in Nodes
      PROVE  Scored(good, bad)[n] \in Scores /\ Scored(good, bad)[n].left >= score[n].left
  <2>1. score[n] \in Scores BY DEF ScoreOK
  <2>2. score[n].left >= score[n].left BY <2>1, Times DEF Scores
  <2> QED BY <2>1, <2>2, OneScore DEF Scored
<1> QED BY <1>1 DEF Scored, NoneShorter

(* Every step keeps the scores in their ranges, and only Tick and Restart  *)
(* shorten an exclusion.                                                   *)
LEMMA ScoreStep ==
  ASSUME ScoreOK, [Next]_vars
  PROVE  ScoreOK' /\ (Tick \/ Restart \/ NoneShorter(score, score'))
<1>0. ASSUME score' = score PROVE ScoreOK' /\ NoneShorter(score, score')
  BY <1>0, Times DEF ScoreOK, Scores, NoneShorter
<1>1. ASSUME NEW good, NEW bad, score' = Scored(good, bad)
      PROVE  ScoreOK' /\ NoneShorter(score, score')
  BY <1>1, ScoredShortensNone DEF ScoreOK
<1>2. CASE StoreReplicated BY <1>2, <1>0 DEF StoreReplicated
<1>3. CASE AskParameters BY <1>3, <1>1 DEF AskParameters
<1>4. CASE Select BY <1>4, <1>0 DEF Select
<1>5. CASE WritePrimary BY <1>5, <1>1 DEF WritePrimary, Written
<1>6. CASE WriteReplacement BY <1>6, <1>1 DEF WriteReplacement, Written
<1>7. CASE Persist BY <1>7, <1>0 DEF Persist
<1>8. CASE \E repair \in BOOLEAN : Audit(repair) BY <1>8, <1>0 DEF Audit
<1>9. CASE AuditNext
  <2>1. PICK n \in todo : Prove(n) BY <1>9 DEF AuditNext
  <2>2. CASE score' = [score EXCEPT ![n] = Exclude(@)]
    <3> USE <2>2
    <3>1. ASSUME NEW m \in Nodes
          PROVE  score'[m] \in Scores /\ score'[m].left >= score[m].left
      <4>1. score[m] \in Scores BY DEF ScoreOK
      <4>2. score[m].left >= score[m].left BY <4>1, Times DEF Scores
      <4> QED BY <4>1, <4>2, OneScore DEF ScoreOK
    <3>2. score' = [m \in Nodes |-> score'[m]] BY DEF ScoreOK
    <3> QED BY <3>1, <3>2 DEF ScoreOK, NoneShorter
  <2> QED BY <2>1, <2>2, <1>1 DEF Prove
<1>10. CASE AuditEnd BY <1>10, <1>0 DEF AuditEnd
<1>11. CASE Delete BY <1>11, <1>0 DEF Delete
<1>12. CASE DeleteNext BY <1>12, <1>0, <1>1 DEF DeleteNext
<1>13. CASE DeleteEnd BY <1>13, <1>0 DEF DeleteEnd
<1>14. CASE DeleteItemEverywhere BY <1>14, <1>0 DEF DeleteItemEverywhere
<1>15. CASE EverywhereNext BY <1>15, <1>0 DEF EverywhereNext
<1>16. CASE FetchFails BY <1>16, <1>1 DEF FetchFails
<1>17. CASE LoadDelivery BY <1>17, <1>0 DEF LoadDelivery
<1>18. CASE Restart BY <1>18, Times DEF Restart, ScoreOK, Scores, NoScore, FailureLimit
<1>19. CASE Forget BY <1>19, <1>0 DEF Forget
<1>20. CASE Tick
  <2>1. ASSUME NEW n \in Nodes
        PROVE  [score[n] EXCEPT !.left = IF @ > 0 THEN @ - 1 ELSE 0] \in Scores
    BY Times DEF ScoreOK, Scores
  <2> QED BY <1>20, <2>1 DEF Tick, ScoreOK
<1>21. CASE UNCHANGED vars BY <1>21, <1>0 DEF vars
<1> QED BY <1>2, <1>3, <1>4, <1>5, <1>6, <1>7, <1>8, <1>9, <1>10, <1>11, <1>12, <1>13,
           <1>14, <1>15, <1>16, <1>17, <1>18, <1>19, <1>20, <1>21 DEF Next

(* The scores start and stay in their ranges. *)
LEMMA ScoresTyped == Spec => []ScoreOK
<1>1. Init => ScoreOK BY Times DEF Init, ScoreOK, Scores, NoScore, FailureLimit
<1>2. ScoreOK /\ [Next]_vars => ScoreOK' BY ScoreStep
<1> QED BY <1>1, <1>2, PTL DEF Spec

(* An exclusion lasts its time (SECURITY.md): no answer, audit, write or   *)
(* fetch shortens it, for any nodes and any length of exclusion.           *)
THEOREM ExclusionLasts == Spec => ExclusionServed
<1>1. ASSUME ScoreOK, [Next]_vars
      PROVE  [\A n \in Nodes : score'[n].left < score[n].left => Tick \/ Restart]_vars
  <2> USE <1>1
  <2>1. ASSUME NEW n \in Nodes, score'[n].left < score[n].left PROVE Tick \/ Restart
    <3>1. ScoreOK' BY ScoreStep
    <3>2. score[n].left \in Nat /\ score'[n].left \in Nat BY <3>1, Times DEF ScoreOK, Scores
    <3> QED BY <2>1, <3>2, ScoreStep DEF NoneShorter
  <2> QED BY <2>1
<1> QED BY <1>1, ScoresTyped, PTL DEF Spec, ExclusionServed
-----------------------------------------------------------------------------
(* The sets of nodes an operation works with. *)
NodesOK ==
  /\ holds \subseteq Nodes /\ gone \subseteq Nodes /\ delivery \subseteq Nodes /\ record \subseteq Nodes
  /\ todo \subseteq Nodes /\ usable \subseteq Nodes /\ receipts \subseteq Nodes
  /\ DOMAIN answered \subseteq Nodes

(* A receipt stands for a copy, while the write it belongs to goes on. *)
ReceiptsOK ==
  /\ receipts \subseteq holds \cup gone
  /\ pc # "replace" => receipts = {}

(* What a Delete has done: the nodes it is through with hold nothing. *)
DeletionOK ==
  /\ pc \in {"delete", "everywhere"} => ~promised
  /\ pc = "idle" => ~unproved
  /\ pc = "delete" /\ ~unproved => delivery \cap holds \subseteq todo

(* The inductive invariant. *)
IInv == NodesOK /\ ReceiptsOK /\ DeletionOK /\ Durable

(* A larger set of nodes has at least as many. *)
LEMMA Monotone ==
  ASSUME NEW A, NEW B, A \subseteq B, B \subseteq Nodes
  PROVE  Cardinality(A) <= Cardinality(B) /\ Cardinality(A) \in Nat /\ Cardinality(B) \in Nat
BY NodesAreNumbers, FS_Subset, FS_CardinalityType

(* Outside of deletions no copy disappears unless its node lost it. *)
LEMMA CopiesStay ==
  ASSUME [Next]_vars, pc \notin {"delete", "everywhere"}
  PROVE  holds \cup gone \subseteq holds' \cup gone'
<1>1. CASE WritePrimary BY <1>1 DEF WritePrimary, Written
<1>2. CASE WriteReplacement BY <1>2 DEF WriteReplacement, Written
<1>3. CASE Forget BY <1>3 DEF Forget
<1>4. CASE UNCHANGED <<holds, gone>> BY <1>4
<1> QED
  BY <1>1, <1>2, <1>3, <1>4 DEF Next, vars, promise, StoreReplicated, AskParameters, Select, Persist, Audit,
     AuditNext, AuditEnd, Delete, DeleteNext, DeleteEnd, DeleteItemEverywhere, EverywhereNext,
     FetchFails, LoadDelivery, Restart, Tick

(* The node sets stay sets of nodes. *)
LEMMA NodesStep ==
  ASSUME NodesOK, [Next]_vars
  PROVE  NodesOK'
<1> USE DEF NodesOK, client, promise, operation
<1>1. CASE StoreReplicated BY <1>1 DEF StoreReplicated, BeginWrite, GoOn, Return, AllowedNodes
<1>2. CASE AskParameters BY <1>2 DEF AskParameters, GoOn
<1>3. CASE Select BY <1>3 DEF Select, GoOn, Return, Group
<1>4. CASE WritePrimary BY <1>4 DEF WritePrimary, Written, GoOn
<1>5. CASE WriteReplacement BY <1>5 DEF WriteReplacement, Written
<1>6. CASE Persist BY <1>6 DEF Persist, PersistDelivery, Return
<1>7. CASE \E repair \in BOOLEAN : Audit(repair) BY <1>7 DEF Audit, GoOn
<1>8. CASE AuditNext BY <1>8 DEF AuditNext
<1>9. CASE AuditEnd BY <1>9 DEF AuditEnd, BeginWrite, GoOn, Return, AllowedNodes
<1>10. CASE Delete BY <1>10 DEF Delete, GoOn
<1>11. CASE DeleteNext BY <1>11 DEF DeleteNext, DeleteAt
<1>12. CASE DeleteEnd BY <1>12 DEF DeleteEnd, Return
<1>13. CASE DeleteItemEverywhere BY <1>13 DEF DeleteItemEverywhere, GoOn
<1>14. CASE EverywhereNext BY <1>14 DEF EverywhereNext, DeleteAt, Return
<1>15. CASE FetchFails BY <1>15 DEF FetchFails
<1>16. CASE LoadDelivery BY <1>16 DEF LoadDelivery
<1>17. CASE Restart BY <1>17 DEF Restart, Return
<1>18. CASE Forget BY <1>18 DEF Forget
<1>19. CASE Tick BY <1>19 DEF Tick
<1>20. CASE UNCHANGED vars BY <1>20 DEF vars
<1> QED BY <1>1, <1>2, <1>3, <1>4, <1>5, <1>6, <1>7, <1>8, <1>9, <1>10, <1>11, <1>12, <1>13,
           <1>14, <1>15, <1>16, <1>17, <1>18, <1>19, <1>20 DEF Next

(* A receipt is collected with its copy, and dropped when the write ends. *)
LEMMA ReceiptsStep ==
  ASSUME ReceiptsOK, [Next]_vars
  PROVE  ReceiptsOK'
<1> USE DEF ReceiptsOK, promise, operation
<1>1. CASE StoreReplicated BY <1>1 DEF StoreReplicated, BeginWrite, GoOn, Return
<1>2. CASE AskParameters BY <1>2 DEF AskParameters, GoOn
<1>3. CASE Select BY <1>3 DEF Select, GoOn, Return
<1>4. CASE WritePrimary BY <1>4 DEF WritePrimary, Written, GoOn
<1>5. CASE WriteReplacement BY <1>5 DEF WriteReplacement, Written
<1>6. CASE Persist BY <1>6 DEF Persist, Return
<1>7. CASE \E repair \in BOOLEAN : Audit(repair) BY <1>7 DEF Audit, GoOn
<1>8. CASE AuditNext BY <1>8 DEF AuditNext
<1>9. CASE AuditEnd BY <1>9 DEF AuditEnd, BeginWrite, GoOn, Return
<1>10. CASE Delete BY <1>10 DEF Delete, GoOn
<1>11. CASE DeleteNext BY <1>11 DEF DeleteNext
<1>12. CASE DeleteEnd BY <1>12 DEF DeleteEnd, Return
<1>13. CASE DeleteItemEverywhere BY <1>13 DEF DeleteItemEverywhere, GoOn
<1>14. CASE EverywhereNext BY <1>14 DEF EverywhereNext, Return
<1>15. CASE FetchFails BY <1>15 DEF FetchFails
<1>16. CASE LoadDelivery BY <1>16 DEF LoadDelivery
<1>17. CASE Restart BY <1>17 DEF Restart, Return
<1>18. CASE Forget BY <1>18 DEF Forget
<1>19. CASE Tick BY <1>19 DEF Tick
<1>20. CASE UNCHANGED vars BY <1>20 DEF vars
<1> QED BY <1>1, <1>2, <1>3, <1>4, <1>5, <1>6, <1>7, <1>8, <1>9, <1>10, <1>11, <1>12, <1>13,
           <1>14, <1>15, <1>16, <1>17, <1>18, <1>19, <1>20 DEF Next

(* A node a Delete is through with has confirmed, unless unproved is set. *)
LEMMA DeletionStep ==
  ASSUME DeletionOK, [Next]_vars
  PROVE  DeletionOK'
<1> USE DEF DeletionOK, client, promise, operation
<1>1. CASE StoreReplicated BY <1>1 DEF StoreReplicated, BeginWrite, GoOn, Return
<1>2. CASE AskParameters BY <1>2 DEF AskParameters, GoOn
<1>3. CASE Select BY <1>3 DEF Select, GoOn, Return
<1>4. CASE WritePrimary BY <1>4 DEF WritePrimary, GoOn
<1>5. CASE WriteReplacement BY <1>5 DEF WriteReplacement
<1>6. CASE Persist BY <1>6 DEF Persist, Return
<1>7. CASE \E repair \in BOOLEAN : Audit(repair) BY <1>7 DEF Audit, GoOn
<1>8. CASE AuditNext BY <1>8 DEF AuditNext
<1>9. CASE AuditEnd BY <1>9 DEF AuditEnd, BeginWrite, GoOn, Return
<1>10. CASE Delete BY <1>10 DEF Delete, GoOn
<1>11. CASE DeleteNext BY <1>11 DEF DeleteNext, DeleteAt
<1>12. CASE DeleteEnd BY <1>12 DEF DeleteEnd, Return
<1>13. CASE DeleteItemEverywhere BY <1>13 DEF DeleteItemEverywhere, GoOn
<1>14. CASE EverywhereNext BY <1>14 DEF EverywhereNext, Return
<1>15. CASE FetchFails BY <1>15 DEF FetchFails
<1>16. CASE LoadDelivery BY <1>16 DEF LoadDelivery
<1>17. CASE Restart BY <1>17 DEF Restart, Return
<1>18. CASE Forget BY <1>18 DEF Forget
<1>19. CASE Tick BY <1>19 DEF Tick
<1>20. CASE UNCHANGED vars BY <1>20 DEF vars
<1> QED BY <1>1, <1>2, <1>3, <1>4, <1>5, <1>6, <1>7, <1>8, <1>9, <1>10, <1>11, <1>12, <1>13,
           <1>14, <1>15, <1>16, <1>17, <1>18, <1>19, <1>20 DEF Next

(* A promise begins with a write quorum of receipts, each of them a copy,  *)
(* and copies stay while it lasts.                                         *)
LEMMA DurableStep ==
  ASSUME IInv, NodesOK', [Next]_vars
  PROVE  Durable'
<1> SUFFICES ASSUME promised' PROVE (Cardinality(holds \cup gone) >= WriteQuorum)'
  BY DEF Durable
<1>0. WriteQuorum \in Nat /\ holds' \cup gone' \subseteq Nodes
  <2>1. IsFiniteSet(Nodes) /\ Cardinality(Nodes) \in Nat BY NodesAreNumbers, FS_CardinalityType
  <2> QED BY <2>1, NewAccepts DEF NodesOK
<1>1. CASE promised
  <2> USE <1>1
  <2>1. pc \notin {"delete", "everywhere"} BY DEF IInv, DeletionOK
  <2>2. holds \cup gone \subseteq holds' \cup gone' BY <2>1, CopiesStay
  <2> QED BY <1>0, <2>2, Monotone DEF IInv, Durable
<1>2. CASE ~promised
  <2>1. Persist /\ Cardinality(receipts) >= WriteQuorum
    BY <1>2 DEF Next, vars, promise, StoreReplicated, AskParameters, Select, WritePrimary, WriteReplacement,
       Persist, QuorumReached, Audit, AuditNext, AuditEnd, Delete, DeleteNext, DeleteEnd, DeleteItemEverywhere,
       EverywhereNext, FetchFails, LoadDelivery, Restart, Forget, Tick
  <2>2. receipts \subseteq holds' \cup gone' BY <2>1 DEF Persist, IInv, ReceiptsOK
  <2> QED BY <1>0, <2>1, <2>2, Monotone
<1> QED BY <1>1, <1>2

(* The inductive invariant holds. *)
LEMMA Invariant == Spec => []IInv
<1>1. Init => IInv BY DEF Init, IInv, NodesOK, ReceiptsOK, DeletionOK, Durable
<1>2. IInv /\ [Next]_vars => IInv'
  <2> SUFFICES ASSUME IInv, [Next]_vars PROVE IInv' OBVIOUS
  <2>1. NodesOK' BY NodesStep DEF IInv
  <2>2. ReceiptsOK' BY ReceiptsStep DEF IInv
  <2>3. DeletionOK' BY DeletionStep DEF IInv
  <2>4. Durable' BY <2>1, DurableStep
  <2> QED BY <2>1, <2>2, <2>3, <2>4 DEF IInv
<1> QED BY <1>1, <1>2, PTL DEF Spec

(* Once StoreReplicated has reached its write quorum, that many nodes hold *)
(* the item or have lost it themselves, until a deletion is asked for.     *)
THEOREM DurableWrites == Spec => []Durable
<1>1. IInv => Durable BY DEF IInv
<1> QED BY <1>1, Invariant, PTL

(* Delete removes the record only when no node of the delivery holds the   *)
(* item: the way back to the replicas is kept while there are any.         *)
THEOREM RecordOutlivesReplicas == Spec => ForgetOnlyDeleted
<1>1. ASSUME IInv, [Next]_vars
      PROVE  [record # {} /\ record' = {} => delivery \cap holds = {}]_vars
  <2> USE <1>1
  <2> SUFFICES ASSUME record # {}, record' = {} PROVE delivery \cap holds = {}
    OBVIOUS
  <2>1. DeleteEnd \/ Persist
    BY DEF Next, vars, client, StoreReplicated, AskParameters, Select, WritePrimary, WriteReplacement, Audit,
       AuditNext, AuditEnd, Delete, DeleteNext, DeleteItemEverywhere, EverywhereNext, FetchFails,
       LoadDelivery, Restart, Forget, Tick
  <2>2. CASE Persist BY <2>2 DEF Persist, PersistDelivery, client
  <2>3. CASE DeleteEnd BY <2>3 DEF DeleteEnd, AllDeleted, client, IInv, DeletionOK
  <2> QED BY <2>1, <2>2, <2>3
<1> QED BY <1>1, Invariant, PTL DEF Spec, ForgetOnlyDeleted
-----------------------------------------------------------------------------
(* The choice of the work.                                                 *)

(* The answers a write has are those of nodes, with their numbers. *)
AnswersOK ==
  /\ DOMAIN answered \subseteq Nodes
  /\ \A n \in DOMAIN answered : answered[n].epoch \in Nat /\ answered[n].difficulty \in Nat

(* The nodes of an epoch that take work of difficulty d. *)
Accepting(e, d) == {n \in Group(e) : answered[n].difficulty <= d}

(* Sorting by difficulty and NodeID gives an earlier node a smaller place. *)
LEMMA PlaceLess ==
  ASSUME AnswersOK, NEW S, S \subseteq DOMAIN answered, NEW a \in S, NEW b \in S, Before(a, b)
  PROVE  Place(a, S) \in Nat /\ Place(b, S) \in Nat /\ Place(a, S) < Place(b, S)
<1> DEFINE A == {m \in S : Before(m, a)}
           B == {m \in S : Before(m, b)}
<1>1. \A m \in S : m \in Nat /\ answered[m].difficulty \in Nat BY NodesAreNumbers DEF AnswersOK
<1>2. A \subseteq B BY <1>1 DEF Before
<1>3. a \in B /\ a \notin A BY <1>1 DEF Before
<1>4. IsFiniteSet(B)
  <2>1. B \in SUBSET Nodes BY DEF AnswersOK
  <2> QED BY <2>1, NodesAreNumbers, FS_Subset
<1>5. A \in SUBSET B BY <1>2
<1>6. Cardinality(A) \in Nat /\ Cardinality(B) \in Nat BY <1>4, <1>5, FS_Subset, FS_CardinalityType
<1>7. Cardinality(A) <= Cardinality(B) /\ Cardinality(A) # Cardinality(B) BY <1>3, <1>4, <1>5, FS_Subset
<1> QED BY <1>6, <1>7 DEF Place

(* No two nodes share a place, and the places are those of a list. *)
LEMMA PlacesDistinct ==
  ASSUME AnswersOK, NEW S, S \subseteq DOMAIN answered
  PROVE  /\ IsFiniteSet(S) /\ Cardinality(S) \in Nat
         /\ \A a \in S : Place(a, S) \in 0..(Cardinality(S) - 1)
         /\ \A a, b \in S : Place(a, S) = Place(b, S) => a = b
<1>1. \A m \in S : m \in Nat /\ answered[m].difficulty \in Nat BY NodesAreNumbers DEF AnswersOK
<1>2. IsFiniteSet(S) /\ Cardinality(S) \in Nat
  <2>1. S \in SUBSET Nodes BY DEF AnswersOK
  <2> QED BY <2>1, NodesAreNumbers, FS_Subset, FS_CardinalityType
<1>3. ASSUME NEW a \in S PROVE Place(a, S) \in 0..(Cardinality(S) - 1)
  <2> DEFINE A == {m \in S : Before(m, a)}
  <2>1. A \in SUBSET S /\ a \notin A BY <1>1 DEF Before
  <2>2. Cardinality(A) \in Nat BY <1>2, <2>1, FS_Subset, FS_CardinalityType
  <2>3. Cardinality(A) <= Cardinality(S) /\ Cardinality(A) # Cardinality(S) BY <1>2, <2>1, FS_Subset
  <2>4. Place(a, S) = Cardinality(A) BY DEF Place
  <2> HIDE DEF A
  <2> QED BY <1>2, <2>2, <2>3, <2>4
<1>4. ASSUME NEW a \in S, NEW b \in S, a # b PROVE Place(a, S) # Place(b, S)
  <2>1. Before(a, b) \/ Before(b, a) BY <1>1, <1>4 DEF Before
  <2>2. CASE Before(a, b) BY <2>2, PlaceLess
  <2>3. CASE Before(b, a) BY <2>3, PlaceLess
  <2> QED BY <2>1, <2>2, <2>3
<1> QED BY <1>2, <1>3, <1>4

(* group[k] exists in a sorted group of more than k nodes: places are      *)
(* distinct and there are as many of them as nodes, so each is taken.      *)
LEMMA Ranked ==
  ASSUME AnswersOK, NEW S, S \subseteq DOMAIN answered, NEW k \in Nat, k < Cardinality(S)
  PROVE  At(k, S) \in S /\ Place(At(k, S), S) = k
<1> DEFINE T == 0..(Cardinality(S) - 1)
           f == [n \in S |-> Place(n, S)]
<1>1. Cardinality(S) \in Nat BY PlacesDistinct
<1>2. f \in Injection(S, T) BY PlacesDistinct DEF Injection, IsInjective
<1>3. IsFiniteSet(T) /\ Cardinality(T) = Cardinality(S)
  <2>1. 0 \in Int /\ Cardinality(S) - 1 \in Int BY <1>1
  <2>2. IsFiniteSet(T) /\ Cardinality(T) = IF 0 > Cardinality(S) - 1 THEN 0 ELSE Cardinality(S) - 1 - 0 + 1
    BY <2>1, FS_Interval
  <2> QED BY <1>1, <2>2
<1>4. k \in T BY <1>1
<1> HIDE DEF T
<1>5. f \in Surjection(S, T) BY <1>2, <1>3, FS_Injection
<1>6. \E n \in S : f[n] = k BY <1>4, <1>5 DEF Surjection
<1> QED BY <1>6 DEF At

(* The first k nodes of a sorted group are at most k. *)
LEMMA FirstFew ==
  ASSUME AnswersOK, NEW S, S \subseteq DOMAIN answered, NEW k \in Nat
  PROVE  Cardinality({n \in S : Place(n, S) < k}) <= k
<1> DEFINE F == {n \in S : Place(n, S) < k}
           T == 0..(k - 1)
           f == [n \in F |-> Place(n, S)]
<1>1. Cardinality(S) \in Nat /\ \A a \in S : Place(a, S) \in 0..(Cardinality(S) - 1) BY PlacesDistinct
<1>2. \A n \in F : Place(n, S) \in T BY <1>1
<1>3. f \in Injection(F, T)
  <2> HIDE DEF T
  <2> QED BY <1>2, PlacesDistinct DEF Injection, IsInjective
<1>4. IsFiniteSet(T) /\ Cardinality(T) = k
  <2>1. IsFiniteSet(T) /\ Cardinality(T) = IF 0 > k - 1 THEN 0 ELSE k - 1 - 0 + 1 BY FS_Interval
  <2> QED BY <2>1
<1> HIDE DEF T, f, F
<1>5. Cardinality(F) <= k BY <1>3, <1>4, FS_Injection
<1> QED BY <1>5 DEF F

(* group[c.writeQuorum-1].parameters.Difficulty is the least difficulty    *)
(* with a write quorum of nodes that take it.                              *)
LEMMA LeastWork ==
  ASSUME AnswersOK, NEW e, Cardinality(Group(e)) >= WriteQuorum
  PROVE  /\ Threshold(e) \in Nat
         /\ Cardinality(Accepting(e, Threshold(e))) >= WriteQuorum
         /\ \A d \in Int : d < Threshold(e) => Cardinality(Accepting(e, d)) < WriteQuorum
<1> DEFINE S == Group(e)
           n == At(WriteQuorum - 1, S)
           P == {m \in S : Before(m, n)}
<1>1. S \subseteq DOMAIN answered BY DEF Group
<1>2. WriteQuorum \in Nat \ {0} /\ Cardinality(S) \in Nat
  <2>1. Cardinality(Nodes) \in Nat BY NodesAreNumbers, FS_CardinalityType
  <2>2. Cardinality(S) \in Nat BY <1>1, PlacesDistinct
  <2> QED BY <2>1, <2>2, NewAccepts
<1>3. n \in S /\ Place(n, S) = WriteQuorum - 1
  <2>1. WriteQuorum - 1 \in Nat /\ WriteQuorum - 1 < Cardinality(S) BY <1>2
  <2> QED BY <1>1, <2>1, Ranked
<1>4. \A m \in S : m \in Nat /\ answered[m].difficulty \in Nat BY <1>1, NodesAreNumbers DEF AnswersOK
<1>5. Threshold(e) = answered[n].difficulty /\ Threshold(e) \in Nat BY <1>3, <1>4 DEF Threshold
<1>6. IsFiniteSet(S) BY <1>1, PlacesDistinct
<1>7. IsFiniteSet(P) /\ Cardinality(P) = WriteQuorum - 1 /\ n \notin P
  <2>1. P \in SUBSET S OBVIOUS
  <2>2. IsFiniteSet(P) BY <1>6, <2>1, FS_Subset
  <2>3. n \notin P BY <1>3, <1>4 DEF Before
  <2> QED BY <1>3, <2>2, <2>3 DEF Place
<1>8. Cardinality(P \cup {n}) = WriteQuorum
  <2>1. Cardinality(P \cup {n}) = Cardinality(P) + 1 BY <1>7, FS_AddElement
  <2> QED BY <1>2, <1>7, <2>1
<1>9. Cardinality(Accepting(e, Threshold(e))) >= WriteQuorum
  <2>1. P \cup {n} \subseteq Accepting(e, Threshold(e)) BY <1>3, <1>4, <1>5 DEF Accepting, Before
  <2>2. Accepting(e, Threshold(e)) \in SUBSET S BY DEF Accepting
  <2>3. IsFiniteSet(Accepting(e, Threshold(e))) BY <1>6, <2>2, FS_Subset
  <2>4. Cardinality(P \cup {n}) <= Cardinality(Accepting(e, Threshold(e)))
        /\ Cardinality(Accepting(e, Threshold(e))) \in Nat BY <2>1, <2>3, FS_Subset, FS_CardinalityType
  <2> QED BY <1>2, <1>8, <2>4
<1>10. ASSUME NEW d \in Int, d < Threshold(e) PROVE Cardinality(Accepting(e, d)) < WriteQuorum
  <2>1. Accepting(e, d) \in SUBSET P BY <1>3, <1>4, <1>5, <1>10 DEF Accepting, Before
  <2>2. Cardinality(Accepting(e, d)) <= Cardinality(P) /\ Cardinality(Accepting(e, d)) \in Nat
    BY <1>7, <2>1, FS_Subset, FS_CardinalityType
  <2> QED BY <1>2, <1>7, <2>2
<1> QED BY <1>5, <1>9, <1>10
(* Where a write stands: which nodes it has left, and which it is through  *)
(* with.  While it replaces, the nodes that take the work are those it has *)
(* left and those it has written to.                                       *)
WriteOK ==
  /\ work \in Nat
  /\ Cardinality(receipts) <= Replicas
  /\ pc \in {"select", "write"} => failed \cap DOMAIN answered = {}
  /\ pc = "replace" =>
       \E e \in {answered[n].epoch : n \in DOMAIN answered} :
         /\ usable \subseteq Accepting(e, work)
         /\ Accepting(e, work) \subseteq usable \cup receipts \cup failed
         /\ (receipts \cup failed) \cap DOMAIN answered \subseteq Group(e)

(* The answers come from the nodes asked and have their types. *)
LEMMA AnswersStep ==
  ASSUME AnswersOK, [Next]_vars, NodesOK
  PROVE  AnswersOK'
<1>1. CASE UNCHANGED answered BY <1>1 DEF AnswersOK
<1>2. CASE answered' = <<>> BY <1>2 DEF AnswersOK
<1>3. CASE AskParameters
  <2>1. PICK T, a : /\ T \subseteq Nodes /\ DOMAIN a = T /\ answered' = a
                    /\ \A n \in T : a[n] \in Parameters[n]
    BY <1>3 DEF AskParameters, NodesOK
  <2> QED BY <2>1, Answers DEF AnswersOK
<1> QED
  BY <1>1, <1>2, <1>3 DEF Next, vars, operation, StoreReplicated, Select, BeginWrite, Return, WritePrimary, WriteReplacement,
     Persist, Audit, AuditNext, AuditEnd, Delete, DeleteNext, DeleteEnd, DeleteItemEverywhere, EverywhereNext,
     FetchFails, LoadDelivery, Restart, Forget, Tick

(* Only Select begins to write, and until then nothing it chose changes. *)
LEMMA OnlySelectWrites ==
  ASSUME [Next]_vars, pc' = "write"
  PROVE  Select \/ (pc = "write" /\ UNCHANGED <<answered, usable, work, failed>>)
BY DEF Next, vars, operation, StoreReplicated, AskParameters, BeginWrite, Return, GoOn, WritePrimary, WriteReplacement,
     Persist, Audit, AuditNext, AuditEnd, Delete, DeleteNext, DeleteEnd, DeleteItemEverywhere, EverywhereNext,
     FetchFails, LoadDelivery, Restart, Forget, Tick

(* The epoch that the loop ends with, and its threshold, are the cheapest  *)
(* choice.                                                                 *)
LEMMA SelectedIsCheapest ==
  ASSUME AnswersOK, NEW e \in Candidates, Selected(e), NEW f \in {answered[n].epoch : n \in DOMAIN answered}
  PROVE  \/ Cardinality(Group(f)) < Cardinality(Group(e))
         \/ /\ Cardinality(Group(f)) = Cardinality(Group(e))
            /\ Threshold(e) > 0 => Cardinality(Accepting(f, Threshold(e) - 1)) < WriteQuorum
<1>1. \A g : Group(g) \subseteq DOMAIN answered BY DEF Group
<1>2. /\ Cardinality(Group(e)) \in Nat /\ Cardinality(Group(f)) \in Nat /\ WriteQuorum \in Nat
  <2>1. Cardinality(Nodes) \in Nat BY NodesAreNumbers, FS_CardinalityType
  <2> QED BY <1>1, <2>1, PlacesDistinct, NewAccepts
<1>3. Cardinality(Group(e)) >= WriteQuorum BY DEF Candidates
<1>4. CASE f \notin Candidates BY <1>2, <1>3, <1>4 DEF Candidates
<1>5. CASE f \in Candidates
  <2> USE <1>5
  <2>1. Cardinality(Group(f)) >= WriteQuorum BY DEF Candidates
  <2>2. Threshold(e) \in Nat /\ Threshold(f) \in Nat BY <1>3, <2>1, LeastWork
  <2>3. \/ Cardinality(Group(e)) > Cardinality(Group(f))
        \/ Cardinality(Group(e)) = Cardinality(Group(f)) /\ Threshold(e) <= Threshold(f)
    BY DEF Selected
  <2>4. ASSUME Threshold(e) <= Threshold(f) PROVE Cardinality(Accepting(f, Threshold(e) - 1)) < WriteQuorum
    <3>1. Threshold(e) - 1 \in Int /\ Threshold(e) - 1 < Threshold(f) BY <2>2, <2>4
    <3> QED BY <2>1, <3>1, LeastWork
  <2> QED BY <1>2, <2>3, <2>4
<1> QED BY <1>4, <1>5

(* Epoch e with its nodes and the work solved is the cheapest choice. *)
Cheapest(e) ==
  /\ usable = Accepting(e, work)
  /\ Cardinality(Accepting(e, work)) >= WriteQuorum
  /\ work > 0 => Cardinality(Accepting(e, work - 1)) < WriteQuorum
  /\ \A f \in {answered[n].epoch : n \in DOMAIN answered} \ {e} :
       \/ Cardinality(Group(f)) < Cardinality(Group(e))
       \/ /\ Cardinality(Group(f)) = Cardinality(Group(e))
          /\ work > 0 => Cardinality(Accepting(f, work - 1)) < WriteQuorum

(* A step keeps the choice of the work the cheapest. *)
LEMMA CheapestStep ==
  ASSUME AnswersOK, CheapestWork, [Next]_vars
  PROVE  CheapestWork'
<1> SUFFICES ASSUME pc' = "write" PROVE \E e \in {answered'[n].epoch : n \in DOMAIN answered'} : Cheapest(e)'
  BY DEF CheapestWork, Cheapest, Accepting
<1>0. ASSUME answered' = answered
      PROVE  (\A f : Group(f)' = Group(f)) /\ (\A f, d : Accepting(f, d)' = Accepting(f, d))
  BY <1>0 DEF Accepting, Group
<1>1. CASE pc = "write" /\ UNCHANGED <<answered, usable, work>>
  <2> USE <1>1
  <2>1. PICK e \in {answered[n].epoch : n \in DOMAIN answered} : Cheapest(e)
    BY DEF CheapestWork, Cheapest, Accepting
  <2>2. Cheapest(e)'
    <3>1. (\A f : Group(f)' = Group(f)) /\ (\A f, d : Accepting(f, d)' = Accepting(f, d)) BY <1>0
    <3>2. Accepting(e, work)' = Accepting(e, work) BY DEF Accepting, Group
    <3>3. \A f : Accepting(f, work - 1)' = Accepting(f, work - 1) BY DEF Accepting, Group
    <3> QED BY <2>1, <3>1, <3>2, <3>3 DEF Cheapest
  <2> QED BY <2>1, <2>2
<1>2. CASE Select
  <2>1. PICK e \in Candidates :
          /\ Selected(e) /\ work' = Threshold(e) /\ usable' = Accepting(e, Threshold(e)) /\ answered' = answered
    BY <1>2 DEF Select, Return, Accepting
  <2>2. e \in {answered[n].epoch : n \in DOMAIN answered} /\ Cardinality(Group(e)) >= WriteQuorum
    BY DEF Candidates
  <2>3. /\ Threshold(e) \in Nat
        /\ Cardinality(Accepting(e, Threshold(e))) >= WriteQuorum
        /\ \A d \in Int : d < Threshold(e) => Cardinality(Accepting(e, d)) < WriteQuorum
    BY <2>2, LeastWork
  <2>4. Threshold(e) - 1 \in Int /\ Threshold(e) - 1 < Threshold(e) BY <2>3
  <2>5. Cardinality(Accepting(e, Threshold(e) - 1)) < WriteQuorum BY <2>3, <2>4
  <2>6. \A f \in {answered[n].epoch : n \in DOMAIN answered} \ {e} :
          \/ Cardinality(Group(f)) < Cardinality(Group(e))
          \/ /\ Cardinality(Group(f)) = Cardinality(Group(e))
             /\ Threshold(e) > 0 => Cardinality(Accepting(f, Threshold(e) - 1)) < WriteQuorum
    BY <2>1, SelectedIsCheapest
  <2>7. \A f : Group(f)' = Group(f) BY <2>1, <1>0
  <2>8. Accepting(e, work)' = Accepting(e, Threshold(e)) BY <2>1 DEF Accepting, Group
  <2>9. \A f : Accepting(f, work - 1)' = Accepting(f, Threshold(e) - 1) BY <2>1 DEF Accepting, Group
  <2>10. Cheapest(e)' BY <2>1, <2>3, <2>5, <2>6, <2>7, <2>8, <2>9 DEF Cheapest
  <2> QED BY <2>1, <2>2, <2>10
<1> QED BY <1>1, <1>2, OnlySelectWrites

(* The answers of a write are typed and its work is the cheapest. *)
LEMMA CheapestInvariant == Spec => [](AnswersOK /\ CheapestWork)
<1>1. Init => AnswersOK /\ CheapestWork BY DEF Init, AnswersOK, CheapestWork
<1>2. IInv /\ (AnswersOK /\ CheapestWork) /\ [Next]_vars => (AnswersOK /\ CheapestWork)'
  BY AnswersStep, CheapestStep DEF IInv
<1> QED BY <1>1, <1>2, Invariant, PTL DEF Spec

(* The work that StoreReplicated solves is the least that a write quorum   *)
(* of one epoch takes, in the epoch with the most nodes, for any nodes and *)
(* whatever parameters they answer.                                        *)
THEOREM WorkIsCheapest == Spec => []CheapestWork
BY CheapestInvariant, PTL
(* A write has at most Replicas receipts, and in Receipts, FailedNodes and *)
(* the nodes it has left, all nodes of its epoch that take the work.       *)
LEMMA WriteStep ==
  ASSUME AnswersOK, CheapestWork, WriteOK, NodesOK, ReceiptsOK, [Next]_vars
  PROVE  WriteOK'
<1>0. Replicas \in Nat /\ IsFiniteSet(receipts) /\ Cardinality(receipts) \in Nat
  <2>1. Cardinality(Nodes) \in Nat BY NodesAreNumbers, FS_CardinalityType
  <2>2. receipts \in SUBSET Nodes BY DEF NodesOK
  <2>3. IsFiniteSet(receipts) BY <2>2, NodesAreNumbers, FS_Subset
  <2>4. Cardinality(receipts) \in Nat BY <2>3, FS_CardinalityType
  <2> QED BY <2>1, <2>3, <2>4, NewAccepts
<1>1. CASE UNCHANGED operation
  <2> USE <1>1
  <2>1. \A e : Accepting(e, work)' = Accepting(e, work) /\ Group(e)' = Group(e)
    BY DEF operation, Accepting, Group
  <2>2. CASE pc = "replace"
    <3> USE <2>2
    <3>1. PICK e \in {answered[n].epoch : n \in DOMAIN answered} :
            /\ usable \subseteq Accepting(e, work)
            /\ Accepting(e, work) \subseteq usable \cup receipts \cup failed
            /\ (receipts \cup failed) \cap DOMAIN answered \subseteq Group(e)
      BY DEF WriteOK
    <3>2. /\ usable' \subseteq Accepting(e, work)' /\ Accepting(e, work)' \subseteq usable' \cup receipts' \cup failed'
          /\ (receipts' \cup failed') \cap DOMAIN answered' \subseteq Group(e)'
      BY <2>1, <3>1 DEF operation
    <3> QED BY <3>2 DEF WriteOK, operation
  <2>3. CASE pc # "replace" BY <2>3 DEF WriteOK, operation
  <2> QED BY <2>2, <2>3
<1>2. CASE receipts' = {} /\ work' = 0 /\ pc' \notin {"select", "write", "replace"}
  <2>1. Cardinality({}) = 0 BY FS_EmptySet
  <2> QED BY <1>0, <1>2, <2>1 DEF WriteOK
<1>3. CASE AskParameters
  <2>1. receipts' = receipts /\ work' = work /\ pc' = "select" /\ failed' \cap DOMAIN answered' = {}
    BY <1>3 DEF AskParameters, GoOn
  <2> QED BY <2>1 DEF WriteOK
<1>4. CASE Select /\ pc' = "write"
  <2> USE <1>4
  <2>1. receipts' = receipts /\ failed' = failed /\ answered' = answered /\ pc = "select"
    BY DEF Select, Return
  <2>2. PICK e \in Candidates : work' = Threshold(e) BY DEF Select, Return
  <2>3. work' \in Nat BY <2>2, LeastWork DEF Candidates
  <2> QED BY <2>1, <2>3 DEF WriteOK
<1>5. CASE WritePrimary
  <2>1. PICK k, primary, down, lost :
          /\ k = PrimaryCount /\ primary = {n \in usable : Place(n, usable) < k}
          /\ down \subseteq primary /\ lost \subseteq primary
          /\ receipts' = receipts \cup (primary \ (down \cup lost))
          /\ failed' = failed \cup down \cup lost /\ usable' = usable \ primary
          /\ UNCHANGED <<answered, work>> /\ pc = "write" /\ pc' = "replace"
    BY <1>5 DEF WritePrimary, Written, GoOn
  <2>2. PICK e \in {answered[n].epoch : n \in DOMAIN answered} : usable = Accepting(e, work)
    BY <2>1 DEF CheapestWork, Accepting
  <2>3. receipts = {} /\ failed \cap DOMAIN answered = {} BY <2>1 DEF ReceiptsOK, WriteOK
  <2>4. Accepting(e, work)' = Accepting(e, work) /\ Group(e)' = Group(e) BY <2>1 DEF Accepting, Group
  <2>5. usable \subseteq Group(e) /\ usable \subseteq DOMAIN answered BY <2>2 DEF Accepting, Group
  <2>6. Cardinality(receipts') <= Replicas
    <3>1. Cardinality(usable) \in Nat BY <2>5, PlacesDistinct
    <3>2. k \in Nat /\ k <= Replicas BY <1>0, <2>1, <3>1 DEF PrimaryCount, Min
    <3>3. Cardinality(primary) <= k BY <2>1, <2>5, <3>2, FirstFew
    <3>4. primary \subseteq Nodes /\ receipts' \subseteq primary BY <2>1, <2>3, <2>5 DEF AnswersOK
    <3>5. Cardinality(receipts') <= Cardinality(primary) /\ Cardinality(receipts') \in Nat /\ Cardinality(primary) \in Nat
      BY <3>4, Monotone
    <3> QED BY <1>0, <3>2, <3>3, <3>5
  <2>7. /\ usable' \subseteq Accepting(e, work)' /\ Accepting(e, work)' \subseteq usable' \cup receipts' \cup failed'
        /\ (receipts' \cup failed') \cap DOMAIN answered' \subseteq Group(e)'
    BY <2>1, <2>2, <2>3, <2>4, <2>5
  <2> QED BY <2>1, <2>6, <2>7 DEF WriteOK
<1>6. CASE WriteReplacement
  <2>1. PICK n \in usable :
          /\ usable' = usable \ {n} /\ UNCHANGED <<answered, work, pc>> /\ pc = "replace" /\ ~Satisfied
          /\ \/ receipts' = receipts \cup {n} /\ failed' = failed
             \/ receipts' = receipts /\ failed' = failed \cup {n}
    BY <1>6 DEF WriteReplacement, Written
  <2>2. PICK e \in {answered[m].epoch : m \in DOMAIN answered} :
          /\ usable \subseteq Accepting(e, work)
          /\ Accepting(e, work) \subseteq usable \cup receipts \cup failed
          /\ (receipts \cup failed) \cap DOMAIN answered \subseteq Group(e)
    BY <2>1 DEF WriteOK
  <2>3. Accepting(e, work)' = Accepting(e, work) /\ Group(e)' = Group(e) BY <2>1 DEF Accepting, Group
  <2>4. Cardinality(receipts') <= Replicas
    <3>1. Cardinality(receipts) < Replicas BY <1>0, <2>1 DEF Satisfied
    <3>2. Cardinality(receipts \cup {n}) \in {Cardinality(receipts), Cardinality(receipts) + 1} BY <1>0, FS_AddElement
    <3> QED BY <1>0, <2>1, <3>1, <3>2
  <2>5. n \in Group(e) BY <2>1, <2>2 DEF Accepting
  <2>6. /\ usable' \subseteq Accepting(e, work)' /\ Accepting(e, work)' \subseteq usable' \cup receipts' \cup failed'
        /\ (receipts' \cup failed') \cap DOMAIN answered' \subseteq Group(e)'
    BY <2>1, <2>2, <2>3, <2>5
  <2> QED BY <2>1, <2>4, <2>6 DEF WriteOK
<1>7. CASE pc' \notin {"select", "write", "replace"} /\ receipts' = receipts /\ work' = work BY <1>7 DEF WriteOK
<1> QED
  BY <1>1, <1>2, <1>3, <1>4, <1>5, <1>6, <1>7 DEF Next, vars, operation, StoreReplicated, Select, BeginWrite, Return, GoOn,
     Persist, Audit, AuditNext, AuditEnd, Delete, DeleteNext, DeleteEnd, DeleteItemEverywhere, EverywhereNext,
     FetchFails, LoadDelivery, Restart, Forget, Tick

(* The write's own invariant holds. *)
LEMMA WriteInvariant == Spec => []WriteOK
<1>1. Init => WriteOK
  <2>1. Cardinality({}) = 0 /\ Replicas \in Nat
    <3>1. Cardinality(Nodes) \in Nat BY NodesAreNumbers, FS_CardinalityType
    <3> QED BY <3>1, FS_EmptySet, NewAccepts
  <2> QED BY <2>1 DEF Init, WriteOK
<1>2. IInv /\ AnswersOK /\ CheapestWork /\ WriteOK /\ [Next]_vars => WriteOK' BY WriteStep DEF IInv
<1> QED BY <1>1, <1>2, Invariant, CheapestInvariant, PTL DEF Spec

(* StoreReplicated returns with at most Replicas receipts, and with fewer  *)
(* only when it has written to every node that takes the work it solved.   *)
THEOREM WritesReachReplicas == Spec => ReplicasReached
<1>1. ASSUME WriteOK, NodesOK, AnswersOK, Persist, Cardinality(receipts) < Replicas, NEW n \in DOMAIN answered
      PROVE  \/ n \in receipts \cup failed
             \/ answered[n].difficulty > work
             \/ \A m \in (receipts \cup failed) \cap DOMAIN answered : answered[m].epoch # answered[n].epoch
  <2> USE <1>1
  <2>1. Replicas \in Nat /\ Cardinality(receipts) \in Nat
    <3>1. Cardinality(Nodes) \in Nat BY NodesAreNumbers, FS_CardinalityType
    <3> QED BY <3>1, NewAccepts, Monotone DEF NodesOK
  <2>2. pc = "replace" /\ usable = {} BY <2>1 DEF Persist, Satisfied
  <2>3. PICK e \in {answered[m].epoch : m \in DOMAIN answered} :
          /\ Accepting(e, work) \subseteq receipts \cup failed
          /\ (receipts \cup failed) \cap DOMAIN answered \subseteq Group(e)
    BY <2>2 DEF WriteOK
  <2>4. CASE answered[n].epoch # e BY <2>3, <2>4 DEF Group
  <2>5. CASE n \in Accepting(e, work) BY <2>3, <2>5
  <2>6. CASE answered[n].epoch = e /\ n \notin Accepting(e, work)
    <3>1. ~(answered[n].difficulty <= work) BY <2>6 DEF Accepting, Group
    <3>2. answered[n].difficulty \in Nat BY DEF AnswersOK
    <3>3. work \in Nat BY DEF WriteOK
    <3> QED BY <3>1, <3>2, <3>3
  <2> QED BY <2>4, <2>5, <2>6
<1>2. ASSUME WriteOK, IInv, AnswersOK, [Next]_vars
      PROVE  [Persist =>
                /\ Cardinality(receipts) <= Replicas
                /\ Cardinality(receipts) < Replicas =>
                     \A n \in DOMAIN answered :
                       \/ n \in receipts \cup failed
                       \/ answered[n].difficulty > work
                       \/ \A m \in (receipts \cup failed) \cap DOMAIN answered : answered[m].epoch # answered[n].epoch]_vars
  <2> USE <1>2
  <2>1. NodesOK /\ Cardinality(receipts) <= Replicas BY DEF IInv, WriteOK
  <2> QED BY <1>1, <2>1
<1>3. WriteOK /\ IInv /\ (AnswersOK /\ CheapestWork) /\ [Next]_vars
        => [Persist =>
              /\ Cardinality(receipts) <= Replicas
              /\ Cardinality(receipts) < Replicas =>
                   \A n \in DOMAIN answered :
                     \/ n \in receipts \cup failed
                     \/ answered[n].difficulty > work
                     \/ \A m \in (receipts \cup failed) \cap DOMAIN answered : answered[m].epoch # answered[n].epoch]_vars
  BY <1>2
<1> QED BY <1>3, WriteInvariant, Invariant, CheapestInvariant, PTL DEF Spec, ReplicasReached
=============================================================================
