----------------------------- MODULE ClientCore -----------------------------
(***************************************************************************)
(* The client core (client/core.go) at work on one item: writing it to     *)
(* several nodes, auditing and repairing the replicas, deleting them, and  *)
(* the local record of the delivery; with the reputation it keeps of every *)
(* node (client/reputation.go) and the checks of the node client           *)
(* (client/http_node.go).  Fetches run beside these in goroutines of their *)
(* own and share the reputation.                                           *)
(*                                                                         *)
(* A receipt is the node that signed it; a Delivery is its set of          *)
(* receipts, and {} is the empty Delivery and the missing record.  Nodes   *)
(* are numbers, in the order of c.nodes and of their NodeIDs.  Requests    *)
(* sent in parallel are collected before any result is looked at, so they  *)
(* are one step.  The item stays within its retention window.              *)
(***************************************************************************)
EXTENDS Integers, FiniteSets, FiniteSetsExt

CONSTANTS
  Nodes, Replicas, WriteQuorum,
  Parameters,     \* what each node may answer: a set of [epoch, difficulty]
  Small,          \* nodes whose MaxItemBytes is below the item's size
  Liars,          \* nodes that answer a proof with wrong bytes
  Exclusion,      \* 24 hours
  Uses,           \* what the application calls beside StoreReplicated
  Faults,         \* which of "down", "lost", "cancel", "forgets", "persist", "restart" occur
  MaxFaults       \* bound on the faults explored

ASSUME NodesAreNumbers == Nodes \subseteq Nat /\ IsFiniteSet(Nodes)
ASSUME NewAccepts == Replicas \in 1..Cardinality(Nodes) /\ WriteQuorum \in 1..Replicas
ASSUME Answers == \A n \in Nodes : Parameters[n] \subseteq [epoch : Nat, difficulty : Nat]
ASSUME Times == Exclusion \in Nat \ {0} /\ MaxFaults \in Nat

VARIABLES
  holds,       \* the nodes that store the item
  delivery,    \* the Delivery in the application's hands
  record,      \* the Delivery in the client store
  score,       \* Reputation.scores
  pc,          \* where the operation on the item is
  todo,        \* the nodes it has still to ask
  answered,    \* the parameters it got
  usable, work,\* the nodes it may still write to and the difficulty solved
  receipts, failed, \* Delivery.Receipts and Delivery.FailedNodes of the write
  repairing,   \* the audit belongs to AuditAndRepair
  unproved,    \* the audit met an error; or a Delete met one
  faults,
  promised,    \* history: a write has succeeded and no deletion has begun since
  gone         \* history: the nodes that have lost their copy and not been given another

operation == <<pc, todo, answered, usable, work, receipts, failed, repairing, unproved>>
client == <<delivery, record>>
promise == <<promised, gone>>
vars == <<holds, delivery, record, score, pc, todo, answered, usable, work, receipts,
          failed, repairing, unproved, faults, promised, gone>>

(* A fault of kind f happens now. *)
Fault(f) == f \in Faults /\ faults < MaxFaults /\ faults' = faults + 1

NoFault == UNCHANGED faults

(* The nodes of D fail, one fault each. *)
Down(f, D) ==
  /\ D # {} => f \in Faults
  /\ faults + Cardinality(D) <= MaxFaults
  /\ faults' = faults + Cardinality(D)

-----------------------------------------------------------------------------
(* Reputation.  ConsecutiveFails is only ever compared with FailureLimit,  *)
(* so it stops counting there; left is how far ExcludedUntil lies ahead.   *)

FailureLimit == 3

NoScore == [fails |-> 0, left |-> 0]

OneMore(k) == IF k < FailureLimit THEN k + 1 ELSE k

(* Mutant: a good answer clears the whole score. *)
SuccessClearing(s) == NoScore

Success(s) == [s EXCEPT !.fails = 0]

Failure(s) ==
  [fails |-> OneMore(s.fails), left |-> IF OneMore(s.fails) = FailureLimit THEN Exclusion ELSE s.left]

Exclude(s) == [fails |-> OneMore(s.fails), left |-> Exclusion]

Allowed(n) == score[n].left = 0

AllowedNodes == {n \in Nodes : Allowed(n)}

(* The nodes of good are given a Success, those of bad a Failure. *)
Scored(good, bad) ==
  [n \in Nodes |-> CASE n \in bad  -> Failure(score[n])
                     [] n \in good -> Success(score[n])
                     [] OTHER      -> score[n]]

-----------------------------------------------------------------------------
Init ==
  /\ holds = {} /\ delivery = {} /\ record = {} /\ faults = 0
  /\ score = [n \in Nodes |-> NoScore]
  /\ pc = "idle" /\ todo = {} /\ answered = <<>> /\ usable = {} /\ work = 0
  /\ receipts = {} /\ failed = {} /\ repairing = FALSE /\ unproved = FALSE
  /\ promised = FALSE /\ gone = {}

(* The operation returns. *)
Return ==
  /\ pc' = "idle" /\ todo' = {} /\ answered' = <<>> /\ usable' = {} /\ work' = 0
  /\ receipts' = {} /\ failed' = {} /\ repairing' = FALSE /\ unproved' = FALSE

(* It goes on at p with the nodes of T to ask. *)
GoOn(p, T) == pc' = p /\ todo' = T

-----------------------------------------------------------------------------
(* StoreReplicated *)

(* allowedNodes must make a write quorum. *)
BeginWrite ==
  \/ /\ Cardinality(AllowedNodes) >= WriteQuorum
     /\ GoOn("parameters", AllowedNodes)
     /\ repairing' = FALSE /\ unproved' = FALSE
     /\ UNCHANGED <<answered, usable, work, receipts, failed>>
  \/ Cardinality(AllowedNodes) < WriteQuorum /\ Return

StoreReplicated ==
  /\ pc = "idle" /\ delivery = {} /\ record = {}
  /\ BeginWrite
  /\ UNCHANGED <<promise, holds, client, score, faults>>

(* All parameters are asked for at once.  A node whose limit the item      *)
(* exceeds counts as failed in the delivery, not in its reputation.        *)
AskParameters ==
  /\ pc = "parameters"
  /\ \E down \in SUBSET todo :
       LET up == todo \ down IN
       /\ Down("down", down)
       /\ score' = Scored({}, down)
       /\ failed' = down \cup (up \cap Small)
       /\ \E answers \in [up \ Small -> UNION {Parameters[n] : n \in up \ Small}] :
            /\ \A n \in up \ Small : answers[n] \in Parameters[n]
            /\ answered' = answers
  /\ GoOn("select", {})
  /\ UNCHANGED <<promise, holds, client, usable, work, receipts, repairing, unproved>>

Group(e) == {n \in DOMAIN answered : answered[n].epoch = e}

Before(a, b) ==
  \/ answered[a].difficulty < answered[b].difficulty
  \/ answered[a].difficulty = answered[b].difficulty /\ a < b

(* The place of n when the nodes of S are sorted, counted from 0. *)
Place(n, S) == Cardinality({m \in S : Before(m, n)})

At(k, S) == CHOOSE n \in S : Place(n, S) = k

(* Mutant: the hardest node of the group decides. *)
ThresholdOfLast(e) == answered[At(Cardinality(Group(e)) - 1, Group(e))].difficulty

(* group[c.writeQuorum-1].parameters.Difficulty *)
Threshold(e) == answered[At(WriteQuorum - 1, Group(e))].difficulty

Candidates == {e \in {answered[n].epoch : n \in DOMAIN answered} : Cardinality(Group(e)) >= WriteQuorum}

(* The epoch that the loop over groups ends with.  Between groups that are *)
(* equal in both respects the order of the map decides.                    *)
Selected(e) ==
  \A f \in Candidates :
    \/ Cardinality(Group(e)) > Cardinality(Group(f))
    \/ Cardinality(Group(e)) = Cardinality(Group(f)) /\ Threshold(e) <= Threshold(f)

(* SolveWork fails when the context ends. *)
Select ==
  /\ pc = "select"
  /\ \/ Candidates = {} /\ NoFault /\ Return
     \/ Candidates # {} /\ Fault("cancel") /\ Return
     \/ \E e \in Candidates :
          /\ Selected(e) /\ NoFault
          /\ work' = Threshold(e)
          /\ usable' = {n \in Group(e) : answered[n].difficulty <= Threshold(e)}
          /\ GoOn("write", {})
          /\ UNCHANGED <<answered, receipts, failed, repairing, unproved>>
  /\ UNCHANGED <<promise, holds, client, score>>

(* The nodes of W were sent the item: those of down did not take it, those *)
(* of lost did but no valid receipt came back, the others signed one.      *)
Written(W, down, lost) ==
  LET signed == W \ (down \cup lost) IN
  /\ holds' = holds \cup (W \ down) /\ gone' = gone \ (W \ down)
  /\ receipts' = receipts \cup signed
  /\ failed' = failed \cup down \cup lost
  /\ score' = Scored(signed, down \cup lost)

PrimaryCount == Min({Replicas, Cardinality(usable)})

(* The first nodes are written to at once. *)
WritePrimary ==
  /\ pc = "write"
  /\ LET primary == {n \in usable : Place(n, usable) < PrimaryCount} IN
     \E down \in SUBSET primary : \E lost \in SUBSET (primary \ down) :
       /\ down # {} => "down" \in Faults
       /\ lost # {} => "lost" \in Faults
       /\ faults + Cardinality(down \cup lost) <= MaxFaults
       /\ faults' = faults + Cardinality(down \cup lost)
       /\ Written(primary, down, lost) /\ usable' = usable \ primary
  /\ GoOn("replace", {})
  /\ UNCHANGED <<promised, client, answered, work, repairing, unproved>>

(* Mutant: nodes that failed count too. *)
SatisfiedByAttempts == Cardinality(receipts \cup failed) >= Replicas

Satisfied == Cardinality(receipts) >= Replicas

(* The others follow one by one until there are enough receipts. *)
WriteReplacement ==
  /\ pc = "replace" /\ ~Satisfied
  /\ \E n \in usable :
     /\ Place(n, usable) = 0 /\ usable' = usable \ {n}
     /\ \/ NoFault /\ Written({n}, {}, {})
        \/ Fault("down") /\ Written({n}, {n}, {})
        \/ Fault("lost") /\ Written({n}, {}, {n})
  /\ UNCHANGED <<promised, client, pc, todo, answered, work, repairing, unproved>>

(* The store can fail before or after the record is written. *)
PersistDelivery ==
  \/ NoFault /\ record' = receipts
  \/ Fault("persist") /\ record' \in {record, receipts}

(* Mutant: off by one at the quorum. *)
QuorumReachedOffByOne == Cardinality(receipts) + 1 >= WriteQuorum

QuorumReached == Cardinality(receipts) >= WriteQuorum

(* The return, with or without a write quorum.  The application keeps what *)
(* is returned unless it has no receipt.                                   *)
Persist ==
  /\ pc = "replace" /\ (usable = {} \/ Satisfied)
  /\ \/ receipts = {} /\ NoFault /\ UNCHANGED client
     \/ receipts # {} /\ PersistDelivery /\ delivery' = receipts
  /\ promised' = (promised \/ QuorumReached)
  /\ Return
  /\ UNCHANGED <<gone, holds, score>>

-----------------------------------------------------------------------------
(* Audit and AuditAndRepair *)

Audit(repair) ==
  /\ pc = "idle" /\ delivery # {} /\ (IF repair THEN "repair" ELSE "audit") \in Uses
  /\ GoOn("audit", delivery) /\ repairing' = repair
  /\ UNCHANGED <<promise, holds, client, score, faults, answered, usable, work, receipts,
                 failed, unproved>>

(* A wrong proof excludes the node, which is then no longer given the      *)
(* Failure that every other error costs an allowed node.                   *)
Prove(n) ==
  \/ /\ n \in holds \ Liars /\ NoFault
     /\ score' = Scored({n}, {})
     /\ UNCHANGED unproved
  \/ /\ n \in holds \cap Liars /\ NoFault
     /\ score' = [score EXCEPT ![n] = Exclude(@)]
     /\ unproved' = TRUE
  \/ /\ (n \notin holds /\ NoFault) \/ Fault("down")
     /\ score' = Scored({}, {n} \cap AllowedNodes)
     /\ unproved' = TRUE

AuditNext ==
  /\ pc = "audit"
  /\ \E n \in todo : Prove(n) /\ todo' = todo \ {n}
  /\ UNCHANGED <<promise, holds, client, pc, answered, usable, work, receipts, failed, repairing>>

AuditEnd ==
  /\ pc = "audit" /\ todo = {}
  /\ IF repairing /\ unproved THEN BeginWrite ELSE Return
  /\ UNCHANGED <<promise, holds, client, score, faults>>

-----------------------------------------------------------------------------
(* Delete and DeleteItemEverywhere *)

Delete ==
  /\ pc = "idle" /\ delivery # {} /\ "delete" \in Uses
  /\ GoOn("delete", delivery)
  /\ promised' = FALSE
  /\ UNCHANGED <<gone, holds, client, score, faults, answered, usable, work, receipts,
                 failed, repairing, unproved>>

(* What node n does with a delete request: ok is whether a valid answer    *)
(* came back.  A node that does not hold the item answers 404.             *)
DeleteAt(n, ok) ==
  \/ ok /\ n \in holds /\ holds' = holds \ {n} /\ NoFault
  \/ ~ok /\ n \notin holds /\ UNCHANGED holds /\ NoFault
  \/ ~ok /\ Fault("down") /\ UNCHANGED holds
  \/ ~ok /\ n \in holds /\ Fault("lost") /\ holds' = holds \ {n}

DeleteNext ==
  /\ pc = "delete"
  /\ \E n \in todo :
       /\ todo' = todo \ {n}
       /\ \/ DeleteAt(n, TRUE) /\ UNCHANGED <<score, unproved>>
          \/ /\ DeleteAt(n, FALSE)
             /\ unproved' = TRUE /\ score' = Scored({}, {n})
  /\ UNCHANGED <<promise, client, pc, answered, usable, work, receipts, failed, repairing>>

(* Mutant: one confirmation is enough. *)
AllDeletedBut == Cardinality(delivery \cap holds) < Cardinality(delivery)

AllDeleted == ~unproved

(* The record goes when every node has confirmed; the application keeps    *)
(* the Delivery when it is given an error.                                 *)
DeleteEnd ==
  /\ pc = "delete" /\ todo = {}
  /\ \/ AllDeleted /\ NoFault /\ record' = {} /\ delivery' = {}
     \/ AllDeleted /\ Fault("persist") /\ record' \in {record, {}} /\ UNCHANGED delivery
     \/ ~AllDeleted /\ NoFault /\ UNCHANGED client
  /\ Return
  /\ UNCHANGED <<promise, holds, score>>

(* Every node is asked; neither scores nor the record change. *)
DeleteItemEverywhere ==
  /\ pc = "idle" /\ delivery # {} /\ "everywhere" \in Uses
  /\ GoOn("everywhere", Nodes)
  /\ promised' = FALSE
  /\ UNCHANGED <<gone, holds, client, score, faults, answered, usable, work, receipts,
                 failed, repairing, unproved>>

EverywhereNext ==
  /\ pc = "everywhere" /\ todo # {}
  /\ LET n == Min(todo) IN
     /\ \E ok \in BOOLEAN : DeleteAt(n, ok)
     /\ IF todo = {n} THEN Return
        ELSE /\ todo' = todo \ {n}
             /\ UNCHANGED <<pc, answered, usable, work, receipts, failed, repairing, unproved>>
  /\ UNCHANGED <<promise, client, score>>

-----------------------------------------------------------------------------
(* Fetch, loading, and the world outside *)

(* A Fetch began when the node was allowed and hears from it now.  A good  *)
(* answer is no Success, a failed one is a Failure.                        *)
FetchFails ==
  /\ "fetch" \in Uses /\ Fault("down")
  /\ \E n \in Nodes : score' = Scored({}, {n})
  /\ UNCHANGED <<promise, holds, client, operation>>

LoadDelivery ==
  /\ pc = "idle" /\ record # {} /\ delivery # record
  /\ delivery' = record
  /\ UNCHANGED <<promise, holds, record, score, operation, faults>>

(* The client stops anywhere; only the record outlives it. *)
Restart ==
  /\ Fault("restart")
  /\ Return
  /\ delivery' = {}
  /\ score' = [n \in Nodes |-> NoScore]
  /\ UNCHANGED <<promise, holds, record>>

(* A node loses its copy. *)
Forget ==
  /\ Fault("forgets")
  /\ \E n \in holds : holds' = holds \ {n} /\ gone' = gone \cup {n}
  /\ UNCHANGED <<promised, client, score, operation>>

Tick ==
  /\ score' = [n \in Nodes |-> [score[n] EXCEPT !.left = IF @ > 0 THEN @ - 1 ELSE 0]]
  /\ UNCHANGED <<promise, holds, client, operation, faults>>

Next ==
  \/ StoreReplicated \/ AskParameters \/ Select \/ WritePrimary \/ WriteReplacement \/ Persist
  \/ \E repair \in BOOLEAN : Audit(repair)
  \/ AuditNext \/ AuditEnd
  \/ Delete \/ DeleteNext \/ DeleteEnd \/ DeleteItemEverywhere \/ EverywhereNext
  \/ FetchFails \/ LoadDelivery \/ Restart \/ Forget \/ Tick

Spec == Init /\ [][Next]_vars

-----------------------------------------------------------------------------
(* What the write pays for (PROTOCOL.md, "Der Client wählt die Arbeit des  *)
(* Schreibquorums"): the work solved is enough for a write quorum of one   *)
(* epoch's nodes and no easier work would be; no other epoch has more      *)
(* nodes, or as many that would be satisfied with less; and no node is     *)
(* written to that would refuse the work.  Stated without sorting.         *)
CheapestWork ==
  pc = "write" =>
    LET Accepting(e, d) == {n \in Group(e) : answered[n].difficulty <= d} IN
    \E e \in {answered[n].epoch : n \in DOMAIN answered} :
      /\ usable = Accepting(e, work)
      /\ Cardinality(Accepting(e, work)) >= WriteQuorum
      /\ work > 0 => Cardinality(Accepting(e, work - 1)) < WriteQuorum
      /\ \A f \in {answered[n].epoch : n \in DOMAIN answered} \ {e} :
           \/ Cardinality(Group(f)) < Cardinality(Group(e))
           \/ /\ Cardinality(Group(f)) = Cardinality(Group(e))
              /\ work > 0 => Cardinality(Accepting(f, work - 1)) < WriteQuorum

(* A write never collects more than Replicas receipts, and fewer only for  *)
(* want of nodes (ARCHITECTURE.md, "Fehlende Replikate werden auf          *)
(* Ersatz-Nodes geschrieben"): when StoreReplicated returns with fewer,    *)
(* every node that offered its parameters for the epoch and takes the work *)
(* solved was written to, and is in Receipts or in FailedNodes.            *)
ReplicasReached ==
  [][Persist =>
       /\ Cardinality(receipts) <= Replicas
       /\ Cardinality(receipts) < Replicas =>
            \A n \in DOMAIN answered :
              \/ n \in receipts \cup failed
              \/ answered[n].difficulty > work
              \/ \A m \in (receipts \cup failed) \cap DOMAIN answered : answered[m].epoch # answered[n].epoch]_vars

(* The record outlives the replicas it is needed for: Delete removes it    *)
(* only when no node of the Delivery it was given holds the item any more, *)
(* whatever was lost, repeated or interrupted on the way (allDeleted).     *)
ForgetOnlyDeleted == [][record # {} /\ record' = {} => delivery \cap holds = {}]_vars

(* What StoreReplicated promises when it reaches the write quorum: until   *)
(* somebody asks for the deletion, that many nodes hold the item or have   *)
(* lost it themselves.  No audit, repair, failed write or restart of the   *)
(* client takes a copy away.                                               *)
Durable == promised => Cardinality(holds \cup gone) >= WriteQuorum

(* SECURITY.md, "schließen eine Node lokal für 24 Stunden aus": an         *)
(* exclusion lasts its time.  Nothing but time shortens it, although an    *)
(* audit asks excluded nodes too and rewards their good answers, and a     *)
(* fetch or a write that began before goes on asking them.  Only a restart *)
(* forgets it.                                                             *)
ExclusionServed ==
  [][\A n \in Nodes : score'[n].left < score[n].left => Tick \/ Restart]_vars
=============================================================================
