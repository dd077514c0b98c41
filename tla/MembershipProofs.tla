-------------------------- MODULE MembershipProofs --------------------------
(***************************************************************************)
(* Who belongs, by what was signed: the members of a group and the nodes   *)
(* of the directory.                                                       *)
(*                                                                         *)
(* For any number of people, any limit, any set of replicas and any        *)
(* delivery of the signed actions (GroupReplicas): every copy of a group's *)
(* state has one owner and stays within its limit, nobody reaches above    *)
(* their own rank, a replica holds what some signer asked for, replicas at *)
(* one epoch agree unless the group was forked, and each replica takes     *)
(* authorised steps of GroupState.                                         *)
(*                                                                         *)
(* For any nodes, seeds, quorum, leases, losses and restarts               *)
(* (NodeDirectory): registries keep their bound, admit a node only with a  *)
(* quorum for this very lease, keep the newest one while it runs, and do   *)
(* not go back to an older one unless a node has changed its lease length. *)
(***************************************************************************)
EXTENDS GroupReplicas, NodeDirectory, FiniteSetTheorems, TLAPS

-----------------------------------------------------------------------------
(* Groups *)

USE Zenon

(* The members of a group form a finite set. *)
LEMMA MembersFinite ==
  ASSUME NEW rl
  PROVE  IsFiniteSet(Members(rl)) /\ Cardinality(Members(rl)) \in Nat
BY PeopleFinite, FS_Subset, FS_CardinalityType DEF Members

(* What Apply computes is again an assignment of roles. *)
LEMMA AfterType ==
  ASSUME NEW rl \in [People -> Roles], NEW kind \in Kinds, NEW a \in People, NEW s \in People
  PROVE  After(rl, kind, a, s) \in [People -> Roles]
BY DEF After, Transfer, NewRole, Kinds, Roles

(* Transferring moves ownership; no other kind gives or takes it. *)
LEMMA AfterOneOwner ==
  ASSUME NEW rl \in [People -> Roles], NEW kind \in Kinds, NEW a \in People, NEW s \in People,
         Permits(rl, kind, a, s),
         NEW o \in People, rl[o] = "owner", \A p \in People \ {o} : rl[p] # "owner"
  PROVE  \E q \in People : /\ After(rl, kind, a, s)[q] = "owner"
                           /\ \A p \in People \ {q} : After(rl, kind, a, s)[p] # "owner"
<1>1. CASE kind = "transfer_owner"
  <2>1. a = o
    BY <1>1 DEF Permits
  <2>2. /\ After(rl, kind, a, s)[s] = "owner"
        /\ \A p \in People \ {s} : After(rl, kind, a, s)[p] # "owner"
    BY <1>1, <2>1 DEF After, Transfer, Roles
  <2> QED
    BY <2>2
<1>2. CASE kind # "transfer_owner"
  <2>1. s # o /\ NewRole(kind) # "owner"
    BY <1>2 DEF Permits, MayBan, MayDemote, NewRole, Kinds
  <2>2. /\ After(rl, kind, a, s)[o] = "owner"
        /\ \A p \in People \ {o} : After(rl, kind, a, s)[p] # "owner"
    BY <1>2, <2>1 DEF After, Roles
  <2> QED
    BY <2>2
<1> QED
  BY <1>1, <1>2

(* An action brings in at most its subject, and a new one only where there *)
(* is room.                                                                *)
LEMMA AfterBounded ==
  ASSUME NEW rl \in [People -> Roles], NEW kind \in Kinds, NEW a \in People, NEW s \in People,
         Permits(rl, kind, a, s), Cardinality(Members(rl)) <= MaxGroupMembers
  PROVE  Cardinality(Members(After(rl, kind, a, s))) <= MaxGroupMembers
<1> DEFINE old == Members(rl)
           new == Members(After(rl, kind, a, s))
<1>1. IsFiniteSet(old) /\ Cardinality(old) \in Nat /\ IsFiniteSet(new) /\ Cardinality(new) \in Nat
  BY MembersFinite
<1>2. new \subseteq old \cup {s}
  BY DEF Members, After, Transfer, Permits, Roles
<1>3. CASE s \in old
  <2>1. new \subseteq old
    BY <1>2, <1>3
  <2>2. Cardinality(new) <= Cardinality(old)
    BY <2>1, <1>1, FS_Subset
  <2> QED
    BY <2>2, <1>1, GroupLimit, SMT
<1>4. CASE s \notin old
  <2>1. BelowLimit(rl)
    BY <1>4 DEF Permits, MayBan, Members
  <2>2. IsFiniteSet(old \cup {s}) /\ Cardinality(old \cup {s}) = Cardinality(old) + 1
    BY <1>1, <1>4, FS_AddElement
  <2>3. Cardinality(new) <= Cardinality(old \cup {s})
    BY <1>2, <2>2, FS_Subset
  <2> QED
    BY <2>1, <2>2, <2>3, <1>1, GroupLimit, SMT DEF BelowLimit
<1> QED
  BY <1>3, <1>4

(* New makes a valid group, and Apply leaves one behind. *)
LEMMA ValidAfter ==
  /\ ValidState(Genesis)
  /\ \A rl \in [People -> Roles], kind \in Kinds, a, s \in People :
       Permits(rl, kind, a, s) => ValidState(After(rl, kind, a, s))
<1>1. ValidState(Genesis)
  <2>1. OneOwner(Genesis)
    BY PeopleFinite DEF OneOwner, Genesis
  <2>2. Members(Genesis) = {Creator}
    BY PeopleFinite DEF Members, Genesis
  <2>3. Cardinality(Members(Genesis)) <= MaxGroupMembers
    BY <2>2, FS_Singleton, GroupLimit, SMT
  <2> QED
    BY <2>1, <2>3 DEF ValidState
<1>2. ASSUME NEW rl \in [People -> Roles], NEW kind \in Kinds, NEW a \in People, NEW s \in People,
             Permits(rl, kind, a, s)
      PROVE  ValidState(After(rl, kind, a, s))
  <2>1. OneOwner(rl) /\ Cardinality(Members(rl)) <= MaxGroupMembers
    BY <1>2 DEF Permits, ValidState
  <2>2. Cardinality(Members(After(rl, kind, a, s))) <= MaxGroupMembers
    BY <1>2, <2>1, AfterBounded
  <2>3. PICK o \in People : rl[o] = "owner" /\ \A p \in People \ {o} : rl[p] # "owner"
    BY <2>1 DEF OneOwner
  <2>4. OneOwner(After(rl, kind, a, s))
    <3>1. \E q \in People : /\ After(rl, kind, a, s)[q] = "owner"
                            /\ \A p \in People \ {q} : After(rl, kind, a, s)[p] # "owner"
      BY <1>2, <2>3, AfterOneOwner, SMT
    <3> QED
      BY <3>1 DEF OneOwner
  <2> QED
    BY <2>2, <2>4 DEF ValidState
<1> QED
  BY <1>1, <1>2

(* Epoch and roles of the genesis and of the result of every action. *)
Reached == {<<0, Genesis>>} \cup {<<x.epoch, Result(x)>> : x \in signed}

Actions == [epoch : Nat \ {0}, previous : [People -> Roles], kind : Kinds,
            actor : People, subject : People]

(* Replicas and signed actions are of their types. *)
RTypeOK ==
  /\ epochs \in [Replicas -> Nat] /\ copies \in [Replicas -> [People -> Roles]]
  /\ signed \subseteq Actions

(* Replicas, and the states actions are signed over, are reached states. *)
Grounded ==
  /\ \A r \in Replicas : <<epochs[r], copies[r]>> \in Reached
  /\ \A x \in signed : <<x.epoch - 1, x.previous>> \in Reached

(* The induction over epochs, as an invariant: without a fork there is one *)
(* reached state for each epoch.                                           *)
OneBranch == Forked \/ \A u, v \in Reached : u[1] = v[1] => u[2] = v[2]

(* The inductive invariant of the replicas. *)
RInv == RTypeOK /\ Grounded /\ OneBranch /\ StaysValid

(* The replicas begin with the same group and nothing signed. *)
LEMMA InitRInv == ReplicasInit => RInv
<1> SUFFICES ASSUME ReplicasInit PROVE RInv
  OBVIOUS
<1>1. Genesis \in [People -> Roles] /\ Creator \in People
  BY PeopleFinite DEF Genesis, Roles
<1>2. RTypeOK
  BY <1>1 DEF ReplicasInit, RTypeOK
<1>3. Reached = {<<0, Genesis>>}
  BY DEF ReplicasInit, Reached
<1>4. Grounded /\ OneBranch
  BY <1>3 DEF ReplicasInit, Grounded, OneBranch
<1>5. StaysValid
  BY ValidAfter DEF ReplicasInit, StaysValid
<1> QED
  BY <1>2, <1>4, <1>5 DEF RInv

(* SignAction: the result becomes known, the replica stays as it was. *)
LEMMA SignRInv ==
  ASSUME RInv, NEW r \in Replicas, NEW kind \in Kinds, NEW a \in People, NEW s \in People,
         SignAction(r, kind, a, s)
  PROVE  RInv'
<1> DEFINE x == [epoch |-> epochs[r] + 1, previous |-> copies[r],
                 kind |-> kind, actor |-> a, subject |-> s]
<1>1. signed' = signed \cup {x} /\ UNCHANGED <<epochs, copies>>
  BY DEF SignAction, Proposal
<1>2. /\ epochs \in [Replicas -> Nat] /\ copies \in [Replicas -> [People -> Roles]]
      /\ signed \subseteq Actions
  BY DEF RInv, RTypeOK
<1>3. x \in Actions
  BY <1>2, SMT DEF Actions
<1>4. RTypeOK'
  <2> HIDE DEF x
  <2>1. signed' \subseteq Actions
    BY <1>1, <1>2, <1>3
  <2> QED
    BY <1>1, <2>1 DEF RInv, RTypeOK, Actions
<1>5. Reached' = Reached \cup {<<epochs[r] + 1, Result(x)>>}
  <2>1. x.epoch = epochs[r] + 1
    OBVIOUS
  <2> HIDE DEF x
  <2> QED
    BY <1>1, <2>1 DEF Reached
<1>6. <<epochs[r], copies[r]>> \in Reached
  BY DEF RInv, Grounded
<1>7. Grounded'
  <2>1. x.epoch - 1 = epochs[r] /\ x.previous = copies[r]
    BY <1>2, SMT
  <2> HIDE DEF x
  <2> QED
    BY <2>1, <1>1, <1>5, <1>6 DEF RInv, Grounded
<1>8. OneBranch'
  <2> SUFFICES ASSUME ~Forked', NEW u \in Reached', NEW v \in Reached', u[1] = v[1]
               PROVE  u[2] = v[2]
    BY DEF OneBranch
  <2>1. ~Forked
    BY <1>1 DEF Forked
  <2>2. \A m, n \in Reached : m[1] = n[1] => m[2] = n[2]
    BY <2>1 DEF RInv, OneBranch
  <2>3. ASSUME NEW w \in Reached, w[1] = epochs[r] + 1
        PROVE  w[2] = Result(x)
    <3>1. w # <<0, Genesis>>
      BY <2>3, <1>2, SMT
    <3>2. PICK y \in signed : w = <<y.epoch, Result(y)>>
      BY <3>1 DEF Reached
    <3>3. <<y.epoch - 1, y.previous>> \in Reached /\ y.epoch = epochs[r] + 1
      BY <3>2, <2>3 DEF RInv, Grounded
    <3>4. y.epoch - 1 = epochs[r]
      BY <3>3, <1>2, SMT
    <3>5. y.previous = copies[r]
      BY <2>2, <3>3, <3>4, <1>6
    <3>6. y \in signed' /\ x \in signed' /\ x.epoch = y.epoch /\ x.previous = y.previous
      BY <1>1, <3>3, <3>5
    <3>7. x = y
      BY <3>6 DEF Forked
    <3> QED
      BY <3>2, <3>7
  <2>4. <<epochs[r] + 1, Result(x)>>[1] = epochs[r] + 1 /\ <<epochs[r] + 1, Result(x)>>[2] = Result(x)
    OBVIOUS
  <2> HIDE DEF x
  <2> QED
    BY <2>2, <2>3, <2>4, <1>5
<1>9. StaysValid'
  BY <1>1 DEF RInv, StaysValid
<1> QED
  BY <1>4, <1>7, <1>8, <1>9 DEF RInv

(* What Apply computes is again an assignment of roles. *)
LEMMA ResultType ==
  ASSUME NEW x \in Actions
  PROVE  Result(x) \in [People -> Roles]
BY DEF Actions, Result, After, Transfer, NewRole, Kinds, Roles

(* Apply: a replica takes over the result of a signed action. *)
LEMMA ApplyRInv ==
  ASSUME RInv, NEW r \in Replicas, NEW x \in signed, ApplySigned(r, x)
  PROVE  RInv'
<1>1. /\ epochs \in [Replicas -> Nat] /\ copies \in [Replicas -> [People -> Roles]]
      /\ signed \subseteq Actions /\ x \in Actions /\ signed' = signed
  BY DEF RInv, RTypeOK, ApplySigned
<1>2. /\ epochs' = [epochs EXCEPT ![r] = x.epoch]
      /\ copies' = [copies EXCEPT ![r] = Result(x)]
      /\ Permits(x.previous, x.kind, x.actor, x.subject)
  BY DEF ApplySigned, IsNext, Result
<1>3. Reached' = Reached
  BY <1>1 DEF Reached
<1>4. RTypeOK'
  <2>1. x.epoch \in Nat
    BY <1>1 DEF Actions
  <2>2. Result(x) \in [People -> Roles]
    BY <1>1, ResultType
  <2> QED
    BY <1>1, <1>2, <2>1, <2>2 DEF RInv, RTypeOK, Actions
<1>5. Grounded'
  <2>1. <<x.epoch, Result(x)>> \in Reached
    BY DEF Reached
  <2>2. \A q \in Replicas : <<epochs'[q], copies'[q]>> \in Reached
    BY <1>1, <1>2, <2>1 DEF RInv, Grounded
  <2> QED
    BY <1>1, <1>3, <2>2 DEF RInv, Grounded
<1>6. OneBranch'
  BY <1>1, <1>3 DEF RInv, OneBranch, Forked
<1>7. StaysValid'
  <2>1. ValidState(Result(x))
    BY <1>1, <1>2, ValidAfter DEF Actions, Result
  <2>2. \A q \in Replicas : ValidState(copies'[q])
    BY <1>1, <1>2, <2>1 DEF RInv, StaysValid
  <2> QED
    BY <2>2 DEF StaysValid
<1> QED
  BY <1>4, <1>5, <1>6, <1>7 DEF RInv

(* So the invariant of the replicas is inductive. *)
LEMMA NextRInv == RInv /\ [ReplicasNext]_replicaVars => RInv'
<1> SUFFICES ASSUME RInv, [ReplicasNext]_replicaVars PROVE RInv'
  OBVIOUS
<1>1. CASE UNCHANGED replicaVars
  <2>1. Reached' = Reached
    BY <1>1 DEF Reached, replicaVars
  <2> QED
    BY <1>1, <2>1 DEF RInv, RTypeOK, Grounded, OneBranch, StaysValid, Forked, Actions, replicaVars
<1>2. CASE ReplicasNext
  BY <1>2, SignRInv, ApplyRInv DEF ReplicasNext, Deliver
<1> QED
  BY <1>1, <1>2

(* On every replica, Apply keeps the owner unique and the group within     *)
(* MaxGroupMembers, whatever sequence of signed actions it accepts.        *)
THEOREM GroupSafe == ReplicasSpec => []StaysValid
<1>1. RInv => StaysValid
  BY DEF RInv
<1> QED
  BY InitRInv, NextRInv, <1>1, PTL DEF ReplicasSpec

(* What Apply permits reaches downwards only. *)
LEMMA PermitsDownwards ==
  ASSUME NEW x \in Actions, Permits(x.previous, x.kind, x.actor, x.subject)
  PROVE  Downwards(x)
<1> DEFINE before == x.previous
           after == Result(x)
           mine == Rank(before[x.actor])
<1> SUFFICES ASSUME NEW p \in People, after[p] # before[p]
             PROVE  \/ /\ Rank(before[p]) < mine
                       /\ Rank(after[p]) < mine \/ (AdminsMayDelegate /\ after[p] = "admin")
                    \/ x.kind = "transfer_owner" /\ mine = 3 /\ p \in {x.actor, x.subject}
  BY DEF Downwards
<1>1. before \in [People -> Roles] /\ x.kind \in Kinds /\ x.actor \in People /\ x.subject \in People
  BY DEF Actions
<1>2. after = After(before, x.kind, x.actor, x.subject)
  BY DEF Result
<1>3. Permits(before, x.kind, x.actor, x.subject)
  OBVIOUS
<1> HIDE DEF before, after
<1>4. CASE x.kind = "transfer_owner"
  <2>1. before[x.actor] = "owner" /\ p \in {x.actor, x.subject}
    BY <1>1, <1>2, <1>3, <1>4 DEF Permits, After, Transfer
  <2> QED
    BY <2>1, <1>4 DEF Rank
<1>5. CASE x.kind # "transfer_owner"
  <2>1. p = x.subject /\ after[p] = NewRole(x.kind)
    BY <1>1, <1>2, <1>5 DEF After
  <2>2. before[p] # "owner"
    BY <1>3, <1>5, <2>1 DEF Permits, MayBan, MayDemote
  <2>3. Rank(before[p]) < mine
    BY <1>1, <1>3, <1>5, <2>1, <2>2, SMT DEF Permits, MayBan, MayDemote, Rank, Roles, NewRole
  <2>4. Rank(NewRole(x.kind)) < mine \/ (AdminsMayDelegate /\ NewRole(x.kind) = "admin")
    BY <1>1, <1>3, <1>5, SMT DEF Permits, Rank, NewRole, Kinds
  <2> QED
    BY <2>1, <2>3, <2>4
<1> QED
  BY <1>4, <1>5

(* No action that a replica accepts touches somebody of the actor's own    *)
(* rank or above, or raises anybody that high, except a transfer by the    *)
(* owner and the delegation that the policy allows.                        *)
THEOREM RankRespected == ReplicasSpec => OnlyDownwards
<1> DEFINE Outranked ==
       \A r \in Replicas : copies'[r] # copies[r] =>
         \E x \in signed : x.previous = copies[r] /\ Result(x) = copies'[r] /\ Downwards(x)
<1>1. ASSUME RInv, NEW q \in Replicas, NEW x \in signed, ApplySigned(q, x), NEW r \in Replicas, copies'[r] # copies[r]
      PROVE  x.previous = copies[r] /\ Result(x) = copies'[r] /\ Downwards(x)
  <2>1. copies \in [Replicas -> [People -> Roles]] /\ x \in Actions
    BY <1>1 DEF RInv, RTypeOK
  <2>2. copies' = [copies EXCEPT ![q] = Result(x)] /\ x.previous = copies[q] /\ Permits(x.previous, x.kind, x.actor, x.subject)
    BY <1>1 DEF ApplySigned, IsNext, Result
  <2>3. r = q
    BY <1>1, <2>1, <2>2
  <2>4. Downwards(x)
    BY <2>1, <2>2, PermitsDownwards
  <2> QED
    BY <2>1, <2>2, <2>3, <2>4
<1>2. RInv /\ [ReplicasNext]_replicaVars => [Outranked]_replicaVars
  <2> SUFFICES ASSUME RInv, ReplicasNext, NEW r \in Replicas, copies'[r] # copies[r]
               PROVE  \E x \in signed : x.previous = copies[r] /\ Result(x) = copies'[r] /\ Downwards(x)
    OBVIOUS
  <2>1. PICK q \in Replicas : Deliver(q)
    BY DEF ReplicasNext, SignAction
  <2>2. PICK x \in signed : ApplySigned(q, x)
    BY <2>1 DEF Deliver
  <2> QED
    BY <2>2, <1>1
<1> QED
  BY InitRInv, NextRInv, <1>2, PTL DEF ReplicasSpec, OnlyDownwards

(* Under loss, repetition and reordering of signed actions, replicas at    *)
(* the same epoch agree unless two actions were signed over one state.     *)
THEOREM Agreement == ReplicasSpec => []AgreeUnlessForked
<1>1. RInv => AgreeUnlessForked
  <2> SUFFICES ASSUME RInv, ~Forked, NEW p \in Replicas, NEW q \in Replicas, epochs[p] = epochs[q]
               PROVE  copies[p] = copies[q]
    BY DEF AgreeUnlessForked
  <2>1. <<epochs[p], copies[p]>> \in Reached /\ <<epochs[q], copies[q]>> \in Reached
    BY DEF RInv, Grounded
  <2> QED
    BY <2>1 DEF RInv, OneBranch
<1> QED
  BY InitRInv, NextRInv, <1>1, PTL DEF ReplicasSpec

(* A replica past the genesis holds exactly the result of a signed action  *)
(* in the state its signer saw, forks included.                            *)
THEOREM NeverMixed == ReplicasSpec => []AsSigned
<1>1. RInv => AsSigned
  <2> SUFFICES ASSUME RInv, NEW r \in Replicas, epochs[r] > 0
               PROVE  \E x \in signed : x.epoch = epochs[r] /\ copies[r] = Result(x)
    BY DEF AsSigned
  <2>1. <<epochs[r], copies[r]>> \in Reached /\ <<epochs[r], copies[r]>> # <<0, Genesis>>
    BY SMT DEF RInv, Grounded
  <2> QED
    BY <2>1 DEF Reached
<1> QED
  BY InitRInv, NextRInv, <1>1, PTL DEF ReplicasSpec

(* Whatever is delivered, in whatever order, each replica's copy goes      *)
(* through authorised steps of GroupState from its genesis.                *)
THEOREM ReplicaRefinement == ReplicasSpec => ReplicasImplementGroup
<1> DEFINE Steps == \A r \in Replicas : [G(r)!Next]_(G(r)!vars)
<1>1. ReplicasInit => \A r \in Replicas : G(r)!Init
  BY DEF ReplicasInit, G!Init, G!Genesis, Genesis
<1>2. ASSUME RInv, NEW q \in Replicas, NEW x \in signed, ApplySigned(q, x), NEW r \in Replicas
      PROVE  [G(r)!Next]_(G(r)!vars)
  <2>1. /\ epochs \in [Replicas -> Nat] /\ copies \in [Replicas -> [People -> Roles]]
        /\ x \in Actions
    BY <1>2 DEF RInv, RTypeOK
  <2>2. CASE r # q
    BY <1>2, <2>1, <2>2 DEF ApplySigned, G!vars
  <2>3. CASE r = q
    <3>1. /\ epochs'[r] = epochs[r] + 1
          /\ copies'[r] = After(copies[r], x.kind, x.actor, x.subject)
          /\ Permits(copies[r], x.kind, x.actor, x.subject)
      BY <1>2, <2>1, <2>3 DEF ApplySigned, IsNext
    <3>2. G(r)!Permits(copies[r], x.kind, x.actor, x.subject)
      <4>1. \A X : G(r)!Cardinality(X) = Cardinality(X)
        BY DEF G!Cardinality, Cardinality
      <4>2. G(r)!BelowLimit(copies[r]) <=> BelowLimit(copies[r])
        BY <4>1 DEF G!BelowLimit, BelowLimit, G!Members, Members
      <4>3. G(r)!ValidState(copies[r]) <=> ValidState(copies[r])
        BY <4>1 DEF G!ValidState, ValidState, G!OneOwner, OneOwner, G!Members, Members
      <4> QED
        BY <3>1, <4>2, <4>3 DEF Permits, MayBan, MayDemote, G!Permits, G!MayBan, G!MayDemote
    <3>3. copies'[r] = G(r)!After(copies[r], x.kind, x.actor, x.subject)
      BY <3>1 DEF After, Transfer, NewRole, G!After, G!Transfer, G!NewRole
    <3>4. G(r)!Apply(x.kind, x.actor, x.subject)
      BY <3>1, <3>2, <3>3 DEF G!Apply
    <3>5. x.kind \in G(r)!Kinds /\ x.actor \in People /\ x.subject \in People
      BY <2>1 DEF Actions, Kinds, G!Kinds
    <3> QED
      BY <3>4, <3>5 DEF G!Next
  <2> QED
    BY <2>2, <2>3
<1>3. RInv /\ [ReplicasNext]_replicaVars => [Steps]_replicaVars
  <2> SUFFICES ASSUME RInv, ReplicasNext PROVE Steps
    OBVIOUS
  <2>1. ASSUME NEW q \in Replicas, NEW kind \in Kinds, NEW a \in People, NEW s \in People,
               SignAction(q, kind, a, s)
        PROVE  Steps
    BY <2>1 DEF SignAction, G!vars
  <2>2. ASSUME NEW q \in Replicas, Deliver(q)
        PROVE  Steps
    BY <1>2, <2>2 DEF Deliver
  <2> QED
    BY <2>1, <2>2 DEF ReplicasNext
<1> QED
  BY <1>1, <1>3, InitRInv, NextRInv, PTL DEF ReplicasSpec, ReplicasImplementGroup

-----------------------------------------------------------------------------
(* The directory *)

Phases == [at : {"idle", "register", "merge", "pull", "sweep"}, seed : 1..Len(SeedOrder), now : Nat]

(* The state of the agents: an agent's lease runs from the time it was     *)
(* signed, which is its sequence.                                          *)
Agents ==
  /\ now \in 1..MaxTime
  /\ self \in [Nodes -> Records] /\ sequence \in [Nodes -> Nat] /\ lease \in [Nodes -> Nat \ {0}]
  /\ phase \in [Nodes -> Phases]
  /\ \A a \in Nodes : self[a].seq = sequence[a] /\ self[a].exp = sequence[a] + lease[a] /\ sequence[a] \in 1..now

(* Of the leases in records, A holds every attestation. *)
Witnessed(records, A) ==
  \A n \in Nodes : records[n].seq # 0 => \A s \in records[n].att : <<s, n, records[n].seq>> \in A

Quorate(records) ==
  \A n \in Nodes : records[n].seq # 0 => n \in Seeds \/ Cardinality(records[n].att) >= AuthorityQuorum

Blank(records) == \A n \in Nodes : records[n].seq = 0 => records[n] = NoRecord

(* A registry that keeps its bound and the quorum. *)
Sound(records, max, A) ==
  /\ records \in [Nodes -> Records] /\ Cardinality(Known(records)) <= max
  /\ Witnessed(records, A) /\ Quorate(records) /\ Blank(records)

Registries ==
  /\ registry \in [Nodes -> [Nodes -> Records]] /\ newest \in [Nodes -> [Nodes -> Nat]]
  /\ \A a \in Nodes : Sound(registry[a], MaxNodes[a], attested)

(* What an agent presents of itself was attested for this very lease. *)
OwnAttested == \A a \in Nodes : \A s \in self[a].att : <<s, a, self[a].seq>> \in attested

(* The inductive invariant of the directory. *)
DirectoryInv == Agents /\ Registries /\ OwnAttested

(* The time by which an agent judges leases: that of SyncOnce while it runs. *)
Clock(a) == IF phase[a].at = "idle" THEN now ELSE phase[a].now

Dated(records) == \A n \in Nodes : records[n].seq # 0 => records[n].exp = records[n].seq + lease[n]

(* The inductive invariant of running leases: SyncOnce works with a time   *)
(* that has passed, so what it sweeps has expired.                         *)
RunningInv ==
  /\ until \in [Nodes -> [Nodes -> Nat]] /\ \A a \in Nodes : Clock(a) <= now
  /\ \A a, n \in Nodes :
       until[a][n] > Clock(a) => registry[a][n].seq = newest[a][n] /\ registry[a][n].exp = until[a][n]

(* Of n, a has the newest lease it ever had, or none, and the newest ran   *)
(* for the lease of n.                                                     *)
Remembers(a, n) ==
  /\ registry[a][n].seq # 0 => registry[a][n].seq = newest[a][n] /\ registry[a][n].exp = registry[a][n].seq + lease[n]
  /\ newest[a][n] # 0 => until[a][n] = newest[a][n] + lease[n]

(* The inductive invariant against rollback. *)
MemoryInv == \A a, n \in Nodes : Remembers(a, n)

(* Some records are merged, which are dated when all registries are. *)
MergesSome ==
  \E q \in Nodes : \E t \in Nat : \E records \in [Nodes -> Records] :
    /\ Clock(q) <= t /\ Merge(q, records, t)
    /\ (\A b \in Nodes : Dated(registry[b])) => Dated(records)

(* The policy names at least one seed, and every seed is a node. *)
LEMMA SomeSeed == /\ Len(SeedOrder) \in Nat \ {0} /\ IsFiniteSet(Seeds) /\ Seeds \subseteq Nodes
                  /\ \A i \in 1..Len(SeedOrder) : SeedOrder[i] \in Seeds
<1>1. Len(SeedOrder) \in Nat /\ \A i \in 1..Len(SeedOrder) : SeedOrder[i] \in Nodes BY SeedsAreNodes, SMT
<1>2. Seeds \subseteq Nodes BY <1>1 DEF Seeds
<1>3. IsFiniteSet(Seeds) BY <1>2, SeedsAreNodes, FS_Subset
<1>4. Len(SeedOrder) # 0
  <2> SUFFICES ASSUME Len(SeedOrder) = 0 PROVE FALSE OBVIOUS
  <2>1. 1..Len(SeedOrder) = {} BY SMT
  <2>2. Seeds = {} BY <2>1 DEF Seeds
  <2>3. Cardinality(Seeds) = 0 BY <2>2, FS_EmptySet
  <2> QED BY <2>3, QuorumOfSeeds, SMT
<1> QED BY <1>1, <1>2, <1>3, <1>4 DEF Seeds

(* An empty set of records and a seed's own record are sound. *)
LEMMA EmptySound ==
  ASSUME NEW max \in Nat, NEW A
  PROVE  Sound(Empty, max, A)
<1>1. NoRecord \in Records BY DirectoryBounds, SMT DEF NoRecord, Records
<1>2. Empty \in [Nodes -> Records] BY <1>1 DEF Empty
<1>3. Known(Empty) = {} BY DEF Known, Empty, NoRecord
<1>4. Cardinality(Known(Empty)) <= max BY <1>3, FS_EmptySet, SMT
<1>5. \A n \in Nodes : Empty[n].seq = 0 /\ Empty[n] = NoRecord BY DEF Empty, NoRecord
<1> QED BY <1>2, <1>4, <1>5 DEF Sound, Witnessed, Quorate, Blank

(* One record as a set of records. *)
LEMMA OnlyRecord ==
  ASSUME NEW a \in Nodes, NEW record \in Records
  PROVE  /\ Only(a, record) \in [Nodes -> Records] /\ Only(a, record)[a] = record
         /\ \A n \in Nodes \ {a} : Only(a, record)[n].seq = 0
<1>1. NoRecord \in Records BY DirectoryBounds, SMT DEF NoRecord, Records
<1>2. Empty \in [Nodes -> Records] BY <1>1 DEF Empty
<1> QED BY <1>2 DEF Only, Empty, NoRecord

(* A seed starts with its own record, which needs no attestation. *)
LEMMA OnlySound ==
  ASSUME NEW a \in Seeds, NEW record \in Records, record.seq # 0, record.att = {}, NEW max \in Nat \ {0}, NEW A
  PROVE  Sound(Only(a, record), max, A)
<1> a \in Nodes BY SomeSeed
<1> DEFINE o == Only(a, record)
<1>1. o \in [Nodes -> Records] /\ o[a] = record /\ \A n \in Nodes \ {a} : o[n].seq = 0 BY OnlyRecord
<1> HIDE DEF o
<1>2. Known(o) \subseteq {a} BY <1>1 DEF Known
<1>3. Cardinality(Known(o)) <= max
  <2>1. IsFiniteSet({a}) /\ Cardinality({a}) = 1 BY FS_Singleton
  <2>2. Cardinality(Known(o)) <= Cardinality({a}) /\ IsFiniteSet(Known(o)) BY <1>2, <2>1, FS_Subset
  <2>3. Cardinality(Known(o)) \in Nat BY <2>2, FS_CardinalityType
  <2> QED BY <2>1, <2>2, <2>3, SMT
<1>4. Witnessed(o, A) BY <1>1 DEF Witnessed
<1>5. Quorate(o) BY <1>1 DEF Quorate
<1>6. Blank(o)
  <2>1. \A n \in Nodes \ {a} : o[n] = NoRecord BY DEF o, Only, Empty
  <2> QED BY <1>1, <2>1 DEF Blank
<1> QED BY <1>1, <1>3, <1>4, <1>5, <1>6 DEF Sound, o

(* What is known after a merge. *)
LEMMA MergedKnown ==
  ASSUME NEW held \in [Nodes -> Records], NEW records \in [Nodes -> Records]
  PROVE  /\ Merged(held, records) \in [Nodes -> Records]
         /\ Known(Merged(held, records)) = Known(held) \cup Known(records)
         /\ \A n \in Nodes : Merged(held, records)[n].seq = IF records[n].seq # 0 THEN records[n].seq ELSE held[n].seq
<1>1. ASSUME NEW n \in Nodes
      PROVE  /\ Merged(held, records)[n] \in Records
             /\ Merged(held, records)[n].seq = IF records[n].seq # 0 THEN records[n].seq ELSE held[n].seq
  BY SMT DEF Merged, MergeRecord, Known, Records
<1>2. Merged(held, records) \in [Nodes -> Records] BY <1>1 DEF Merged
<1> QED BY <1>1, <1>2 DEF Known

(* A merge leaves a registry sound. *)
LEMMA MergedSound ==
  ASSUME NEW held, NEW max \in Nat, NEW records \in [Nodes -> Records], NEW t, NEW A,
         Sound(held, max, A), Witnessed(records, A), MayMerge(held, max, records, t)
  PROVE  Sound(Merged(held, records), max, A)
<1> DEFINE m == Merged(held, records)
<1> held \in [Nodes -> Records] BY DEF Sound
<1>1. m \in [Nodes -> Records] /\ Known(m) = Known(held) \cup Known(records) BY MergedKnown
<1>2. Cardinality(Known(m)) <= max BY <1>1 DEF MayMerge, CanMerge, HasRoom, Sound
<1>3. ASSUME NEW n \in Nodes, m[n].seq # 0
      PROVE  /\ \A s \in m[n].att : <<s, n, m[n].seq>> \in A
             /\ n \in Seeds \/ Cardinality(m[n].att) >= AuthorityQuorum
  <2>1. CASE n \notin Known(records)
    <3>1. m[n] = held[n] BY <2>1 DEF Merged
    <3> QED BY <1>3, <3>1 DEF Sound, Witnessed, Quorate
  <2>2. CASE n \in Known(records)
    <3>1. records[n].seq # 0 /\ m[n] = MergeRecord(held[n], records[n]) BY <2>2 DEF Merged, Known
    <3>2. m[n].seq = records[n].seq BY <3>1, SMT DEF MergeRecord, Records
    <3>3. /\ records[n].att \subseteq m[n].att
          /\ m[n].att = records[n].att \/ (records[n].seq = held[n].seq /\ m[n].att = records[n].att \cup held[n].att)
      BY <3>1, SMT DEF MergeRecord, Records
    <3>4. \A s \in m[n].att : <<s, n, m[n].seq>> \in A BY <3>1, <3>2, <3>3 DEF Sound, Witnessed
    <3>5. n \in Seeds \/ Cardinality(m[n].att) >= AuthorityQuorum
      <4>1. m[n].att \subseteq Seeds BY <1>1, SMT DEF Records
      <4>2. IsFiniteSet(m[n].att) BY <4>1, SomeSeed, FS_Subset
      <4>3. IsFiniteSet(records[n].att) /\ Cardinality(records[n].att) <= Cardinality(m[n].att) BY <3>3, <4>2, FS_Subset
      <4>4. n \in Seeds \/ Cardinality(records[n].att) >= AuthorityQuorum BY <2>2 DEF MayMerge, IsAdmitted
      <4>5. Cardinality(records[n].att) \in Nat /\ Cardinality(m[n].att) \in Nat BY <4>2, <4>3, FS_CardinalityType
      <4>6. AuthorityQuorum \in Nat /\ Cardinality(Seeds) \in Nat
        <5>1. Cardinality(Seeds) \in Nat BY SomeSeed, FS_CardinalityType
        <5> QED BY <5>1, QuorumOfSeeds, SMT
      <4> QED BY <4>3, <4>4, <4>5, <4>6, SMT
    <3> QED BY <3>4, <3>5
  <2> QED BY <2>1, <2>2
<1>4. Blank(m)
  <2>1. ASSUME NEW n \in Nodes, m[n].seq = 0 PROVE m[n] = NoRecord
    <3>1. m[n].seq = IF records[n].seq # 0 THEN records[n].seq ELSE held[n].seq BY MergedKnown
    <3>2. n \notin Known(records) BY <2>1, <3>1 DEF Known
    <3>3. m[n] = held[n] BY <3>2 DEF Merged
    <3> QED BY <2>1, <3>3 DEF Sound, Blank
  <2> QED BY <2>1 DEF Blank
<1> QED BY <1>1, <1>2, <1>3, <1>4 DEF Sound, Witnessed, Quorate

(* What is left of a registry without its expired leases is sound. *)
LEMMA ActiveSound ==
  ASSUME NEW a \in Nodes, NEW t, Registries, NEW max \in Nat, Sound(registry[a], max, attested)
  PROVE  Sound(Active(a, t), max, attested)
<1> DEFINE v == Active(a, t)
<1>1. NoRecord \in Records BY DirectoryBounds, SMT DEF NoRecord, Records
<1>2. v \in [Nodes -> Records] BY <1>1 DEF Active, Registries
<1>3. \A n \in Nodes : v[n].seq # 0 => v[n] = registry[a][n] BY DEF Active, NoRecord
<1>4. Known(v) \subseteq Known(registry[a]) BY <1>3 DEF Known
<1>5. IsFiniteSet(Known(registry[a])) BY SeedsAreNodes, FS_Subset DEF Known
<1>6. Cardinality(Known(v)) <= Cardinality(Known(registry[a])) /\ IsFiniteSet(Known(v)) BY <1>4, <1>5, FS_Subset
<1>7. Cardinality(Known(v)) \in Nat /\ Cardinality(Known(registry[a])) \in Nat BY <1>5, <1>6, FS_CardinalityType
<1>8. Cardinality(Known(v)) <= max BY <1>6, <1>7, SMT DEF Sound
<1>9. Witnessed(v, attested) BY <1>3 DEF Sound, Witnessed
<1>10. Quorate(v) BY <1>3 DEF Sound, Quorate
<1>11. Blank(v)
  <2>1. \A n \in Nodes : v[n] = registry[a][n] \/ v[n] = NoRecord BY DEF Active
  <2> QED BY <2>1 DEF Sound, Blank
<1> QED BY <1>2, <1>8, <1>9, <1>10, <1>11 DEF Sound

(* Later attestations change nothing. *)
LEMMA SoundGrows ==
  ASSUME NEW records, NEW max, NEW A, NEW B, A \subseteq B, Sound(records, max, A)
  PROVE  Sound(records, max, B)
BY DEF Sound, Witnessed

(* What a call of Merge or MergeSnapshot does. *)
LEMMA MergeEffect ==
  ASSUME NEW a \in Nodes, NEW records, NEW t, Registries, Merge(a, records, t)
  PROVE  /\ registry' = [b \in Nodes |-> registry'[b]] /\ newest' = [b \in Nodes |-> newest'[b]]
         /\ \A b \in Nodes \ {a} : registry'[b] = registry[b] /\ newest'[b] = newest[b]
         /\ \/ registry'[a] = registry[a] /\ newest'[a] = newest[a]
            \/ /\ MayMerge(registry[a], MaxNodes[a], records, t)
               /\ registry'[a] = Merged(registry[a], records)
               /\ newest'[a] = [n \in Nodes |-> Higher(newest[a][n], records[n].seq)]
BY DEF Registries, Merge, Accepts

(* A merge of records that were attested keeps every registry sound. *)
LEMMA MergeSound ==
  ASSUME NEW a \in Nodes, NEW records \in [Nodes -> Records], NEW t, Registries, Merge(a, records, t),
         attested \subseteq attested', Witnessed(records, attested')
  PROVE  Registries'
<1>1. \A b \in Nodes : Sound(registry[b], MaxNodes[b], attested') BY SoundGrows DEF Registries
<1>2. ASSUME NEW b \in Nodes
      PROVE  Sound(registry'[b], MaxNodes[b], attested') /\ newest'[b] \in [Nodes -> Nat]
  <2>1. CASE registry'[b] = registry[b] /\ newest'[b] = newest[b] BY <1>1, <2>1 DEF Registries
  <2>2. CASE b = a /\ MayMerge(registry[a], MaxNodes[a], records, t) /\ registry'[a] = Merged(registry[a], records)
             /\ newest'[a] = [n \in Nodes |-> Higher(newest[a][n], records[n].seq)]
    <3>1. MaxNodes[a] \in Nat BY DirectoryBounds
    <3>2. Sound(registry'[b], MaxNodes[b], attested') BY <1>1, <2>2, <3>1, MergedSound
    <3>3. ASSUME NEW n \in Nodes PROVE Higher(newest[a][n], records[n].seq) \in Nat
      BY DirectoryBounds, SMT DEF Higher, Registries, Records
    <3> QED BY <2>2, <3>2, <3>3
  <2>3. b # a => registry'[b] = registry[b] /\ newest'[b] = newest[b] BY MergeEffect
  <2>4. CASE b = a
    <3>1. \/ registry'[a] = registry[a] /\ newest'[a] = newest[a]
          \/ /\ MayMerge(registry[a], MaxNodes[a], records, t)
             /\ registry'[a] = Merged(registry[a], records)
             /\ newest'[a] = [n \in Nodes |-> Higher(newest[a][n], records[n].seq)]
      BY MergeEffect
    <3> QED BY <2>1, <2>2, <2>4, <3>1
  <2> QED BY <2>1, <2>3, <2>4
<1>3. registry' = [b \in Nodes |-> registry'[b]] /\ newest' = [b \in Nodes |-> newest'[b]] BY MergeEffect
<1>4. \A b \in Nodes : registry'[b] \in [Nodes -> Records] BY <1>2 DEF Sound
<1>5. registry' \in [Nodes -> [Nodes -> Records]] /\ newest' \in [Nodes -> [Nodes -> Nat]] BY <1>2, <1>3, <1>4
<1> QED BY <1>2, <1>5 DEF Registries

(* Going on to the next seed keeps the time that SyncOnce was given. *)
LEMMA StepOnPhase ==
  ASSUME Agents, NEW a \in Nodes, NEW at \in {"register", "pull"}, NEW next \in {"merge", "sweep"},
         phase[a].at # "idle", StepOn(a, at, next) \/ Step(a, "pull", 1)
  PROVE  /\ phase' \in [Nodes -> Phases]
         /\ \A b \in Nodes : phase'[b].now = phase[b].now /\ (phase'[b].at = "idle" <=> phase[b].at = "idle")
<1>1. phase \in [Nodes -> Phases] BY DEF Agents
<1>2. PICK x \in {"register", "pull", "merge", "sweep"}, i \in 1..Len(SeedOrder) : Step(a, x, i)
  <2>1. 1 \in 1..Len(SeedOrder) BY SomeSeed, SMT
  <2>2. phase[a].seed \in 1..Len(SeedOrder) BY <1>1, SMT DEF Phases
  <2>3. phase[a].seed < Len(SeedOrder) => phase[a].seed + 1 \in 1..Len(SeedOrder) BY <2>2, SomeSeed, SMT
  <2>4. CASE Step(a, "pull", 1) BY <2>1, <2>4
  <2>5. CASE StepOn(a, at, next) /\ phase[a].seed < Len(SeedOrder) BY <2>3, <2>5 DEF StepOn
  <2>6. CASE StepOn(a, at, next) /\ ~(phase[a].seed < Len(SeedOrder)) BY <2>1, <2>6 DEF StepOn
  <2> QED BY <2>4, <2>5, <2>6
<1>3. PICK p : p = [at |-> x, seed |-> i, now |-> phase[a].now] OBVIOUS
<1>4. p \in Phases /\ p.now = phase[a].now /\ p.at # "idle" BY <1>1, <1>3, SMT DEF Phases
<1>5. phase' = [phase EXCEPT ![a] = p] BY <1>2, <1>3 DEF Step
<1> QED BY <1>1, <1>4, <1>5

(* A step that leaves clock and leases alone. *)
LEMMA AgentsKept ==
  ASSUME Agents, UNCHANGED <<now, sequence, lease>>, phase' \in [Nodes -> Phases], self' \in [Nodes -> Records],
         \A b \in Nodes : self'[b].seq = self[b].seq /\ self'[b].exp = self[b].exp
  PROVE  Agents'
BY DEF Agents

(* An agent that renews its lease signed the last one before now. *)
LEMMA RenewalIsNow ==
  ASSUME Agents, NEW a \in Nodes, NeedsRenewal(a)
  PROVE  Higher(now, sequence[a] + 1) = now
<1>1. /\ now \in Nat /\ sequence[a] \in Nat /\ lease[a] \in Nat \ {0} /\ sequence[a] <= now
      /\ self[a].exp = sequence[a] + lease[a]
  BY DirectoryBounds, SMT DEF Agents
<1>2. sequence[a] + lease[a] <= now + (lease[a] \div 2) BY <1>1 DEF NeedsRenewal
<1>3. lease[a] \div 2 < lease[a] BY <1>1, SMT
<1> QED BY <1>1, <1>2, <1>3, SMT DEF Higher

(* A lease signed now. *)
LEMMA SignedNow ==
  ASSUME Agents, NEW a \in Nodes, NEW term \in Nat \ {0}
  PROVE  /\ Renewed(a, now, term) \in Records /\ Renewed(a, now, term).att = {} /\ Renewed(a, now, term).seq # 0
         /\ Renewed(a, now, term).seq = now /\ Renewed(a, now, term).exp = now + term
BY DirectoryBounds, SMT DEF Agents, Renewed, Records

(* An agent that has signed a lease now. *)
LEMMA AgentsRenewed ==
  ASSUME Agents, NEW a \in Nodes, NEW term \in Nat \ {0}, now' = now,
         lease' = [lease EXCEPT ![a] = term], sequence' = [sequence EXCEPT ![a] = now],
         self' = [self EXCEPT ![a] = Renewed(a, now, term)], phase' \in [Nodes -> Phases]
  PROVE  Agents'
<1>1. self' \in [Nodes -> Records] BY SignedNow DEF Agents
<1>2. now \in Nat /\ now \in 1..now BY DirectoryBounds, SMT DEF Agents
<1>3. sequence' \in [Nodes -> Nat] /\ lease' \in [Nodes -> Nat \ {0}] BY <1>2 DEF Agents
<1>4. ASSUME NEW b \in Nodes
      PROVE  self'[b].seq = sequence'[b] /\ self'[b].exp = sequence'[b] + lease'[b] /\ sequence'[b] \in 1..now
  <2>1. CASE b = a
    <3>1. self'[a] = Renewed(a, now, term) /\ sequence'[a] = now /\ lease'[a] = term BY DEF Agents
    <3>2. Renewed(a, now, term).seq = now /\ Renewed(a, now, term).exp = now + term BY SignedNow
    <3> QED BY <1>2, <2>1, <3>1, <3>2
  <2>2. CASE b # a BY <2>2 DEF Agents
  <2> QED BY <2>1, <2>2
<1> QED BY <1>1, <1>3, <1>4 DEF Agents

(* The phase at which SyncOnce starts. *)
LEMMA PhaseStarts ==
  ASSUME Agents
  PROVE  [at |-> "register", seed |-> 1, now |-> now] \in Phases /\ Idle \in Phases
BY SomeSeed, DirectoryBounds, SMT DEF Agents, Phases, Idle

(* What an agent sends to a seed. *)
LEMMA Registered ==
  ASSUME Agents, NEW a \in Nodes, NEW s \in Seeds
  PROVE  /\ Registration(s, a) \in Records /\ Registration(s, a).att = self[a].att \cup {s}
         /\ Registration(s, a).seq = self[a].seq /\ Registration(s, a).exp = self[a].exp
BY SMT DEF Agents, Registration, Records

(* AcceptRegistration keeps every registry sound: what it merges bears     *)
(* only attestations of this lease.                                        *)
LEMMA AcceptSound ==
  ASSUME DirectoryInv, NEW a \in Nodes, NEW s \in Seeds, AcceptRegistration(s, a)
  PROVE  Registries' /\ attested \subseteq attested' /\ <<s, a, self[a].seq>> \in attested'
<1> Agents /\ Registries /\ OwnAttested /\ s \in Nodes BY SomeSeed DEF DirectoryInv
<1>1. attested \subseteq attested' /\ <<s, a, self[a].seq>> \in attested' BY DEF AcceptRegistration
<1> DEFINE r == Registration(s, a)
           o == Only(a, r)
<1>2. r \in Records /\ r.att = self[a].att \cup {s} /\ r.seq = self[a].seq BY Registered
<1>3. o \in [Nodes -> Records] /\ o[a] = r /\ \A n \in Nodes \ {a} : o[n].seq = 0 BY <1>2, OnlyRecord
<1>4. Merge(s, o, now) BY DEF AcceptRegistration
<1> HIDE DEF o, r
<1>5. \A x \in r.att : <<x, a, r.seq>> \in attested' BY <1>1, <1>2 DEF OwnAttested
<1>6. Witnessed(o, attested') BY <1>3, <1>5 DEF Witnessed
<1>7. Registries' BY <1>1, <1>3, <1>4, <1>6, MergeSound
<1> QED BY <1>1, <1>7

(* A step that leaves registries and attestations alone. *)
LEMMA RegistriesKept == ASSUME Registries, UNCHANGED <<registry, newest, attested>> PROVE Registries'
BY DEF Registries

(* A seed's new lease is merged into its own registry. *)
LEMMA RenewSound ==
  ASSUME DirectoryInv, NEW a \in Nodes, NEW term \in Nat \ {0}, Renew(a, now, term), attested' = attested
  PROVE  Registries'
<1> Agents /\ Registries BY DEF DirectoryInv
<1>1. CASE a \notin Seeds BY <1>1, RegistriesKept DEF Renew
<1>2. CASE a \in Seeds
  <2> DEFINE r == Renewed(a, now, term)
             o == Only(a, r)
  <2>1. r \in Records /\ r.att = {} BY SignedNow
  <2>2. o \in [Nodes -> Records] /\ o[a] = r /\ \A n \in Nodes \ {a} : o[n].seq = 0 BY <2>1, OnlyRecord
  <2>3. Merge(a, o, now) BY <1>2 DEF Renew
  <2> HIDE DEF o, r
  <2>4. Witnessed(o, attested') BY <2>1, <2>2 DEF Witnessed
  <2> QED BY <2>2, <2>3, <2>4, MergeSound
<1> QED BY <1>1, <1>2

(* SyncOnce begins, with a new lease or with the one it has. *)
LEMMA StartKeeps ==
  ASSUME DirectoryInv, NEW a \in Nodes, SyncStart(a)
  PROVE  DirectoryInv'
<1> Agents /\ Registries /\ OwnAttested BY DEF DirectoryInv
<1>1. phase' \in [Nodes -> Phases]
  <2>1. phase \in [Nodes -> Phases] BY DEF Agents
  <2>2. phase' = phase \/ phase' = [phase EXCEPT ![a] = [at |-> "register", seed |-> 1, now |-> now]] BY DEF SyncStart
  <2> QED BY <2>1, <2>2, PhaseStarts
<1>2. CASE NeedsRenewal(a)
  <2>1. Renew(a, now, lease[a]) /\ UNCHANGED <<now, lease, attested>> BY <1>2, RenewalIsNow DEF SyncStart
  <2>2. lease[a] \in Nat \ {0} /\ lease' = [lease EXCEPT ![a] = lease[a]] BY <2>1 DEF Agents
  <2>3. Registries' BY <2>1, <2>2, RenewSound
  <2>4. Agents' BY <1>1, <2>1, <2>2, AgentsRenewed DEF Renew
  <2>5. OwnAttested'
    <3>1. self' = [self EXCEPT ![a] = Renewed(a, now, lease[a])] /\ attested' = attested BY <2>1 DEF Renew
    <3>2. Renewed(a, now, lease[a]).att = {} BY DEF Renewed
    <3>3. self'[a].att = {} /\ \A b \in Nodes \ {a} : self'[b] = self[b] BY <3>1, <3>2 DEF Agents
    <3>4. ASSUME NEW b \in Nodes, NEW x \in self'[b].att PROVE <<x, b, self'[b].seq>> \in attested'
      <4>1. b # a BY <3>3, <3>4
      <4> QED BY <2>1, <3>3, <3>4, <4>1 DEF OwnAttested
    <3> QED BY <3>4 DEF OwnAttested
  <2> QED BY <2>3, <2>4, <2>5 DEF DirectoryInv
<1>3. CASE ~NeedsRenewal(a)
  <2>1. UNCHANGED <<now, sequence, self, lease, registry, newest, attested>> BY <1>3 DEF SyncStart
  <2>2. Agents' BY <1>1, <2>1, AgentsKept DEF Agents
  <2>3. Registries' BY <2>1, RegistriesKept
  <2> QED BY <2>1, <2>2, <2>3 DEF DirectoryInv, OwnAttested
<1> QED BY <1>2, <1>3

(* A round trip to a seed, a request that is lost or skipped, and an       *)
(* answer that is lost.                                                    *)
LEMMA RegisterKeeps ==
  ASSUME DirectoryInv, NEW a \in Nodes, Register(a) \/ RegisterSkipped(a) \/ RegisterUnanswered(a)
  PROVE  DirectoryInv'
<1> Agents /\ Registries /\ OwnAttested BY DEF DirectoryInv
<1> DEFINE s == SeedOrder[phase[a].seed]
<1>1. s \in Seeds
  <2>1. phase[a].seed \in 1..Len(SeedOrder) BY SMT DEF Agents, Phases
  <2> QED BY <2>1, SomeSeed
<1>2. phase' \in [Nodes -> Phases]
  <2>1. phase[a].at = "register" /\ StepOn(a, "register", "merge") BY DEF Register, RegisterSkipped, RegisterUnanswered
  <2> QED BY <2>1, StepOnPhase
<1>3. UNCHANGED <<now, sequence, lease>> BY DEF Register, RegisterSkipped, RegisterUnanswered
<1>4. CASE RegisterSkipped(a)
  <2>1. UNCHANGED <<self, registry, newest, attested>> BY <1>4 DEF RegisterSkipped
  <2>2. Agents' BY <1>2, <1>3, <2>1, AgentsKept DEF Agents
  <2> QED BY <2>1, <2>2, RegistriesKept DEF DirectoryInv, OwnAttested
<1>5. CASE AcceptRegistration(s, a) /\ (self' = self \/ self' = [self EXCEPT ![a] = Registration(s, a)])
  <2>1. Registries' /\ attested \subseteq attested' /\ <<s, a, self[a].seq>> \in attested' BY <1>1, <1>5, AcceptSound
  <2>2. CASE self' = self
    <3>1. Agents' BY <1>2, <1>3, <2>2, AgentsKept DEF Agents
    <3> QED BY <2>1, <2>2, <3>1 DEF DirectoryInv, OwnAttested
  <2>3. CASE self' = [self EXCEPT ![a] = Registration(s, a)]
    <3>1. /\ Registration(s, a) \in Records /\ Registration(s, a).att = self[a].att \cup {s}
          /\ Registration(s, a).seq = self[a].seq /\ Registration(s, a).exp = self[a].exp
      BY <1>1, Registered
    <3>2. self' \in [Nodes -> Records] /\ self'[a] = Registration(s, a) /\ \A b \in Nodes \ {a} : self'[b] = self[b]
      BY <2>3, <3>1 DEF Agents
    <3>3. \A b \in Nodes : self'[b].seq = self[b].seq /\ self'[b].exp = self[b].exp BY <3>1, <3>2
    <3>4. Agents' BY <1>2, <1>3, <3>2, <3>3, AgentsKept
    <3>5. OwnAttested' BY <2>1, <3>1, <3>2 DEF OwnAttested
    <3> QED BY <2>1, <3>4, <3>5 DEF DirectoryInv
  <2> QED BY <1>5, <2>2, <2>3
<1>6. RegisterSkipped(a) \/ (AcceptRegistration(s, a) /\ (self' = self \/ self' = [self EXCEPT ![a] = Registration(s, a)]))
  <2>1. CASE Register(a)
    <3>1. AcceptRegistration(s, a) BY <2>1 DEF Register
    <3>2. self' = [self EXCEPT ![a] = self[a]] \/ self' = [self EXCEPT ![a] = Registration(s, a)] BY <2>1 DEF Register
    <3> QED BY <3>1, <3>2 DEF Agents
  <2>2. CASE RegisterUnanswered(a) BY <2>2 DEF RegisterUnanswered
  <2> QED BY <2>1, <2>2
<1> QED BY <1>4, <1>5, <1>6

(* The merges of SyncOnce: the agent's own lease and a seed's snapshot. *)
LEMMA MergesKeep ==
  ASSUME DirectoryInv, NEW a \in Nodes, MergeSelf(a) \/ Pull(a) \/ PullLost(a)
  PROVE  DirectoryInv'
<1> Agents /\ Registries /\ OwnAttested BY DEF DirectoryInv
<1>1. UNCHANGED <<now, self, sequence, lease, attested>> BY DEF MergeSelf, Pull, PullLost
<1>2. phase' \in [Nodes -> Phases]
  <2>1. phase[a].at # "idle" /\ (StepOn(a, "pull", "sweep") \/ Step(a, "pull", 1)) BY DEF MergeSelf, Pull, PullLost
  <2> QED BY <2>1, StepOnPhase
<1>3. Agents' BY <1>1, <1>2, AgentsKept DEF Agents
<1>4. CASE MergeSelf(a)
  <2> DEFINE o == Only(a, self[a])
  <2>1. self[a] \in Records BY DEF Agents
  <2>2. o \in [Nodes -> Records] /\ o[a] = self[a] /\ \A n \in Nodes \ {a} : o[n].seq = 0 BY <2>1, OnlyRecord
  <2>3. Merge(a, o, phase[a].now) BY <1>4 DEF MergeSelf
  <2> HIDE DEF o
  <2>4. Witnessed(o, attested') BY <1>1, <2>2 DEF Witnessed, OwnAttested
  <2>5. Registries' BY <1>1, <2>2, <2>3, <2>4, MergeSound
  <2> QED BY <1>1, <1>3, <2>5 DEF DirectoryInv, OwnAttested
<1>5. CASE Pull(a)
  <2> DEFINE s == SeedOrder[phase[a].seed]
  <2>1. phase[a].seed \in 1..Len(SeedOrder) BY SMT DEF Agents, Phases
  <2>2. s \in Nodes BY <2>1, SomeSeed
  <2>3. Sound(registry[s], MaxNodes[s], attested) /\ MaxNodes[s] \in Nat BY <2>2, DirectoryBounds DEF Registries
  <2>4. Sound(Active(s, now), MaxNodes[s], attested) BY <2>2, <2>3, ActiveSound
  <2>5. Merge(a, Active(s, now), phase[a].now) BY <1>5 DEF Pull
  <2>6. Registries' BY <1>1, <2>4, <2>5, MergeSound DEF Sound
  <2> QED BY <1>1, <1>3, <2>6 DEF DirectoryInv, OwnAttested
<1>6. CASE PullLost(a)
  <2>1. UNCHANGED <<registry, newest, attested>> BY <1>6 DEF PullLost
  <2> QED BY <1>1, <1>3, <2>1, RegistriesKept DEF DirectoryInv, OwnAttested
<1> QED BY <1>4, <1>5, <1>6

(* A sweep, and a start of the process with nothing but its key. *)
LEMMA ResetKeeps ==
  ASSUME DirectoryInv, NEW a \in Nodes, RegistrySweep(a) \/ Restart(a)
  PROVE  DirectoryInv'
<1> Agents /\ Registries /\ OwnAttested BY DEF DirectoryInv
<1>1. phase' \in [Nodes -> Phases]
  <2>1. phase' = [phase EXCEPT ![a] = Idle] BY DEF RegistrySweep, Restart
  <2> QED BY <2>1, PhaseStarts DEF Agents
<1>2. ASSUME NEW held, NEW news \in [Nodes -> Nat], Sound(held, MaxNodes[a], attested), attested' = attested,
             registry' = [registry EXCEPT ![a] = held], newest' = [newest EXCEPT ![a] = news]
      PROVE  Registries'
  <2>1. held \in [Nodes -> Records] BY <1>2 DEF Sound
  <2>2. registry' \in [Nodes -> [Nodes -> Records]] /\ newest' \in [Nodes -> [Nodes -> Nat]] BY <1>2, <2>1 DEF Registries
  <2>3. ASSUME NEW b \in Nodes PROVE Sound(registry'[b], MaxNodes[b], attested')
    <3>1. registry'[a] = held /\ \A c \in Nodes \ {a} : registry'[c] = registry[c] BY <1>2 DEF Registries
    <3>2. CASE b = a BY <1>2, <3>1, <3>2
    <3>3. CASE b # a BY <1>2, <3>1, <3>3 DEF Registries
    <3> QED BY <3>2, <3>3
  <2> QED BY <2>2, <2>3 DEF Registries
<1>3. CASE RegistrySweep(a)
  <2>1. UNCHANGED <<now, self, sequence, lease, attested, newest>> BY <1>3 DEF RegistrySweep
  <2>2. Agents' BY <1>1, <2>1, AgentsKept DEF Agents
  <2>3. Sound(Active(a, phase[a].now), MaxNodes[a], attested) BY ActiveSound, DirectoryBounds DEF Registries
  <2>4. registry' = [registry EXCEPT ![a] = Active(a, phase[a].now)] BY <1>3 DEF RegistrySweep
  <2>5. newest[a] \in [Nodes -> Nat] /\ newest' = [newest EXCEPT ![a] = newest[a]] BY <2>1 DEF Registries
  <2>6. Registries' BY <1>2, <2>1, <2>3, <2>4, <2>5
  <2> QED BY <2>1, <2>2, <2>6 DEF DirectoryInv, OwnAttested
<1>4. CASE Restart(a)
  <2>1. PICK term \in Leases[a] :
          /\ lease' = [lease EXCEPT ![a] = term] /\ sequence' = [sequence EXCEPT ![a] = now]
          /\ self' = [self EXCEPT ![a] = Renewed(a, now, term)]
          /\ registry' = [registry EXCEPT ![a] = IF a \in Seeds THEN Only(a, Renewed(a, now, term)) ELSE Empty]
          /\ newest' = [newest EXCEPT ![a] = [n \in Nodes |-> registry'[a][n].seq]]
    BY <1>4 DEF Restart
  <2>2. term \in Nat \ {0} BY LeasesPositive
  <2>3. now' = now /\ attested' = attested BY <1>4 DEF Restart
  <2>4. Agents' BY <1>1, <2>1, <2>2, <2>3, AgentsRenewed
  <2> DEFINE r == Renewed(a, now, term)
             held == IF a \in Seeds THEN Only(a, r) ELSE Empty
  <2>5. r \in Records /\ r.att = {} /\ r.seq # 0 BY <2>2, SignedNow
  <2>6. MaxNodes[a] \in Nat \ {0} /\ MaxNodes[a] \in Nat BY DirectoryBounds
  <2>7. Sound(held, MaxNodes[a], attested)
    <3>1. CASE a \in Seeds BY <2>5, <2>6, <3>1, OnlySound
    <3>2. CASE a \notin Seeds BY <2>6, <3>2, EmptySound
    <3> QED BY <3>1, <3>2
  <2>8. registry' = [registry EXCEPT ![a] = held] BY <2>1
  <2> HIDE DEF held
  <2>9. registry'[a] = held /\ held \in [Nodes -> Records] BY <2>7, <2>8 DEF Registries, Sound
  <2>10. [n \in Nodes |-> registry'[a][n].seq] \in [Nodes -> Nat]
    <3>1. \A n \in Nodes : held[n].seq \in Nat BY <2>9, DirectoryBounds, SMT DEF Records
    <3> QED BY <2>9, <3>1
  <2>11. Registries' BY <1>2, <2>1, <2>3, <2>7, <2>8, <2>10
  <2>12. OwnAttested'
    <3>1. self'[a].att = {} /\ \A b \in Nodes \ {a} : self'[b] = self[b] BY <2>1, <2>5 DEF Agents
    <3>2. ASSUME NEW b \in Nodes, NEW x \in self'[b].att PROVE <<x, b, self'[b].seq>> \in attested'
      <4>1. b # a BY <3>1, <3>2
      <4> QED BY <2>3, <3>1, <3>2, <4>1 DEF OwnAttested
    <3> QED BY <3>2 DEF OwnAttested
  <2> QED BY <2>4, <2>11, <2>12 DEF DirectoryInv
<1> QED BY <1>3, <1>4

(* All agents start at time 1. *)
LEMMA DirectoryStarts == DirectoryInit => DirectoryInv
<1> SUFFICES ASSUME DirectoryInit PROVE DirectoryInv OBVIOUS
<1>1. now = 1 /\ lease \in [Nodes -> Nat \ {0}] /\ 1 \in 1..MaxTime /\ 1 \in 1..1
  <2>1. lease \in [Nodes -> UNION {Leases[a] : a \in Nodes}] /\ \A a \in Nodes : lease[a] \in Leases[a] BY DEF DirectoryInit
  <2>2. \A a \in Nodes : lease[a] \in Nat \ {0} BY <2>1, LeasesPositive
  <2>3. lease \in [Nodes -> Nat \ {0}] BY <2>1, <2>2
  <2>4. 1 \in 1..MaxTime /\ 1 \in 1..1 BY DirectoryBounds, SMT
  <2> QED BY <2>3, <2>4 DEF DirectoryInit
<1>2. ASSUME NEW a \in Nodes
      PROVE  /\ self[a] \in Records /\ self[a].att = {} /\ self[a].seq = 1 /\ self[a].seq # 0 /\ sequence[a] = 1
             /\ self[a].exp = sequence[a] + lease[a]
  <2>1. self[a] = [seq |-> 1, exp |-> 1 + lease[a], att |-> {}] /\ sequence[a] = 1 BY DEF DirectoryInit
  <2>2. lease[a] \in Nat BY <1>1
  <2> QED BY <1>1, <2>1, <2>2, DirectoryBounds, SMT DEF Records
<1>3. Idle \in Phases BY SomeSeed, SMT DEF Idle, Phases
<1>4. self \in [Nodes -> Records] /\ sequence \in [Nodes -> Nat] /\ phase \in [Nodes -> Phases]
  <2>1. 1 \in Nat BY SMT
  <2> QED BY <1>2, <1>3, <2>1 DEF DirectoryInit
<1>5. Agents BY <1>1, <1>2, <1>4 DEF Agents
<1>6. ASSUME NEW a \in Nodes PROVE Sound(registry[a], MaxNodes[a], attested)
  <2>1. MaxNodes[a] \in Nat \ {0} /\ MaxNodes[a] \in Nat BY DirectoryBounds
  <2>2. registry[a] = IF a \in Seeds THEN Only(a, self[a]) ELSE Empty BY DEF DirectoryInit
  <2>3. CASE a \in Seeds BY <1>2, <2>1, <2>2, <2>3, OnlySound
  <2>4. CASE a \notin Seeds BY <2>1, <2>2, <2>4, EmptySound
  <2> QED BY <2>3, <2>4
<1>7. registry \in [Nodes -> [Nodes -> Records]] BY <1>6 DEF DirectoryInit, Sound
<1>8. newest \in [Nodes -> [Nodes -> Nat]]
  <2>1. \A a, n \in Nodes : registry[a][n].seq \in Nat BY <1>7, DirectoryBounds, SMT DEF Records
  <2> QED BY <2>1 DEF DirectoryInit
<1>9. OwnAttested BY <1>2 DEF OwnAttested
<1> QED BY <1>5, <1>6, <1>7, <1>8, <1>9 DEF DirectoryInv, Registries

(* Every step keeps the invariant. *)
LEMMA DirectorySteps == DirectoryInv /\ [DirectoryNext]_directoryVars => DirectoryInv'
<1> SUFFICES ASSUME DirectoryInv, [DirectoryNext]_directoryVars PROVE DirectoryInv' OBVIOUS
<1>1. CASE Tick
  <2>1. UNCHANGED <<registry, self, sequence, lease, phase, attested, newest>> BY <1>1 DEF Tick
  <2>2. now' \in 1..MaxTime /\ \A k \in 1..now : k \in 1..now' BY <1>1, DirectoryBounds, SMT DEF Tick, DirectoryInv, Agents
  <2>3. Agents' BY <2>1, <2>2 DEF DirectoryInv, Agents
  <2> QED BY <2>1, <2>3 DEF DirectoryInv, Registries, OwnAttested
<1>2. CASE UNCHANGED directoryVars BY <1>2 DEF directoryVars, DirectoryInv, Agents, Registries, OwnAttested
<1>3. ASSUME NEW a \in Nodes, Sync(a) \/ Restart(a) PROVE DirectoryInv'
  BY <1>3, StartKeeps, RegisterKeeps, MergesKeep, ResetKeeps DEF Sync
<1> QED BY <1>1, <1>2, <1>3 DEF DirectoryNext

(* The registries and agents of the directory stay well formed, and no     *)
(* registry outgrows Policy.MaxNodes.                                      *)
THEOREM DirectoryWithinBounds == DirectorySpec => []TypeOK
<1>1. DirectoryInv => TypeOK BY DEF DirectoryInv, Agents, Registries, Sound, Phases, TypeOK
<1> QED BY <1>1, DirectoryStarts, DirectorySteps, PTL DEF DirectorySpec

(* For any seeds, quorum, leases and losses, a registry holds a node that  *)
(* is not pinned only with a quorum of attestations of this very lease.    *)
THEOREM QuorumHolds == DirectorySpec => []AdmittedByQuorum
<1>1. DirectoryInv => AdmittedByQuorum BY DEF DirectoryInv, Registries, Sound, Witnessed, Quorate, AdmittedByQuorum
<1> QED BY <1>1, DirectoryStarts, DirectorySteps, PTL DEF DirectorySpec

-----------------------------------------------------------------------------
(* Rollback *)

(* The clocks of the agents are numbers. *)
LEMMA ClockTyped == ASSUME Agents PROVE now \in Nat /\ \A a \in Nodes : Clock(a) \in Nat /\ phase[a].now \in Nat
<1>1. now \in Nat BY DirectoryBounds, SMT DEF Agents
<1>2. \A a \in Nodes : phase[a].now \in Nat BY SMT DEF Agents, Phases
<1> QED BY <1>1, <1>2 DEF Clock

(* One record is dated when it runs for its node's lease. *)
LEMMA OnlyDated ==
  ASSUME NEW a \in Nodes, NEW record \in Records, record.exp = record.seq + lease[a]
  PROVE  Dated(Only(a, record))
<1>1. Only(a, record)[a] = record /\ \A n \in Nodes \ {a} : Only(a, record)[n].seq = 0 BY OnlyRecord
<1> QED BY <1>1 DEF Dated

(* An empty registry holds no lease. *)
LEMMA EmptyDated == NoRecord.seq = 0 /\ Dated(Empty)
<1>1. NoRecord.seq = 0 BY DEF NoRecord
<1>2. \A n \in Nodes : Empty[n] = NoRecord BY DEF Empty
<1> QED BY <1>1, <1>2 DEF Dated

(* What a step of SyncOnce is for the registries: a sweep, no change, or a *)
(* merge at a time that the clock of the registry's agent has reached.     *)
LEMMA SyncMerges ==
  ASSUME DirectoryInv, \A b \in Nodes : Clock(b) <= now, NEW a \in Nodes, Sync(a), ~RegistrySweep(a)
  PROVE  /\ now' = now /\ lease' = lease /\ \A b \in Nodes : Clock(b)' = Clock(b)
         /\ UNCHANGED <<registry, newest, until>> \/ MergesSome
<1> Agents /\ Registries BY DEF DirectoryInv
<1>1. now \in Nat /\ \A b \in Nodes : phase[b].now \in Nat BY ClockTyped
<1> DEFINE s == SeedOrder[phase[a].seed]
<1>2. s \in Seeds /\ s \in Nodes
  <2>1. phase[a].seed \in 1..Len(SeedOrder) BY SMT DEF Agents, Phases
  <2> QED BY <2>1, SomeSeed
<1>3. CASE SyncStart(a)
  <2>1. now' = now /\ lease' = lease /\ phase[a].at = "idle" BY <1>3 DEF SyncStart
  <2>2. \A b \in Nodes : Clock(b)' = Clock(b)
    <3>1. phase' = phase \/ phase' = [phase EXCEPT ![a] = [at |-> "register", seed |-> 1, now |-> now]] BY <1>3 DEF SyncStart
    <3>2. PICK p : p = [at |-> "register", seed |-> 1, now |-> now] OBVIOUS
    <3>3. p.at # "idle" /\ p.now = now BY <3>2
    <3>4. \A b \in Nodes : phase'[b] = phase[b] \/ (b = a /\ phase'[b] = p) BY <3>1, <3>2 DEF Agents
    <3> QED BY <2>1, <3>3, <3>4 DEF Clock
  <2>3. CASE NeedsRenewal(a) /\ a \in Seeds
    <3> DEFINE r == Renewed(a, now, lease[a])
               o == Only(a, r)
    <3>1. Merge(a, o, now) BY <1>3, <2>3, RenewalIsNow DEF SyncStart, Renew
    <3>2. lease[a] \in Nat \ {0} BY DEF Agents
    <3>3. r \in Records /\ r.seq = now /\ r.exp = now + lease[a] BY <3>2, SignedNow
    <3>4. o \in [Nodes -> Records] /\ Dated(o) BY <3>3, OnlyRecord, OnlyDated
    <3> HIDE DEF o
    <3> QED BY <1>1, <2>1, <2>2, <3>1, <3>4 DEF MergesSome
  <2> QED BY <1>3, <2>1, <2>2, <2>3 DEF SyncStart, Renew
<1>4. CASE Register(a) \/ RegisterSkipped(a) \/ RegisterUnanswered(a) \/ MergeSelf(a) \/ Pull(a) \/ PullLost(a)
  <2>1. /\ now' = now /\ lease' = lease /\ phase[a].at # "idle"
        /\ StepOn(a, "register", "merge") \/ StepOn(a, "pull", "sweep") \/ Step(a, "pull", 1)
    BY <1>4 DEF Register, RegisterSkipped, RegisterUnanswered, MergeSelf, Pull, PullLost
  <2>2. \A b \in Nodes : Clock(b)' = Clock(b)
    <3>1. \A b \in Nodes : phase'[b].now = phase[b].now /\ (phase'[b].at = "idle" <=> phase[b].at = "idle")
      BY <2>1, StepOnPhase
    <3> QED BY <2>1, <3>1 DEF Clock
  <2>3. Clock(a) = phase[a].now /\ Clock(a) <= phase[a].now
    <3>1. Clock(a) = phase[a].now BY <2>1 DEF Clock
    <3> QED BY <1>1, <3>1, SMT
  <2>4. CASE RegisterSkipped(a) \/ PullLost(a) BY <2>1, <2>2, <2>4 DEF RegisterSkipped, PullLost
  <2>5. CASE Register(a) \/ RegisterUnanswered(a)
    <3> DEFINE r == Registration(s, a)
               o == Only(a, r)
    <3>1. Merge(s, o, now) BY <2>5 DEF Register, RegisterUnanswered, AcceptRegistration
    <3>2. r \in Records /\ r.exp = r.seq + lease[a]
      <4>1. r \in Records /\ r.seq = self[a].seq /\ r.exp = self[a].exp BY <1>2, Registered
      <4> QED BY <4>1 DEF Agents
    <3>3. o \in [Nodes -> Records] /\ Dated(o) BY <3>2, OnlyRecord, OnlyDated
    <3> HIDE DEF o, s
    <3> QED BY <1>1, <1>2, <2>1, <2>2, <3>1, <3>3 DEF MergesSome
  <2>6. CASE MergeSelf(a)
    <3>1. self[a] \in Records /\ self[a].exp = self[a].seq + lease[a] BY DEF Agents
    <3>2. Only(a, self[a]) \in [Nodes -> Records] /\ Dated(Only(a, self[a])) BY <3>1, OnlyRecord, OnlyDated
    <3>3. Merge(a, Only(a, self[a]), phase[a].now) BY <2>6 DEF MergeSelf
    <3> QED BY <1>1, <2>1, <2>2, <2>3, <3>2, <3>3 DEF MergesSome
  <2>7. CASE Pull(a)
    <3> DEFINE v == Active(s, now)
    <3>1. Sound(registry[s], MaxNodes[s], attested) /\ MaxNodes[s] \in Nat BY <1>2, DirectoryBounds DEF Registries
    <3>2. v \in [Nodes -> Records] BY <1>2, <3>1, ActiveSound DEF Sound
    <3>3. \A n \in Nodes : v[n].seq # 0 => v[n] = registry[s][n] BY EmptyDated DEF Active
    <3>4. Dated(registry[s]) => Dated(v) BY <3>3 DEF Dated
    <3>5. Merge(a, v, phase[a].now) BY <2>7 DEF Pull
    <3> HIDE DEF v, s
    <3> QED BY <1>1, <1>2, <2>1, <2>2, <2>3, <3>2, <3>4, <3>5 DEF MergesSome
  <2> QED BY <1>4, <2>4, <2>5, <2>6, <2>7
<1> QED BY <1>3, <1>4 DEF Sync

(* A new process, and one whose SyncOnce ends, has the time of now. *)
LEMMA ClockReset ==
  ASSUME Agents, NEW a \in Nodes, now' = now, phase' = [phase EXCEPT ![a] = Idle]
  PROVE  Clock(a)' = now /\ \A b \in Nodes \ {a} : Clock(b)' = Clock(b)
<1>1. phase'[a] = Idle /\ \A b \in Nodes \ {a} : phase'[b] = phase[b] BY DEF Agents
<1>2. Idle.at = "idle" BY DEF Idle
<1>3. Clock(a)' = now
  <2>1. phase'[a].at = "idle" BY <1>1, <1>2
  <2> QED BY <2>1 DEF Clock
<1>4. ASSUME NEW b \in Nodes \ {a} PROVE Clock(b)' = Clock(b)
  <2>1. phase'[b] = phase[b] BY <1>1
  <2> QED BY <2>1, SMT DEF Clock
<1> QED BY <1>3, <1>4

(* A merge keeps running leases: it replaces a lease by one at least as    *)
(* new, whatever the records.                                              *)
LEMMA MergeKeepsRunning ==
  ASSUME DirectoryInv, RunningInv, NEW a \in Nodes, NEW records \in [Nodes -> Records], NEW t,
         Merge(a, records, t), now' = now, \A b \in Nodes : Clock(b)' = Clock(b)
  PROVE  RunningInv'
<1> Registries BY DEF DirectoryInv
<1>1. /\ registry \in [Nodes -> [Nodes -> Records]] /\ newest \in [Nodes -> [Nodes -> Nat]]
      /\ until \in [Nodes -> [Nodes -> Nat]]
  BY DEF Registries, RunningInv
<1>2. CASE ~Accepts(a, records, t)
  <2>1. registry' = registry /\ newest' = newest /\ until' = until BY <1>1, <1>2 DEF Merge
  <2> QED BY <2>1 DEF RunningInv
<1>3. CASE Accepts(a, records, t)
  <2> DEFINE news == [n \in Nodes |-> Higher(newest[a][n], records[n].seq)]
             ends == [n \in Nodes |-> IF n \in Known(records) /\ newest[a][n] <= records[n].seq THEN records[n].exp ELSE until[a][n]]
  <2>1. /\ registry' = [registry EXCEPT ![a] = Merged(registry[a], records)]
        /\ newest' = [newest EXCEPT ![a] = news] /\ until' = [until EXCEPT ![a] = ends]
    BY <1>3 DEF Merge
  <2>2. ASSUME NEW n \in Nodes
        PROVE  /\ ends[n] \in Nat
               /\ ends[n] > Clock(a) => /\ Merged(registry[a], records)[n].seq = news[n]
                                        /\ Merged(registry[a], records)[n].exp = ends[n]
    <3>1. /\ registry[a][n] \in Records /\ records[n] \in Records /\ newest[a][n] \in Nat /\ until[a][n] \in Nat
          /\ registry[a][n].seq \in Nat /\ records[n].seq \in Nat /\ records[n].exp \in Nat
      BY <1>1, DirectoryBounds, SMT DEF Records
    <3>2. until[a][n] > Clock(a) => registry[a][n].seq = newest[a][n] /\ registry[a][n].exp = until[a][n] BY DEF RunningInv
    <3>3. ends[n] = (IF n \in Known(records) /\ newest[a][n] <= records[n].seq THEN records[n].exp ELSE until[a][n])
          /\ news[n] = Higher(newest[a][n], records[n].seq)
      OBVIOUS
    <3> HIDE DEF ends, news
    <3>4. CASE records[n].seq # 0
      <4>1. ~(records[n].seq < registry[a][n].seq)
        BY <1>3, <3>4 DEF Accepts, MayMerge, CanMerge, IsRollback, Known
      <4>2. Merged(registry[a], records)[n].seq = records[n].seq /\ Merged(registry[a], records)[n].exp = records[n].exp
        BY <3>1, <3>4, SMT DEF Merged, MergeRecord, Known, Records
      <4>3. CASE newest[a][n] <= records[n].seq
        <5>1. ends[n] = records[n].exp /\ news[n] = records[n].seq BY <3>1, <3>3, <3>4, <4>3, SMT DEF Higher, Known
        <5> QED BY <3>1, <4>2, <5>1
      <4>4. CASE ~(newest[a][n] <= records[n].seq)
        <5>1. ends[n] = until[a][n] BY <3>3, <4>4
        <5>2. registry[a][n].seq # newest[a][n] BY <3>1, <4>1, <4>4, SMT
        <5> QED BY <3>1, <3>2, <5>1, <5>2
      <4> QED BY <4>3, <4>4
    <3>5. CASE records[n].seq = 0
      <4>1. Merged(registry[a], records)[n] = registry[a][n] BY <3>5 DEF Merged, Known
      <4>2. news[n] = newest[a][n] BY <3>1, <3>3, <3>5, SMT DEF Higher
      <4>3. ends[n] = until[a][n] BY <3>3, <3>5 DEF Known
      <4> QED BY <3>1, <3>2, <4>1, <4>2, <4>3
    <3> QED BY <3>4, <3>5
  <2>3. ends \in [Nodes -> Nat] BY <2>2
  <2>4. /\ registry'[a] = Merged(registry[a], records) /\ newest'[a] = news /\ until'[a] = ends
        /\ \A b \in Nodes \ {a} : registry'[b] = registry[b] /\ newest'[b] = newest[b] /\ until'[b] = until[b]
    BY <1>1, <2>1
  <2> HIDE DEF ends, news
  <2>5. until' \in [Nodes -> [Nodes -> Nat]] BY <1>1, <2>1, <2>3
  <2>6. ASSUME NEW b \in Nodes, NEW n \in Nodes, until'[b][n] > Clock(b)
        PROVE  registry'[b][n].seq = newest'[b][n] /\ registry'[b][n].exp = until'[b][n]
    <3>1. CASE b = a
      <4>1. ends[n] > Clock(a) BY <2>4, <2>6, <3>1
      <4> QED BY <2>2, <2>4, <3>1, <4>1
    <3>2. CASE b # a
      <4>1. registry'[b] = registry[b] /\ newest'[b] = newest[b] /\ until'[b] = until[b] BY <2>4, <3>2
      <4>2. until[b][n] > Clock(b) BY <2>6, <4>1
      <4> QED BY <4>1, <4>2 DEF RunningInv
    <3> QED BY <3>1, <3>2
  <2> QED BY <2>5, <2>6 DEF RunningInv
<1> QED BY <1>2, <1>3

(* A sweep takes only what has expired, and a new process has seen what it *)
(* has.                                                                    *)
LEMMA ResetKeepsRunning ==
  ASSUME DirectoryInv, DirectoryInv', RunningInv, NEW a \in Nodes, RegistrySweep(a) \/ Restart(a)
  PROVE  RunningInv'
<1> Agents /\ Registries /\ Registries' BY DEF DirectoryInv
<1>1. now' = now /\ now \in Nat /\ now <= now
  <2>1. now' = now /\ now \in Nat BY ClockTyped DEF RegistrySweep, Restart
  <2> QED BY <2>1, SMT
<1>2. /\ registry \in [Nodes -> [Nodes -> Records]] /\ newest \in [Nodes -> [Nodes -> Nat]]
      /\ until \in [Nodes -> [Nodes -> Nat]]
  BY DEF Registries, RunningInv
<1>3. Clock(a)' = now /\ \A b \in Nodes \ {a} : Clock(b)' = Clock(b)
  <2>1. phase' = [phase EXCEPT ![a] = Idle] BY DEF RegistrySweep, Restart
  <2> QED BY <1>1, <2>1, ClockReset
<1>4. \A b \in Nodes : Clock(b)' <= now BY <1>1, <1>3 DEF RunningInv
<1>5. \A b \in Nodes \ {a} : registry'[b] = registry[b] /\ newest'[b] = newest[b] /\ until'[b] = until[b]
  BY <1>2 DEF RegistrySweep, Restart
<1>6. /\ until' \in [Nodes -> [Nodes -> Nat]]
      /\ \A n \in Nodes : until'[a][n] > now => registry'[a][n].seq = newest'[a][n] /\ registry'[a][n].exp = until'[a][n]
  <2>1. CASE RegistrySweep(a)
    <3>1. registry'[a] = Active(a, phase[a].now) /\ newest' = newest /\ until' = until BY <1>2, <2>1 DEF RegistrySweep
    <3>2. phase[a].now \in Nat /\ phase[a].now <= now /\ Clock(a) = phase[a].now
      BY <2>1, ClockTyped DEF RegistrySweep, Clock, RunningInv
    <3>3. ASSUME NEW n \in Nodes, until[a][n] > now
          PROVE  registry'[a][n].seq = newest[a][n] /\ registry'[a][n].exp = until[a][n]
      <4>1. until[a][n] > phase[a].now
        <5>1. until[a][n] \in Nat BY <1>2
        <5> QED BY <1>1, <3>2, <3>3, <5>1, SMT
      <4>2. registry[a][n].seq = newest[a][n] /\ registry[a][n].exp = until[a][n] BY <3>2, <4>1 DEF RunningInv
      <4>3. registry'[a][n] = registry[a][n] BY <3>1, <4>1, <4>2 DEF Active
      <4> QED BY <4>2, <4>3
    <3> QED BY <1>2, <3>1, <3>3
  <2>2. CASE Restart(a)
    <3>1. /\ newest' = [newest EXCEPT ![a] = [n \in Nodes |-> registry'[a][n].seq]]
          /\ until' = [until EXCEPT ![a] = [n \in Nodes |-> registry'[a][n].exp]]
      BY <2>2 DEF Restart
    <3>2. \A n \in Nodes : registry'[a][n].exp \in Nat
      <4>1. \A n \in Nodes : registry'[a][n] \in Records BY DEF Registries, Records
      <4> QED BY <4>1, SMT DEF Records
    <3>3. until' \in [Nodes -> [Nodes -> Nat]] BY <1>2, <3>1, <3>2
    <3>4. \A n \in Nodes : newest'[a][n] = registry'[a][n].seq /\ until'[a][n] = registry'[a][n].exp BY <1>2, <3>1
    <3> QED BY <3>3, <3>4
  <2> QED BY <2>1, <2>2
<1>7. ASSUME NEW b \in Nodes, NEW n \in Nodes, until'[b][n] > Clock(b)'
      PROVE  registry'[b][n].seq = newest'[b][n] /\ registry'[b][n].exp = until'[b][n]
  <2>1. CASE b = a BY <1>3, <1>6, <1>7, <2>1
  <2>2. CASE b # a
    <3>1. registry'[b] = registry[b] /\ newest'[b] = newest[b] /\ until'[b] = until[b] BY <1>5, <2>2
    <3>2. until[b][n] > Clock(b) BY <1>3, <1>7, <2>2, <3>1
    <3> QED BY <3>1, <3>2 DEF RunningInv
  <2> QED BY <2>1, <2>2
<1> QED BY <1>1, <1>4, <1>6, <1>7 DEF RunningInv

(* At the start every agent has the newest lease it has seen. *)
LEMMA RunningStarts == DirectoryInit => RunningInv
<1> SUFFICES ASSUME DirectoryInit PROVE RunningInv OBVIOUS
<1>1. registry \in [Nodes -> [Nodes -> Records]] BY DirectoryStarts DEF DirectoryInv, Registries
<1>2. \A a, n \in Nodes : registry[a][n].exp \in Nat BY <1>1, SMT DEF Records
<1>3. until \in [Nodes -> [Nodes -> Nat]] BY <1>2 DEF DirectoryInit
<1>4. \A a, n \in Nodes : newest[a][n] = registry[a][n].seq /\ until[a][n] = registry[a][n].exp BY DEF DirectoryInit
<1>5. ASSUME NEW a \in Nodes PROVE Clock(a) <= now
  <2>1. phase[a].at = "idle" BY DEF DirectoryInit, Idle
  <2>2. Clock(a) = now /\ now = 1 BY <2>1 DEF Clock, DirectoryInit
  <2> QED BY <2>2, SMT
<1> QED BY <1>3, <1>4, <1>5 DEF RunningInv

(* Every step keeps running leases. *)
LEMMA RunningSteps == DirectoryInv /\ DirectoryInv' /\ RunningInv /\ [DirectoryNext]_directoryVars => RunningInv'
<1> SUFFICES ASSUME DirectoryInv, DirectoryInv', RunningInv, [DirectoryNext]_directoryVars PROVE RunningInv' OBVIOUS
<1>0. \A b \in Nodes : Clock(b) <= now BY DEF RunningInv
<1>1. CASE Tick
  <2>1. UNCHANGED <<registry, newest, until, phase>> /\ now' = now + 1 BY <1>1 DEF Tick
  <2>2. now \in Nat /\ \A b \in Nodes : Clock(b) \in Nat BY ClockTyped DEF DirectoryInv
  <2>3. \A b \in Nodes : Clock(b)' = now + 1 \/ Clock(b)' = Clock(b) BY <2>1 DEF Clock
  <2>4. \A b \in Nodes : Clock(b) <= Clock(b)' /\ Clock(b)' <= now + 1 BY <1>0, <2>2, <2>3, SMT
  <2>5. ASSUME NEW b \in Nodes, NEW n \in Nodes, until[b][n] > Clock(b)' PROVE until[b][n] > Clock(b)
    <3>1. until[b][n] \in Nat BY DEF RunningInv
    <3>2. Clock(b)' \in Nat BY <2>2, <2>3, SMT
    <3> QED BY <2>2, <2>4, <2>5, <3>1, <3>2, SMT
  <2> QED BY <2>1, <2>4, <2>5 DEF RunningInv
<1>2. CASE UNCHANGED directoryVars BY <1>2 DEF directoryVars, RunningInv, Clock
<1>3. ASSUME NEW a \in Nodes, Sync(a), ~RegistrySweep(a) PROVE RunningInv'
  <2>1. /\ now' = now /\ lease' = lease /\ \A b \in Nodes : Clock(b)' = Clock(b)
        /\ UNCHANGED <<registry, newest, until>> \/ MergesSome
    BY <1>0, <1>3, SyncMerges
  <2>2. CASE UNCHANGED <<registry, newest, until>> BY <2>1, <2>2 DEF RunningInv
  <2>3. CASE MergesSome BY <2>1, <2>3, MergeKeepsRunning DEF MergesSome
  <2> QED BY <2>1, <2>2, <2>3
<1> QED BY <1>1, <1>2, <1>3, ResetKeepsRunning DEF DirectoryNext, Sync

(* For any nodes, seeds, leases, losses and restarts, with leases that     *)
(* change in length: a running agent has the newest lease it has seen of a *)
(* node for as long as this lease runs.                                    *)
THEOREM RunningLeasesStay == DirectorySpec => []RunningLeaseKept
<1>1. ASSUME DirectoryInv, RunningInv PROVE RunningLeaseKept
  <2>1. ASSUME NEW a \in Nodes, NEW n \in Nodes, until[a][n] > now PROVE until[a][n] > Clock(a)
    <3>1. until[a][n] \in Nat /\ Clock(a) <= now BY <1>1 DEF RunningInv
    <3>2. now \in Nat /\ Clock(a) \in Nat BY <1>1, ClockTyped DEF DirectoryInv
    <3> QED BY <2>1, <3>1, <3>2, SMT
  <2> QED BY <1>1, <2>1 DEF RunningInv, RunningLeaseKept
<1> QED BY <1>1, DirectoryStarts, DirectorySteps, RunningStarts, RunningSteps, PTL DEF DirectorySpec

(* A merge of dated records takes the newest lease there ever was: a lease *)
(* with a lower sequence than one that was swept has expired as well.      *)
LEMMA MergeRemembers ==
  ASSUME DirectoryInv, RunningInv, MemoryInv, lease' = lease,
         NEW a \in Nodes, NEW records \in [Nodes -> Records], Dated(records),
         NEW t \in Nat, Clock(a) <= t, Merge(a, records, t)
  PROVE  MemoryInv'
<1> Agents /\ Registries BY DEF DirectoryInv
<1>1. /\ registry \in [Nodes -> [Nodes -> Records]] /\ newest \in [Nodes -> [Nodes -> Nat]]
      /\ until \in [Nodes -> [Nodes -> Nat]] /\ lease \in [Nodes -> Nat \ {0}]
  BY DEF Registries, Agents, RunningInv
<1>2. CASE ~Accepts(a, records, t)
  <2>1. registry' = registry /\ newest' = newest /\ until' = until BY <1>1, <1>2 DEF Merge
  <2> QED BY <2>1 DEF MemoryInv, Remembers
<1>3. CASE Accepts(a, records, t)
  <2>1. /\ registry' = [registry EXCEPT ![a] = Merged(registry[a], records)]
        /\ newest' = [newest EXCEPT ![a] = [n \in Nodes |-> Higher(newest[a][n], records[n].seq)]]
        /\ until' = [until EXCEPT ![a] = [n \in Nodes |->
              IF n \in Known(records) /\ newest[a][n] <= records[n].seq THEN records[n].exp ELSE until[a][n]]]
    BY <1>3 DEF Merge
  <2>2. /\ \A b \in Nodes \ {a} : registry'[b] = registry[b] /\ newest'[b] = newest[b] /\ until'[b] = until[b]
        /\ \A n \in Nodes : /\ registry'[a][n] = Merged(registry[a], records)[n]
                            /\ newest'[a][n] = Higher(newest[a][n], records[n].seq)
                            /\ until'[a][n] = IF n \in Known(records) /\ newest[a][n] <= records[n].seq
                                                THEN records[n].exp ELSE until[a][n]
    BY <1>1, <2>1
  <2>3. ASSUME NEW n \in Nodes PROVE Remembers(a, n)'
    <3>1. CASE records[n].seq = 0
      <4>1. n \notin Known(records) BY <3>1 DEF Known
      <4>2. registry'[a][n] = registry[a][n] /\ until'[a][n] = until[a][n] BY <2>2, <4>1 DEF Merged
      <4>3. newest'[a][n] = newest[a][n]
        <5>1. Higher(newest[a][n], 0) = newest[a][n] BY <1>1, SMT DEF Higher
        <5> QED BY <2>2, <3>1, <5>1
      <4> QED BY <4>2, <4>3 DEF MemoryInv, Remembers
    <3>2. CASE records[n].seq # 0
      <4>1. n \in Known(records) BY <3>2 DEF Known
      <4>2. records[n].exp > t /\ ~(records[n].seq < registry[a][n].seq)
        BY <1>3, <4>1 DEF Accepts, MayMerge, IsAdmitted, CanMerge, IsRollback
      <4>3. registry'[a][n].seq = records[n].seq /\ registry'[a][n].exp = records[n].exp
        <5>1. registry'[a][n] = MergeRecord(registry[a][n], records[n]) BY <2>2, <4>1 DEF Merged
        <5> QED BY <1>1, <5>1, SMT DEF MergeRecord, Records
      <4>4. records[n].exp = records[n].seq + lease[n] BY <3>2 DEF Dated
      <4>5. /\ records[n].seq \in Nat /\ records[n].exp \in Nat /\ registry[a][n].seq \in Nat
            /\ newest[a][n] \in Nat /\ until[a][n] \in Nat /\ lease[n] \in Nat /\ Clock(a) \in Nat
        <5>1. records[n] \in Records /\ registry[a][n] \in Records /\ Clock(a) \in Nat BY <1>1, ClockTyped
        <5> QED BY <1>1, <5>1, DirectoryBounds, SMT DEF Records
      <4>6. /\ until[a][n] > Clock(a) => registry[a][n].seq = newest[a][n]
            /\ newest[a][n] # 0 => until[a][n] = newest[a][n] + lease[n]
        BY DEF RunningInv, MemoryInv, Remembers
      <4>7. newest[a][n] <= records[n].seq BY <4>2, <4>4, <4>5, <4>6, SMT
      <4>8. newest'[a][n] = records[n].seq
        <5>1. Higher(newest[a][n], records[n].seq) = records[n].seq BY <4>5, <4>7, SMT DEF Higher
        <5> QED BY <2>2, <5>1
      <4>9. until'[a][n] = records[n].exp BY <2>2, <4>1, <4>7
      <4> QED BY <4>3, <4>4, <4>8, <4>9 DEF Remembers
    <3> QED BY <3>1, <3>2
  <2>4. ASSUME NEW b \in Nodes, NEW n \in Nodes PROVE Remembers(b, n)'
    <3>1. CASE b = a BY <2>3, <3>1
    <3>2. CASE b # a
      <4>1. registry'[b] = registry[b] /\ newest'[b] = newest[b] /\ until'[b] = until[b] BY <2>2, <3>2
      <4>2. Remembers(b, n) BY DEF MemoryInv
      <4> QED BY <4>1, <4>2 DEF Remembers
    <3> QED BY <3>1, <3>2
  <2> QED BY <2>4 DEF MemoryInv
<1> QED BY <1>2, <1>3

(* A sweep drops leases; a new process remembers what it has. *)
LEMMA ResetRemembers ==
  ASSUME DirectoryInv, RunningInv, MemoryInv, lease' = lease, NEW a \in Nodes, RegistrySweep(a) \/ Restart(a)
  PROVE  MemoryInv'
<1> Agents /\ Registries BY DEF DirectoryInv
<1>1. registry \in [Nodes -> [Nodes -> Records]] /\ newest \in [Nodes -> [Nodes -> Nat]] BY DEF Registries
<1>2. CASE RegistrySweep(a)
  <2>1. registry' = [registry EXCEPT ![a] = Active(a, phase[a].now)] /\ newest' = newest /\ until' = until
    BY <1>2 DEF RegistrySweep
  <2>2. \A b, n \in Nodes : registry'[b][n] = registry[b][n] \/ registry'[b][n] = NoRecord BY <1>1, <2>1 DEF Active
  <2>3. ASSUME NEW b \in Nodes, NEW n \in Nodes PROVE Remembers(b, n)'
    <3>1. Remembers(b, n) BY DEF MemoryInv
    <3>2. registry'[b][n] = registry[b][n] \/ registry'[b][n].seq = 0 BY <2>2, EmptyDated
    <3> QED BY <2>1, <3>1, <3>2 DEF Remembers
  <2> QED BY <2>3 DEF MemoryInv
<1>3. CASE Restart(a)
  <2>1. PICK term \in Leases[a] :
          /\ lease' = [lease EXCEPT ![a] = term]
          /\ registry' = [registry EXCEPT ![a] = IF a \in Seeds THEN Only(a, Renewed(a, now, term)) ELSE Empty]
          /\ newest' = [newest EXCEPT ![a] = [n \in Nodes |-> registry'[a][n].seq]]
          /\ until' = [until EXCEPT ![a] = [n \in Nodes |-> registry'[a][n].exp]]
    BY <1>3 DEF Restart
  <2>2. term = lease[a] /\ term \in Nat \ {0}
    <3>1. lease \in [Nodes -> Nat \ {0}] BY DEF Agents
    <3> QED BY <2>1, <3>1
  <2>3. registry'[a] = IF a \in Seeds THEN Only(a, Renewed(a, now, term)) ELSE Empty BY <1>1, <2>1
  <2>4. Dated(registry'[a])
    <3>1. Renewed(a, now, term) \in Records /\ Renewed(a, now, term).exp = Renewed(a, now, term).seq + lease[a]
      BY <2>2, SignedNow
    <3>2. Dated(Only(a, Renewed(a, now, term))) BY <3>1, OnlyDated
    <3> QED BY <2>3, <3>2, EmptyDated
  <2>5. until \in [Nodes -> [Nodes -> Nat]] BY DEF RunningInv
  <2>6. /\ \A n \in Nodes : newest'[a][n] = registry'[a][n].seq /\ until'[a][n] = registry'[a][n].exp
        /\ \A b \in Nodes \ {a} : registry'[b] = registry[b] /\ newest'[b] = newest[b] /\ until'[b] = until[b]
    BY <1>1, <2>1, <2>5
  <2>7. ASSUME NEW b \in Nodes, NEW n \in Nodes PROVE Remembers(b, n)'
    <3>1. CASE b = a
      <4>1. registry'[a][n].seq # 0 => registry'[a][n].exp = registry'[a][n].seq + lease[n] BY <2>4 DEF Dated
      <4> QED BY <2>6, <3>1, <4>1 DEF Remembers
    <3>2. CASE b # a
      <4>1. registry'[b] = registry[b] /\ newest'[b] = newest[b] /\ until'[b] = until[b] BY <2>6, <3>2
      <4>2. Remembers(b, n) BY DEF MemoryInv
      <4> QED BY <4>1, <4>2 DEF Remembers
    <3> QED BY <3>1, <3>2
  <2> QED BY <2>7 DEF MemoryInv
<1> QED BY <1>2, <1>3

(* No process is started with another lease than the one before it. *)
LeasesKept == [][UNCHANGED lease]_directoryVars

(* At the start every agent has the newest lease it ever had. *)
LEMMA MemoryStarts == DirectoryInit => MemoryInv
<1> SUFFICES ASSUME DirectoryInit PROVE MemoryInv OBVIOUS
<1> Agents BY DirectoryStarts DEF DirectoryInv
<1>1. ASSUME NEW a \in Nodes PROVE Dated(registry[a])
  <2>1. registry[a] = IF a \in Seeds THEN Only(a, self[a]) ELSE Empty BY DEF DirectoryInit
  <2>2. self[a] \in Records /\ self[a].exp = self[a].seq + lease[a] BY DEF Agents
  <2> QED BY <2>1, <2>2, OnlyDated, EmptyDated
<1>2. \A a, n \in Nodes : newest[a][n] = registry[a][n].seq /\ until[a][n] = registry[a][n].exp BY DEF DirectoryInit
<1> QED BY <1>1, <1>2 DEF MemoryInv, Remembers, Dated

(* Every step that keeps the leases keeps the memory. *)
LEMMA MemorySteps ==
  /\ DirectoryInv /\ RunningInv /\ MemoryInv
  /\ [DirectoryNext]_directoryVars /\ [UNCHANGED lease]_directoryVars
  => MemoryInv'
<1> SUFFICES ASSUME DirectoryInv, RunningInv, MemoryInv, [DirectoryNext]_directoryVars, [UNCHANGED lease]_directoryVars
             PROVE  MemoryInv'
  OBVIOUS
<1>0. lease' = lease BY DEF directoryVars
<1>1. CASE UNCHANGED <<registry, newest, until>> BY <1>0, <1>1 DEF MemoryInv, Remembers
<1>2. ASSUME NEW a \in Nodes, Sync(a), ~RegistrySweep(a) PROVE MemoryInv'
  <2>1. \A b \in Nodes : Clock(b) <= now BY DEF RunningInv
  <2>2. UNCHANGED <<registry, newest, until>> \/ MergesSome BY <1>2, <2>1, SyncMerges
  <2>3. \A b \in Nodes : Dated(registry[b]) BY DEF MemoryInv, Remembers, Dated
  <2>4. CASE MergesSome BY <1>0, <2>3, <2>4, MergeRemembers DEF MergesSome
  <2> QED BY <1>1, <2>2, <2>4
<1>3. ASSUME NEW a \in Nodes, RegistrySweep(a) \/ Restart(a) PROVE MemoryInv' BY <1>0, <1>3, ResetRemembers
<1> QED BY <1>1, <1>2, <1>3 DEF DirectoryNext, Sync, Tick, directoryVars

(* For any nodes, seeds, losses and restarts: while every node keeps its   *)
(* lease length, a later lease ends later, so no running agent goes back   *)
(* to an older lease of a node although Sweep forgets the sequence of what *)
(* it drops.  Without that assumption NoRollback fails.                    *)
THEOREM NeverRollsBack == DirectorySpec /\ LeasesKept => []NoRollback
<1>1. MemoryInv => NoRollback BY DEF MemoryInv, Remembers, NoRollback
<1> QED BY <1>1, DirectoryStarts, DirectorySteps, RunningStarts, RunningSteps, MemoryStarts, MemorySteps, PTL
        DEF DirectorySpec, LeasesKept

-----------------------------------------------------------------------------
(* Bootstrap of a client *)

(* What the views of the seeds S say of node n. *)
Seen(S, n) == {NoRecord} \cup {Active(s, now)[n] : s \in S}

Newest(seen) == {v \in seen : \A w \in seen : w.seq <= v.seq}

(* The newest lease there is, with all the attestations of it. *)
Joins(record, seen) ==
  /\ \E v \in Newest(seen) : record.seq = v.seq /\ record.exp = v.exp
  /\ record.att = UNION {v.att : v \in Newest(seen)}

(* The records are the union of the views of the seeds S. *)
Unites(records, S) ==
  /\ records \in [Nodes -> Records]
  /\ \A n \in Nodes : Joins(records[n], Seen(S, n))

(* The view of s is behind one of the views of S. *)
Behind(s, S) == \E n \in Known(Active(s, now)) : \E r \in S : Active(r, now)[n].seq > Active(s, now)[n].seq

(* The views of S and s have too many nodes for a client. *)
TooLarge(s, S) == Cardinality(UNION {Known(Active(r, now)) : r \in S \cup {s}}) > ClientMaxNodes

(* One step of the loop of FetchNodeDirectory: the next view is united     *)
(* with those merged before, or its seed counts as failed for a reason.    *)
NextView ==
  /\ Unites(Empty, {})
  /\ \A S \in SUBSET Seeds : \A s \in Seeds : \A records : Unites(records, S) =>
       IF MayMerge(records, ClientMaxNodes, Active(s, now), now)
         THEN Unites(Merged(records, Active(s, now)), S \cup {s})
         ELSE Behind(s, S) \/ TooLarge(s, S)

(* A seed's view: it holds nothing, or an admitted lease, of each node. *)
LEMMA ViewTyped ==
  ASSUME DirectoryInv, NEW s \in Seeds
  PROVE  /\ Active(s, now) \in [Nodes -> Records]
         /\ Blank(Active(s, now))
         /\ \A n \in Known(Active(s, now)) : IsAdmitted(n, Active(s, now)[n], now)
<1> s \in Nodes /\ Registries BY SomeSeed DEF DirectoryInv
<1>1. Sound(registry[s], MaxNodes[s], attested) /\ MaxNodes[s] \in Nat BY DirectoryBounds DEF Registries
<1>2. Sound(Active(s, now), MaxNodes[s], attested) BY <1>1, ActiveSound
<1>3. \A n \in Nodes : Active(s, now)[n] = NoRecord \/ Active(s, now)[n].exp > now BY DEF Active
<1>4. \A n \in Known(Active(s, now)) : n \in Nodes /\ Active(s, now)[n] # NoRecord BY EmptyDated DEF Known
<1>5. \A n \in Known(Active(s, now)) : n \in Seeds \/ Cardinality(Active(s, now)[n].att) >= AuthorityQuorum
  BY <1>2 DEF Sound, Quorate, Known
<1> QED BY <1>2, <1>3, <1>4, <1>5 DEF Sound, IsAdmitted

(* What a node's record is in the union when one more view is merged. *)
LEMMA RecordUnites ==
  ASSUME NEW seen, NEW mine \in Records, NEW view \in Records, NoRecord \in seen, seen \subseteq Records,
         view.seq = 0 => view = NoRecord, view.seq # 0 => ~IsRollback(mine, view),
         Joins(mine, seen), NEW both, both = seen \cup {view},
         NEW next, next = IF view.seq # 0 THEN MergeRecord(mine, view) ELSE mine
  PROVE  Joins(next, both)
<1> DEFINE News1 == {w \in seen : \A x \in seen : x.seq <= w.seq}
           News2 == {w \in both : \A x \in both : x.seq <= w.seq}
<1> USE DEF Newest, Joins
<1>1. \A v \in Records : v.seq \in Nat BY DirectoryBounds, SMT DEF Records
<1>2. \A v \in News1 : v \in Records /\ v.seq = mine.seq
  <2>1. PICK u \in News1 : mine.seq = u.seq OBVIOUS
  <2>2. \A v \in News1 : v \in Records /\ v.seq <= u.seq /\ u.seq <= v.seq OBVIOUS
  <2> QED BY <1>1, <2>1, <2>2, SMT
<1>3. \A x \in seen : x.seq <= mine.seq OBVIOUS
<1>4. \A x \in seen : x.seq \in Nat BY <1>1
<1>5. mine.seq \in Nat /\ view.seq \in Nat BY <1>1
<1>6. CASE view.seq = 0
  <2>1. view = NoRecord /\ both = seen BY <1>6
  <2>2. next = mine BY <1>6
  <2> QED BY <2>1, <2>2
<1>7. CASE view.seq # 0 /\ view.seq = mine.seq
  <2>1. next.seq = view.seq /\ next.exp = view.exp /\ next.att = view.att \cup mine.att BY <1>7, SMT DEF MergeRecord, Records
  <2>2. \A x \in both : x.seq <= view.seq BY <1>3, <1>5, <1>7, SMT
  <2>3. News2 = News1 \cup {view}
    <3>1. view \in News2 BY <2>2
    <3>2. \A v \in News1 : v \in News2 BY <1>2, <1>7, <2>2
    <3>3. \A v \in News2 : v \in News1 \cup {view} OBVIOUS
    <3> QED BY <3>1, <3>2, <3>3
  <2>4. \A x : x \in UNION {v.att : v \in News2} <=> x \in UNION {v.att : v \in News1} \/ x \in view.att BY <2>3
  <2>5. next.att = UNION {v.att : v \in News2} BY <2>1, <2>4
  <2>6. view \in News2 BY <2>3
  <2> QED BY <2>1, <2>5, <2>6
<1>8. CASE view.seq # 0 /\ view.seq # mine.seq
  <2>1. mine.seq < view.seq
    <3>1. ~(view.seq < mine.seq) BY <1>8 DEF IsRollback
    <3> QED BY <1>5, <1>8, <3>1, SMT
  <2>2. next = view BY <1>8 DEF MergeRecord
  <2>3. \A x \in seen : x.seq <= view.seq /\ ~(view.seq <= x.seq) BY <1>3, <1>4, <1>5, <2>1, SMT
  <2>4. view.seq <= view.seq BY <1>5, SMT
  <2>5. News2 = {view} BY <2>3, <2>4
  <2>6. UNION {v.att : v \in News2} = view.att BY <2>5
  <2>7. view \in News2 BY <2>5
  <2> QED BY <2>2, <2>6, <2>7
<1> QED BY <1>6, <1>7, <1>8

(* What the seeds' views say is a set of records. *)
LEMMA SeenTyped ==
  ASSUME DirectoryInv, NEW S \in SUBSET Seeds, NEW n \in Nodes
  PROVE  NoRecord \in Seen(S, n) /\ Seen(S, n) \subseteq Records
<1>1. NoRecord \in Records BY DirectoryBounds, SMT DEF NoRecord, Records
<1>2. \A s \in S : Active(s, now)[n] \in Records BY ViewTyped
<1> QED BY <1>1, <1>2 DEF Seen

(* Merging one more view makes the union of one more. *)
LEMMA UnitesMore ==
  ASSUME DirectoryInv, NEW S \in SUBSET Seeds, NEW s \in Seeds, NEW records, Unites(records, S),
         MayMerge(records, ClientMaxNodes, Active(s, now), now)
  PROVE  Unites(Merged(records, Active(s, now)), S \cup {s})
<1> DEFINE view == Active(s, now)
           m == Merged(records, view)
<1> records \in [Nodes -> Records] BY DEF Unites
<1>1. view \in [Nodes -> Records] /\ Blank(view) BY ViewTyped
<1>2. m \in [Nodes -> Records] BY <1>1, MergedKnown
<1>3. ASSUME NEW n \in Nodes
      PROVE  Joins(m[n], Seen(S \cup {s}, n))
  <2>1. m[n] = IF view[n].seq # 0 THEN MergeRecord(records[n], view[n]) ELSE records[n] BY DEF Merged, Known
  <2>2. Seen(S \cup {s}, n) = Seen(S, n) \cup {view[n]} BY DEF Seen
  <2> HIDE DEF m, view
  <2>3. view[n].seq # 0 => ~IsRollback(records[n], view[n]) BY DEF MayMerge, CanMerge, Known, view
  <2>4. view[n] \in Records /\ records[n] \in Records /\ (view[n].seq = 0 => view[n] = NoRecord) BY <1>1 DEF Blank
  <2>5. PICK seen : seen = Seen(S, n) OBVIOUS
  <2>6. NoRecord \in seen /\ seen \subseteq Records BY <2>5, SeenTyped
  <2>7. Joins(records[n], seen) BY <2>5 DEF Unites
  <2>8. PICK both : both = seen \cup {view[n]} OBVIOUS
  <2>9. PICK next : next = IF view[n].seq # 0 THEN MergeRecord(records[n], view[n]) ELSE records[n] OBVIOUS
  <2>10. Joins(next, both)
    BY <2>3, <2>4, <2>6, <2>7, <2>8, <2>9, RecordUnites
  <2>11. next = m[n] /\ both = Seen(S \cup {s}, n) BY <2>1, <2>2, <2>5, <2>8, <2>9
  <2> QED BY <2>10, <2>11
<1> QED BY <1>2, <1>3 DEF Unites

(* The union knows the nodes that its views know. *)
LEMMA UnitesKnown ==
  ASSUME DirectoryInv, NEW S \in SUBSET Seeds, NEW records, Unites(records, S), NEW n \in Nodes
  PROVE  /\ \A r \in S : Active(r, now)[n].seq <= records[n].seq
         /\ records[n].seq # 0 => \E r \in S : Active(r, now)[n].seq = records[n].seq
<1>1. PICK v \in Newest(Seen(S, n)) : records[n].seq = v.seq BY DEF Unites, Joins
<1>2. \A r \in S : Active(r, now)[n].seq <= v.seq BY DEF Newest, Seen
<1>3. v = NoRecord \/ \E r \in S : v = Active(r, now)[n] BY DEF Newest, Seen
<1> QED BY <1>1, <1>2, <1>3, EmptyDated

(* A view that is refused is behind, or there is no room for it. *)
LEMMA RefusedFor ==
  ASSUME DirectoryInv, NEW S \in SUBSET Seeds, NEW s \in Seeds, NEW records, Unites(records, S),
         ~MayMerge(records, ClientMaxNodes, Active(s, now), now)
  PROVE  Behind(s, S) \/ TooLarge(s, S)
<1> DEFINE view == Active(s, now)
<1>1. view \in [Nodes -> Records] /\ \A n \in Known(view) : IsAdmitted(n, view[n], now) BY ViewTyped
<1>2. (\E n \in Known(view) : IsRollback(records[n], view[n])) \/ ~HasRoom(records, ClientMaxNodes, view)
  BY <1>1 DEF MayMerge, CanMerge
<1>3. ASSUME NEW n \in Nodes
      PROVE  /\ records[n].seq \in Nat /\ view[n].seq \in Nat
             /\ \A r \in S : Active(r, now)[n].seq \in Nat
  <2>1. records[n] \in Records /\ view[n] \in Records BY <1>1 DEF Unites
  <2>2. \A r \in S : Active(r, now)[n] \in Records BY ViewTyped
  <2>3. \A x \in Records : x.seq \in Nat BY DirectoryBounds, SMT DEF Records
  <2> QED BY <2>1, <2>2, <2>3
<1>4. CASE \E n \in Known(view) : IsRollback(records[n], view[n])
  <2>1. PICK n \in Known(view) : view[n].seq < records[n].seq BY <1>4 DEF IsRollback
  <2>2. n \in Nodes BY DEF Known
  <2>3. records[n].seq # 0 BY <1>3, <2>1, <2>2, SMT
  <2>4. PICK r \in S : Active(r, now)[n].seq = records[n].seq BY <2>2, <2>3, UnitesKnown
  <2>5. Active(r, now)[n].seq > view[n].seq BY <1>3, <2>1, <2>2, <2>4, SMT
  <2> QED BY <2>5 DEF Behind
<1>5. CASE ~HasRoom(records, ClientMaxNodes, view)
  <2> DEFINE all == Known(records) \cup Known(view)
             union == UNION {Known(Active(r, now)) : r \in S \cup {s}}
  <2>1. ~(Cardinality(all) <= ClientMaxNodes) BY <1>5 DEF HasRoom
  <2>2. ASSUME NEW n \in Nodes PROVE n \in Known(records) <=> \E r \in S : n \in Known(Active(r, now))
    <3>1. CASE records[n].seq = 0
      <4>1. \A r \in S : Active(r, now)[n].seq <= 0 BY <3>1, UnitesKnown
      <4>2. \A r \in S : Active(r, now)[n].seq = 0 BY <1>3, <4>1, SMT
      <4> QED BY <3>1, <4>2 DEF Known
    <3>2. CASE records[n].seq # 0
      <4>1. PICK r \in S : Active(r, now)[n].seq = records[n].seq BY <3>2, UnitesKnown
      <4> QED BY <3>2, <4>1 DEF Known
    <3> QED BY <3>1, <3>2
  <2>3. union = all
    <3>1. \A n : n \in union <=> (\E r \in S : n \in Known(Active(r, now))) \/ n \in Known(view) OBVIOUS
    <3>2. \A n : n \in Known(records) => n \in Nodes BY DEF Known
    <3>3. \A r : \A n : n \in Known(Active(r, now)) => n \in Nodes BY DEF Known
    <3> HIDE DEF union, view
    <3>4. \A n : n \in Known(records) <=> \E r \in S : n \in Known(Active(r, now)) BY <2>2, <3>2, <3>3
    <3> QED BY <3>1, <3>4
  <2>4. Cardinality(all) \in Nat
    <3>1. all \subseteq Nodes BY DEF Known
    <3>2. IsFiniteSet(all) BY <3>1, SeedsAreNodes, FS_Subset
    <3> QED BY <3>2, FS_CardinalityType
  <2>5. Cardinality(union) > ClientMaxNodes
    <3> HIDE DEF all, union
    <3> QED BY <2>1, <2>3, <2>4, BootstrapBounds, SMT
  <2> QED BY <2>5 DEF TooLarge
<1> QED BY <1>2, <1>4, <1>5

(* At any time, for any seeds, limit and order: each step of the loop of   *)
(* FetchNodeDirectory makes the union of the views merged so far, and a    *)
(* seed counts as failed only when its view is behind or leaves no room.   *)
THEOREM ViewsUnite == DirectorySpec => []NextView
<1>1. DirectoryInv => NextView
  <2> SUFFICES ASSUME DirectoryInv PROVE NextView OBVIOUS
  <2>1. Unites(Empty, {})
    <3>1. Empty \in [Nodes -> Records] BY EmptySound, DirectoryBounds DEF Sound
    <3>2. \A n \in Nodes : Empty[n] = NoRecord /\ Seen({}, n) = {NoRecord} BY DEF Empty, Seen
    <3>3. Newest({NoRecord}) = {NoRecord}
      <4>1. NoRecord.seq <= NoRecord.seq BY EmptyDated, SMT
      <4> QED BY <4>1 DEF Newest
    <3>4. UNION {v.att : v \in {NoRecord}} = NoRecord.att OBVIOUS
    <3>5. Joins(NoRecord, {NoRecord}) BY <3>3, <3>4 DEF Joins
    <3> QED BY <3>1, <3>2, <3>5 DEF Unites
  <2> QED BY <2>1, UnitesMore, RefusedFor DEF NextView
<1> QED BY <1>1, DirectoryStarts, DirectorySteps, PTL DEF DirectorySpec
=============================================================================
