---------------------------- MODULE GroupReplicas ----------------------------
(***************************************************************************)
(* Several devices that each hold a copy of one group's state and receive  *)
(* signed actions in any order, late, more than once or never.  An action  *)
(* names the next epoch and the hash of the state that its signer sees;    *)
(* Apply accepts it only there.                                            *)
(*                                                                         *)
(* stateHash covers epoch, policy and members, so the hash of a state is   *)
(* represented by the state itself.  An action that Apply would refuse in  *)
(* the signer's own state is refused everywhere, because Previous pins the *)
(* state; such actions are not enumerated.  CreatedAt is left out: clocks  *)
(* differ by less than the five minutes that Apply allows.                 *)
(***************************************************************************)
EXTENDS GroupRules

CONSTANTS Replicas, MaxSigned   \* MaxSigned bounds the actions ever signed

ASSUME ReplicasFinite == IsFiniteSet(Replicas) /\ MaxSigned \in Nat

VARIABLES
  epochs, copies,   \* each replica's epoch and roles
  signed            \* actions sent so far; delivery removes nothing

replicaVars == <<epochs, copies, signed>>

G(r) == INSTANCE GroupState WITH epoch <- epochs[r], roles <- copies[r]

ReplicasInit ==
  /\ epochs = [r \in Replicas |-> 0]
  /\ copies = [r \in Replicas |-> Genesis]
  /\ signed = {}

(* What the application of a asks for in the state it sees. *)
Proposal(r, kind, a, s) ==
  [epoch |-> epochs[r] + 1, previous |-> copies[r], kind |-> kind, actor |-> a, subject |-> s]

SignAction(r, kind, a, s) ==
  /\ Cardinality(signed) < MaxSigned
  /\ Permits(copies[r], kind, a, s)
  /\ signed' = signed \cup {Proposal(r, kind, a, s)}
  /\ UNCHANGED <<epochs, copies>>

(* Mutant: the hash is not compared. *)
IsNextByEpoch(r, action) == action.epoch = epochs[r] + 1

(* Mutant: any later epoch will do. *)
IsLater(r, action) == action.epoch > epochs[r] /\ action.previous = copies[r]

(* Mutant: off by one. *)
IsSameEpoch(r, action) == action.epoch = epochs[r] /\ action.previous = copies[r]

(* Epoch and Previous name this replica's state. *)
IsNext(r, action) == action.epoch = epochs[r] + 1 /\ action.previous = copies[r]

(* Mutant: the epoch is left as it was. *)
ApplyWithoutEpoch(r, action) ==
  /\ IsNext(r, action)
  /\ copies' = [copies EXCEPT ![r] = After(@, action.kind, action.actor, action.subject)]
  /\ UNCHANGED <<epochs, signed>>

ApplySigned(r, action) ==
  /\ IsNext(r, action)
  /\ Permits(copies[r], action.kind, action.actor, action.subject)
  /\ epochs' = [epochs EXCEPT ![r] = action.epoch]
  /\ copies' = [copies EXCEPT ![r] = After(@, action.kind, action.actor, action.subject)]
  /\ UNCHANGED signed

Deliver(r) == \E action \in signed : ApplySigned(r, action)

ReplicasNext ==
  \/ \E r \in Replicas, kind \in Kinds, a \in People, s \in People : SignAction(r, kind, a, s)
  \/ \E r \in Replicas : Deliver(r)

ReplicasSpec == ReplicasInit /\ [][ReplicasNext]_replicaVars

(* Assumed of the transport, which is not in this package: an action that  *)
(* a replica could apply is delivered to it some day.                      *)
FairReplicas == ReplicasSpec /\ \A r \in Replicas : WF_replicaVars(Deliver(r))

-----------------------------------------------------------------------------
(* Properties *)

(* Apply checks validState only before an action, and a state that fails   *)
(* it refuses every action for good.  So each action must itself leave a   *)
(* state with one owner and within the limit, on every replica, whatever   *)
(* sequence of transfers, bans and removals came before.                   *)
StaysValid == \A r \in Replicas : ValidState(copies[r])

Rank(role) == CASE role = "owner" -> 3 [] role = "admin" -> 2 [] role = "member" -> 1 [] OTHER -> 0

(* The state an action leads to where it was signed. *)
Result(action) == After(action.previous, action.kind, action.actor, action.subject)

(* The actor of x has a higher rank than everybody whose role x changes,   *)
(* and than the role it gives them.                                        *)
Downwards(x) ==
  LET mine == Rank(x.previous[x.actor]) IN
  \A p \in People : Result(x)[p] # x.previous[p] =>
    \/ /\ Rank(x.previous[p]) < mine
       /\ Rank(Result(x)[p]) < mine \/ (AdminsMayDelegate /\ Result(x)[p] = "admin")
    \/ x.kind = "transfer_owner" /\ mine = 3 /\ p \in {x.actor, x.subject}

(* Whoever acts changes only the roles of people ranking below, and raises *)
(* nobody to their own rank, on any replica; the exceptions are the        *)
(* owner's transfer and, under AdminsMayDelegate, an admin who makes       *)
(* another admin.                                                          *)
OnlyDownwards ==
  [][\A r \in Replicas : copies'[r] # copies[r] =>
       \E x \in signed : x.previous = copies[r] /\ Result(x) = copies'[r] /\ Downwards(x)]_replicaVars

(* Two different actions were signed over one and the same state. *)
Forked == \E x, y \in signed : x # y /\ x.epoch = y.epoch /\ x.previous = y.previous

(* Replicas that reach the same epoch hold the same members and roles,     *)
(* whatever was lost, repeated or reordered on the way; only two actions   *)
(* signed over the same state can part them.                               *)
AgreeUnlessForked ==
  Forked \/ \A p, q \in Replicas : epochs[p] = epochs[q] => copies[p] = copies[q]

(* Even when the group forks, a replica only ever holds a state that some  *)
(* signer asked for: it never mixes the actions of two branches.           *)
AsSigned ==
  \A r \in Replicas : epochs[r] > 0 =>
    \E action \in signed : action.epoch = epochs[r] /\ copies[r] = Result(action)

(* Unless signers fork the group, every replica ends up with every action. *)
CatchUp ==
  [](~Forked) => <>[](\A r \in Replicas : epochs[r] = Cardinality(signed))

(* Each replica by itself is a GroupState: delivery in any order makes it  *)
(* take authorised steps only.                                             *)
ReplicasImplementGroup ==
  /\ \A r \in Replicas : G(r)!Init
  /\ [][\A r \in Replicas : [G(r)!Next]_(G(r)!vars)]_replicaVars
=============================================================================
