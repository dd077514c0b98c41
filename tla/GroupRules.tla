------------------------------ MODULE GroupRules ------------------------------
(***************************************************************************)
(* The roles of a group and the rules of Apply (group/state.go): who may   *)
(* do what to whom, and which roles come out of it.  People are account    *)
(* identities; a role of "none" is an absent entry of State.Members.       *)
(***************************************************************************)
EXTENDS Naturals, FiniteSets

CONSTANTS
  People, Creator,
  MaxGroupMembers,
  AdminsMayDelegate    \* State.Policy, fixed at genesis

ASSUME PeopleFinite == IsFiniteSet(People) /\ Creator \in People
ASSUME GroupLimit == MaxGroupMembers \in Nat \ {0}
ASSUME PolicyIsBoolean == AdminsMayDelegate \in BOOLEAN

Roles == {"none", "owner", "admin", "member", "banned"}
Kinds == {"add", "remove", "ban", "grant_admin", "revoke_admin", "transfer_owner"}

Genesis == [p \in People |-> IF p = Creator THEN "owner" ELSE "none"]

Members(rl) == {p \in People : rl[p] # "none"}

BelowLimit(rl) == Cardinality(Members(rl)) < MaxGroupMembers

(* Mutant: the check of the subject's role is left out. *)
MayDemoteAnyone(rl, a, s) == TRUE

(* Remove and ban spare the owner, and spare admins unless the owner acts. *)
MayDemote(rl, a, s) == rl[s] # "owner" /\ ~(rl[a] = "admin" /\ rl[s] = "admin")

(* Mutant: a ban of a stranger is not counted. *)
MayBanUncounted(rl, a, s) == MayDemote(rl, a, s)

MayBan(rl, a, s) == MayDemote(rl, a, s) /\ (rl[s] = "none" => BelowLimit(rl))

(* validState: one owner, and no more entries than the limit allows. *)
OneOwner(rl) == \E o \in People : rl[o] = "owner" /\ \A p \in People \ {o} : rl[p] # "owner"

ValidState(rl) == OneOwner(rl) /\ Cardinality(Members(rl)) <= MaxGroupMembers

(* The checks of Apply, in the state with roles rl. *)
Permits(rl, kind, a, s) ==
  /\ ValidState(rl)
  /\ rl[a] \in {"owner", "admin"}
  /\ \/ kind = "add" /\ BelowLimit(rl) /\ rl[s] \in {"none", "banned"}
     \/ kind = "remove" /\ rl[s] # "none" /\ MayDemote(rl, a, s)
     \/ kind = "ban" /\ MayBan(rl, a, s)
     \/ kind = "grant_admin" /\ (rl[a] = "owner" \/ AdminsMayDelegate) /\ rl[s] = "member"
     \/ kind = "revoke_admin" /\ rl[a] = "owner" /\ rl[s] = "admin"
     \/ kind = "transfer_owner" /\ rl[a] = "owner" /\ rl[s] \notin {"none", "banned"}

(* The actor steps down first, so a transfer to oneself changes nothing. *)
Transfer(rl, a, s) == [[rl EXCEPT ![a] = "admin"] EXCEPT ![s] = "owner"]

(* The role that each kind but the transfer gives its subject. *)
NewRole(kind) ==
  CASE kind = "add" -> "member"
    [] kind = "remove" -> "none"
    [] kind = "ban" -> "banned"
    [] kind = "grant_admin" -> "admin"
    [] kind = "revoke_admin" -> "member"

After(rl, kind, a, s) ==
  IF kind = "transfer_owner" THEN Transfer(rl, a, s) ELSE [rl EXCEPT ![s] = NewRole(kind)]
=============================================================================
