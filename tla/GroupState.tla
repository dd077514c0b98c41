------------------------------ MODULE GroupState ------------------------------
(***************************************************************************)
(* The administration state of a group (group/state.go), one copy of it:   *)
(* what Apply lets a signed action change.  GroupReplicas implements it.   *)
(***************************************************************************)
EXTENDS GroupRules

VARIABLES epoch, roles

vars == <<epoch, roles>>

Init == epoch = 0 /\ roles = Genesis

Apply(kind, a, s) ==
  /\ epoch' = epoch + 1
  /\ Permits(roles, kind, a, s)
  /\ roles' = After(roles, kind, a, s)

Next == \E kind \in Kinds, a \in People, s \in People : Apply(kind, a, s)

Spec == Init /\ [][Next]_vars
=============================================================================
