---------------------------- MODULE MC_ClientCore ----------------------------
(* The instance of ClientCore for model checking. *)
EXTENDS ClientCore

MCNodes == 1..4

(* The second node may ask for more work than the first, the third may be  *)
(* in the epoch of the fourth.                                             *)
MCDiffering ==
  [n \in Nodes |-> [epoch : CASE n = 4 -> {2} [] n = 3 -> {1, 2} [] OTHER -> {1},
                    difficulty : IF n = 2 THEN {1, 2} ELSE {(n + 1) \div 2}]]
=============================================================================
