---------------------------- MODULE MC_Messages ----------------------------
EXTENDS Messages

(* The sender's first device is replaced, the recipient has two. *)
MCMembers == [alice |-> <<<<"a1">>, <<"a2">>>>, bob |-> <<<<"b1", "b2">>>>]

(* The clock of one of the two is ahead by all that is allowed. *)
MCClocks == {[alice |-> Skew, bob |-> 0], [alice |-> 0, bob |-> Skew]}
=============================================================================
