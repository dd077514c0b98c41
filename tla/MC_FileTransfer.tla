--------------------------- MODULE MC_FileTransfer ---------------------------
(* Instances of FileTransfer for model checking. *)
EXTENDS FileTransfer, TLC

MCNodes == 1..2

(* The second node is configured with a smaller limit than the first. *)
MCLimits == [n \in Nodes |-> IF n = 2 THEN FetchLimit - 1 ELSE FetchLimit]
MCSymmetry == Permutations(Retrievers)

MCEqualLimits == [n \in Nodes |-> FetchLimit]

(* Counting the bytes one by one is the sum of the lengths. *)
ASSUME LengthsAddUp ==
  \A S \in SUBSET Chunks : Cardinality(Plaintext(S)) = MapThenSumSet(PlainLength, S)
=============================================================================
