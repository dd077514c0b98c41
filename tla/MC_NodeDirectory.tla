--------------------------- MODULE MC_NodeDirectory ---------------------------
EXTENDS NodeDirectory

CONSTANTS s1, s2

MCSeeds == <<s1, s2>>

\* The node that is not a seed has room for one node less than there are.
MCMaxNodes == [a \in Nodes |-> IF a \in Seeds THEN 3 ELSE 2]

\* Each keeps the lease it was started with; the second seed's ends first.
MCLeases == [a \in Nodes |-> IF a = s2 THEN {1} ELSE {2}]

\* The operator of the node that is not a seed may change its lease at a restart.
MCChangedLeases == [a \in Nodes |-> IF a \in Seeds THEN {3} ELSE {1, 3}]
=============================================================================
