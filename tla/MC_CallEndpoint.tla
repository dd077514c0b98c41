--------------------------- MODULE MC_CallEndpoint ---------------------------
EXTENDS CallEndpoint

CONSTANTS caller, callee

\* The caller's clock is ahead by all of the tolerated skew.
MCOffset == [e \in {caller, callee} |-> IF e = caller THEN ClockSkew ELSE 0]
MCSlots == [e \in {caller, callee} |-> IF e = caller THEN {1} ELSE {1, 2}]
=============================================================================
