\* Four nodes in two epochs, one fault; the fourth answers proofs wrongly.
CONSTANTS
  Nodes <- MCNodes
  Replicas = 2
  WriteQuorum = 2
  Parameters <- MCDiffering
  Small = {}
  Liars = {4}
  Exclusion = 1
  Uses = {"fetch", "audit", "repair", "delete", "everywhere"}
  Faults = {"down", "lost", "cancel", "forgets", "persist", "restart"}
  MaxFaults = 1
SPECIFICATION Spec
INVARIANT Durable
INVARIANT CheapestWork
PROPERTY ReplicasReached
PROPERTY ForgetOnlyDeleted
PROPERTY ExclusionServed
CHECK_DEADLOCK FALSE
