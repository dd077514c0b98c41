\* One batch of two chunks that fills an answer, stored at the second attempt.
CONSTANTS
  Nodes <- MCNodes
  WriteQuorum = 2
  FileBytes = 3
  ChunkBytes = 2
  MaxRouteTags = 3
  FetchLimit = 2
  NodeLimit <- MCEqualLimits
  Retrievers = {phone}
  Faults = {"lost"}
  MaxFaults = 1
  MaxAttempts = 2
SPECIFICATION Spec
INVARIANT BatchesFit
\* The device may be done.
CHECK_DEADLOCK FALSE
