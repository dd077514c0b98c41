\* Two batches of one chunk; an answer has room for a chunk stored twice, not three times.
CONSTANTS
  Nodes <- MCNodes
  WriteQuorum = 2
  FileBytes = 3
  ChunkBytes = 2
  MaxRouteTags = 1
  FetchLimit = 2
  NodeLimit <- MCLimits
  Retrievers = {phone, laptop}
  Faults = {"down", "lost", "forgets", "crash"}
  MaxFaults = 2
  MaxAttempts = 3
SYMMETRY MCSymmetry
SPECIFICATION Spec
INVARIANT NeverLostUnread
INVARIANT Retrievable
\* Both devices may be done.
CHECK_DEADLOCK FALSE
