\* A node that is started again with a shorter lease, and time for that lease to end.
CONSTANTS
  s1 = s1
  s2 = s2
  Nodes = {s1, s2, n}
  SeedOrder <- MCSeeds
  AuthorityQuorum = 1
  MaxNodes <- MCMaxNodes
  ClientMaxNodes = 3
  MinSeedResponses = 1
  Leases <- MCChangedLeases
  Syncing = {n, s1}
  Failures = {"restart"}
  MaxFailures = 1
  MaxTime = 3
SPECIFICATION DirectorySpec
INVARIANT NoRollback
