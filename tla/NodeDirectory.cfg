\* Two seeds and a node with a smaller registry; one message lost or one restart.
CONSTANTS
  s1 = s1
  s2 = s2
  Nodes = {s1, s2, n}
  SeedOrder <- MCSeeds
  AuthorityQuorum = 2
  MaxNodes <- MCMaxNodes
  ClientMaxNodes = 3
  MinSeedResponses = 1
  Leases <- MCLeases
  Syncing = {n, s1}
  Failures = {"lost", "restart"}
  MaxFailures = 1
  MaxTime = 2
SPECIFICATION FairSpec
INVARIANT TypeOK
INVARIANT AdmittedByQuorum
INVARIANT RunningLeaseKept
INVARIANT UnionOfViews
PROPERTY Converges
