\* Four people, three places: the limit bites, and three ranks meet.
CONSTANTS
  People = {o, a, b, c}
  Creator = o
  MaxGroupMembers = 3
  AdminsMayDelegate = TRUE
  Replicas = {r1, r2}
  MaxSigned = 4
SPECIFICATION FairReplicas
INVARIANT StaysValid
INVARIANT AgreeUnlessForked
INVARIANT AsSigned
PROPERTY OnlyDownwards
PROPERTY CatchUp
PROPERTY ReplicasImplementGroup
\* Signing stops at MaxSigned.
CHECK_DEADLOCK FALSE
