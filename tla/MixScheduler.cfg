\* Three Enqueue calls compete for two queue places; liveness rules out symmetry.
CONSTANTS
  Requests = {r1, r2, r3}
  MaxQueue = 2
  PollEverySlots = 2
  SlotWrap = 2
SPECIFICATION FairSpec
INVARIANT CapacityAccounted
INVARIANT PollCadence
PROPERTY StaysEnded
PROPERTY EveryTicketAnswered
PROPERTY ImplementsTickets
\* The scheduler stops for good when Run ends and all callers returned.
CHECK_DEADLOCK FALSE
