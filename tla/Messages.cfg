SPECIFICATION Spec
CONSTANTS
  Sender = "alice"
  Recipient = "bob"
  Members <- MCMembers
  Retention = 1
  Skew = 1
  Online = {"b1"}
  Clocks <- MCClocks
  Faults = {"store", "send", "replay", "again", "crash"}
  MaxFaults = 1
  MaxTime = 2
  MaxMessages = 2
CHECK_DEADLOCK FALSE
INVARIANT ReceiptMeansAccepted
INVARIANT ReceiptsVerify
INVARIANT Reloadable
PROPERTY OnceUntilExpired
PROPERTY RevokedRefused
