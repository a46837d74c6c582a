CONSTANTS
  MaxWrites = 3
  MaxRetries = 1
  Size <- MCSize
  Limit = 2
  Queues = {1, 2}
  MaxPackets = 1
  Modes = {"resend", "reap"}
SPECIFICATION FairSpec
INVARIANT InOrder
PROPERTY AcceptedDelivered
CHECK_DEADLOCK FALSE
