CONSTANTS
  MaxWrites = 3
  MaxRetries = 0
  Size <- MCSize
  Limit = 2
  Queues = {1}
  MaxPackets = 1
  Modes = {"reap"}
SPECIFICATION FairSpec
PROPERTY SessionDeleted
CHECK_DEADLOCK FALSE
