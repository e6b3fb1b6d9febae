SPECIFICATION Spec
CONSTANTS
  Platforms = {"unix"}
  Lengths = {1, 2}
  HeaderLen = 2
  WireSize = 4
  QueueLimit = 2
  MaxItems = 3
  MaxBlocked = 1
  NoHandle = NoHandle
INVARIANT OwnHandle
CHECK_DEADLOCK FALSE
