SPECIFICATION FairSpec
CONSTANTS
  Platforms = {"unix", "windows"}
  Lengths = {1, 2}
  HeaderLen = 2
  WireSize = 4
  QueueLimit = 3
  MaxItems = 3
  MaxBlocked = 0
  NoHandle = NoHandle
INVARIANTS TypeOK Framed HandlesOwned HandlesOutstanding
PROPERTIES AllDelivered HandlesReleased ChannelSpec
CHECK_DEADLOCK FALSE
