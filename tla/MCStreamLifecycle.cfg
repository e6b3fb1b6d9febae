SPECIFICATION MCSpec
CONSTANTS
  s1 = s1
  s2 = s2
  k1 = k1
  k2 = k2
  None = None
  Streams = {s1, s2}
  Keys = {k1, k2}
  Watchers = {s1}
  Devices = {1, 2}
  MaxLists = 2
  Crashes = {"client", "server"}
INVARIANTS TypeOK NoCallbackAfterDrop CallbacksSound NoStaleDeviceChange OwnToken ChosenDevice
PROPERTIES ThreadsReturn ServerStopReturns Reclaimed
CHECK_DEADLOCK FALSE
