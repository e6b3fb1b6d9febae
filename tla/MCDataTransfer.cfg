SPECIFICATION Spec
CONSTANTS
  Channels = {0, 1, 2, 255, 256}
  Rates = {199, 999, 1000, 44100, 768000, 768001}
  Latencies = {0, 512, 1000000}
  Overrides = {0, 1024}
  MaxCallbacks = 2
INVARIANTS TypeOK AreaHoldsLatency ClampDefined SlicesInBounds InputIntact
CHECK_DEADLOCK FALSE
