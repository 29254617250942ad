SPECIFICATION Spec
CONSTANTS
  Gateways = {g1, g2}
  Limit = 2
  Window = 2
  Backoff = 1
  BackoffLimit = 3
  Doublings = 2
  MaxWindow = 1
  MaxRefusals = 3
  MaxPresses = 2
  None = None
SYMMETRY Symmetry
PROPERTIES ReadingNeverOlder
