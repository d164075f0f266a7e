SPECIFICATION RASpec
CONSTANTS
  Limits = {0, 1, 2, 3, 4, 5}
  NoLimit = NoLimit
  MIN_LIMIT = 2
  MAX_LIMIT = 3
  Total = 6
  MaxEmpty = 0
CHECK_DEADLOCK FALSE
INVARIANT SingleRequest
