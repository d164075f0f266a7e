SPECIFICATION Spec
CONSTANTS
  a = a
  b = b
  i = i
  Holders = {a, b}
  Issuer = i
  Mirrors = {"issuer", "auditor"}
  FirstSeq <- Sequences
  StartHeld <- StartOne
  MIN_BATCH_INNERS = 2
  MAX_BATCH_INNERS = 4
  Amounts = {1}
  MaxInners = 3
SYMMETRY Symmetry
CHECK_DEADLOCK FALSE
INVARIANTS NothingRejected
