SPECIFICATION RSSpec
CONSTANTS a = a b = b
  Txs = {a}
  Awaited = {a}
  Given <- Unsigned
  LEDGER_OFFSET = 1
  MaxSequence = 2
  MaxLedger = 2
INVARIANT ExpiredIsNotIncluded
CHECK_DEADLOCK FALSE
