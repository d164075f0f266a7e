SPECIFICATION RSSpec
CONSTANTS a = a b = b
  Txs = {a, b}
  Awaited = {a}
  Given <- Kinds
  LEDGER_OFFSET = 2
  MaxSequence = 2
  MaxLedger = 2
INVARIANTS RSTypeOK ResolvedIsValidated NoSequenceReuse PromptExpiryIsRight
PROPERTIES OutcomeIsFinal SubmissionsEnd
CHECK_DEADLOCK FALSE
