SPECIFICATION BuildSpec
CONSTANTS
  a = a
  b = b
  i = i
  Holders = {a, b}
  Issuer = i
  Mirrors = {"issuer", "auditor"}
  FirstSeq <- Sequences
  StartHeld <- StartOne
  MIN_BATCH_INNERS = 2
  MAX_BATCH_INNERS = 4
  Amounts = {1}
  MaxInners = 4
  MaxMptAmount = 7
  HighBit = 8
  MaxUInt8 = 255
  MaxUInt16 = 65535
  TxTypes <- MCTxTypes
  Exemplars = {"TicketCreate", "SponsorshipTransfer", "Payment"}
  MaxEdits = 2
SYMMETRY Symmetry
CHECK_DEADLOCK FALSE
INVARIANTS CBTypeOK PredictionMatches AcceptedByLedger DecryptsSuffice SignedAsValidated
