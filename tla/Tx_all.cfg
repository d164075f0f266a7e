SPECIFICATION TxSpec
CONSTANTS
  Accounts <- MCAccounts
  Keys <- MCKeys
  Absent = Absent
  Multi = Multi
  Sender = 1
  Sponsor = 2
  Involved = {1, 2, 3}
  Payloads = {p1, p2}
  Extras = {x1, x2}
  MaxCopies = 5
  MaxDrafts = 2
  Definitions <- MCDefinitions
  LeafValues <- MCLeafValues
  RangeLog = 2
  MAX_INT64 = 927
  MIN_EXPONENT <- MCMinExponent
  MAX_EXPONENT = 6
  DEFAULT_VALUE_EXPONENT <- MCDefaultExponent
  IntWidth = 2
  Pad = 1
  AmountWidth = 3
  MAX_IOU_PRECISION = 4
  MIN_IOU_EXPONENT <- MCMinIouExponent
  MAX_IOU_EXPONENT = 80
  MAX_DROPS = 2097100
  NumberTexts <- MCNumberTexts
  Amounts <- MCAmounts
  InnerFields <- MCInnerFields
  MaxFields = 2
  MaxDepth = 2
  MaxInner = 1
  Lengths = {0, 192, 193, 448, 449, 12480, 12481, 78016, 78017, 918744}
  Holders = {1, 2}
  Currencies = {usd, eur}
  MaxDrops = 1
  MaxLine = 1
  TagLength = 3
  Tags <- MCTags
  Data = {d1, d2}
  MaxAdds = 4
  FeeTypes = {"plain", "EscrowFinish", "special", "confidential", "LoanSet", "Batch"}
  InnerTypes <- MCInnerTypes
  Fulfillments <- MCFulfillments
  SignerCounts = {0, 2}
  Counterparties = {1, 2}
  BaseFee = 10
  Unity = 100
  Cushion = 101
  LoadFactors = {100, 103, 501}
  Reserve = 450
  MaxFee = 400
  AFAccounts = {A, B}
  Payer = A
  Inners = {1, 2, 3}
  Tickets = {{2}}
  Bad = {0, 2}
  AFCalls = {1, 2}
  MaxMoves = 1
  MaxAFFails = 1
CHECK_DEADLOCK FALSE
INVARIANTS
  SignaturesVerify
  SignersComplete
  InnersInOrder
  FeeCoversLoads
  DocumentsRoundTrip
  NumbersAreKept
  BalanceChangesAreRight
  TreesAreCanonical
PROPERTY AutofillEnds
