SPECIFICATION SGSpec
CONSTANTS
  Accounts <- MCAccounts
  Keys <- MCKeys
  Absent = Absent
  Multi = Multi
  Sender = 1
  Sponsor = 2
  Involved = {1, 2, 3}
  Payloads = {p1, p2}
  Extras = {x1, x2}
  MaxCopies = 5
  MaxDrafts = 2
CHECK_DEADLOCK FALSE
INVARIANT BatchSignaturesKept
