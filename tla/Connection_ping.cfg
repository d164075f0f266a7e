SPECIFICATION ConnSpec
CONSTANTS
  NoId = NoId
  NoCall = NoCall
  ReqId <- AutoIds
  Platforms = {"node"}
  Users = {u1, u2}
  Calls = {p1}
  Pings = {p1}
  MaxDrops = 0
  PeerCodes = {}
  Faults = {}
CHECK_DEADLOCK FALSE
PROPERTY ManualDisconnectStaysDown
