SPECIFICATION ConnSpec
CONSTANTS
  NoId = NoId
  NoCall = NoCall
  ReqId <- AutoIds
  Platforms = {"node"}
  Users = {u1, u2}
  Calls = {r1}
  Pings = {}
  MaxDrops = 0
  PeerCodes = {}
  Faults = {}
CHECK_DEADLOCK FALSE
INVARIANT DisconnectResolves
