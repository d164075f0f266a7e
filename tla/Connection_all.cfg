SPECIFICATION ConnSpec
CONSTANTS
  NoId = NoId
  NoCall = NoCall
  ReqId <- AutoIds
  Platforms = {"node", "browser"}
  Users = {u1, u2}
  Calls = {r1, p1}
  Pings = {p1}
  MaxDrops = 2
  PeerCodes = {"other", "undefined"}
  Faults = {"handshake", "listener"}
CHECK_DEADLOCK FALSE
INVARIANTS
  ConnTypeOK
  HeartbeatWatchesSocket
  EventsAlternate
  ConnTimerGuardsHandshake
  WaitersHaveSource
  NoRequestOutlivesSocket
PROPERTIES
  DisconnectsGoOn
  ConnLinkSpec
