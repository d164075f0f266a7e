SPECIFICATION ClientSpec
CONSTANTS
  Users = {u1, u2}
  Retries = {k1}
  Networks = {n1}
  NoNetwork = NoNetwork
  Eager = FALSE
CHECK_DEADLOCK FALSE
INVARIANT AnnouncedOnce
