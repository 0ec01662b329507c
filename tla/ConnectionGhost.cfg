SPECIFICATION FairSpec
CONSTANTS
  x = x
  y = y
  dev = dev
  None = None
  Client = {x, y}
  Addr = {dev}
  Instance <- OneSession
  Sock = {s1, s2}
  MaxBreaks = 1
PROPERTIES GhostDetachHeals
