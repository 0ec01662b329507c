SPECIFICATION FairSpec
CONSTANTS
  x = x
  y = y
  dev = dev
  None = None
  Client = {x, y}
  Addr = {dev}
  Instance <- OneSession
  Sock = {s1, s2}
  MaxBreaks = 3
INVARIANTS TypeOK PushReachesHandler ActiveIsBound
PROPERTIES FirstBeatHeals Reconnects
