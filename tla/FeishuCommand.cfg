SPECIFICATION Spec
CONSTANTS
  m1 = m1
  m2 = m2
  m3 = m3
  t1 = t1
  Msg = {m1, m2, m3}
  Own = {}
  Main = Main
  Thread = {t1}
  Place <- MCPlace
  Text <- MCText
  Quote <- MCQuote
  Nothing = Nothing
  DedupMax = 3
  DedupDrop = 1
  Liked = {}
  MaxEvents = 4
  MaxRestarts = 0
INVARIANTS
  CommandOnce
CHECK_DEADLOCK FALSE
