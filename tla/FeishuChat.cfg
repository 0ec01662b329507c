SPECIFICATION FairSpec
CONSTANTS
  m1 = m1
  m2 = m2
  m3 = m3
  t1 = t1
  Msg = {m1, m2, m3}
  Own = {o1}
  Main = Main
  Thread = {t1}
  Place <- MCPlace
  Text <- MCText
  Quote <- MCQuote
  Nothing = Nothing
  DedupMax = 1
  DedupDrop = 1
  Liked = {m2, o1}
  MaxEvents = 4
  MaxRestarts = 1
INVARIANTS
  TypeOK
  HandedOnce
  TypingAccounted
  MessageKept
PROPERTIES
  ActorsGetThrough
CHECK_DEADLOCK FALSE
