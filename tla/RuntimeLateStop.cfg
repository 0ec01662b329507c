SPECIFICATION Spec
CONSTANTS
  cc = cc
  thread = thread
  Nobody = Nobody
  User = User
  None = None
  CC <- OneCC
  Chat <- OneThread
  Peer <- PeerOf
  Parent <- ParentIsCC
  StopCalls = {s1, s2}
  MaxErrors = 2
  Obj = {o1, o2, o3, o4, o5}
  Task = {t1, t2, t3}
  MaxSent = 0
SYMMETRY Identities
PROPERTIES StopEndsOnlyItsActor
